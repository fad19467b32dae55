------------------------------- MODULE PingPong -------------------------------
(***************************************************************************)
(* The ping-pong demo: the servers of server/src/main.rs, the native client *)
(* of client/src/main.rs, which pings one of them in a loop, and the       *)
(* browser client of wasm-client/src/lib.rs, whose two functions anybody   *)
(* on the page may call at any time and which keeps its connection in two  *)
(* statics.  Each ping has a stream of its own, and its length-prefixed    *)
(* messages are those of Framing: they come through whole or not at all.   *)
(***************************************************************************)
EXTENDS Naturals, FiniteSets

CONSTANTS
  Server, NoServer,
  NativeServer,         \* the server in the native client's arguments
  Connect, NoConnect,   \* calls of connect_to_server
  ServerOf,             \* ServerOf[c]: the server whose address c is given
  BrowserPing,          \* calls of send_ping
  MaxPings              \* bound on the pings of the native client

ASSUME PingPongAssumption ==
  /\ NativeServer \in Server /\ NoServer \notin Server /\ NoConnect \notin Connect
  /\ ServerOf \in [Connect -> Server]
  /\ BrowserPing \cap Nat = {} /\ MaxPings \in Nat

NativePing == 1 .. MaxPings
Ping == NativePing \cup BrowserPing

VARIABLES
  counter,   \* the native client's counter
  stopped,   \* send_pings has returned
  connect,   \* connect[c]: how far connect_to_server is, then its connection
  PEER_ID,   \* the two statics; a control is named by the call that made it
  CONTROL,
  ping,      \* ping[k]: where send_ping is
  via,       \* via[k]: the control a ping of the browser uses
  aim,       \* aim[k]: the server a ping is for
  far,       \* far[k]: where its stream is in the server
  handled,   \* handled[k]: how many pings of this number were answered
  silent     \* pings whose stream neither delivers any more nor breaks

nativeVars == <<counter, stopped>>
staticVars == <<PEER_ID, CONTROL>>
vars == <<nativeVars, connect, staticVars, ping, via, aim, far, handled, silent>>

Init ==
  /\ counter = 0 /\ stopped = FALSE
  /\ connect = [c \in Connect |-> "none"]
  /\ PEER_ID = NoServer /\ CONTROL = NoConnect
  /\ ping = [k \in Ping |-> "none"]
  /\ via = [k \in BrowserPing |-> NoConnect] /\ aim = [k \in Ping |-> NoServer]
  /\ far = [k \in Ping |-> "none"] /\ handled = [k \in Ping |-> 0] /\ silent = {}

Ended(k) == ping[k] \in {"ok", "err"}
-----------------------------------------------------------------------------
(* The native client: send_pings.                                          *)

\* A counter that only counts what succeeded.
NextOfCompleted == Cardinality({k \in NativePing : ping[k] = "ok"}) + 1
\* counter += 1, before anything can fail.
NextNumber == counter + 1

\* After the sleep, the next ping, unless the loop has returned; the one before
\* is over.
NextPing ==
  /\ ~stopped /\ (counter > 0 => Ended(counter))
  /\ NextNumber \in NativePing
  /\ counter' = NextNumber
  /\ ping' = [ping EXCEPT ![NextNumber] = "opening"]
  /\ aim' = [aim EXCEPT ![NextNumber] = NativeServer]
  /\ far' = [far EXCEPT ![NextNumber] = "none"]
  /\ UNCHANGED <<stopped, connect, staticVars, via, handled, silent>>

\* OpenStreamError::UnsupportedProtocol: the only error on which send_pings
\* returns, and no ping follows.
Unsupported ==
  /\ counter > 0 /\ ping[counter] = "opening" /\ counter \notin silent
  /\ ping' = [ping EXCEPT ![counter] = "err"] /\ stopped' = TRUE
  /\ UNCHANGED <<counter, connect, staticVars, via, aim, far, handled, silent>>
-----------------------------------------------------------------------------
(* The browser client: connect_to_server.                                  *)

\* Statics that are filled before there is a connection.
FillsEarly(c) == PEER_ID' = ServerOf[c] /\ UNCHANGED CONTROL
FillsLater(c) == UNCHANGED staticVars

\* Up to the first await: swarm.dial has returned Ok.
ConnectCalled(c) ==
  /\ connect[c] = "none" /\ connect' = [connect EXCEPT ![c] = "dialling"]
  /\ FillsLater(c)
  /\ UNCHANGED <<nativeVars, ping, via, aim, far, handled, silent>>

\* ConnectionEstablished: both statics, without an await in between, and the
\* swarm goes on in a task of its own.
Connected(c) ==
  /\ connect[c] = "dialling" /\ connect' = [connect EXCEPT ![c] = "up"]
  /\ PEER_ID' = ServerOf[c] /\ CONTROL' = c
  /\ UNCHANGED <<nativeVars, ping, via, aim, far, handled, silent>>

\* OutgoingConnectionError: Err, and the statics keep what they had.
ConnectFails(c) ==
  /\ connect[c] = "dialling" /\ connect' = [connect EXCEPT ![c] = "failed"]
  /\ UNCHANGED <<nativeVars, staticVars, ping, via, aim, far, handled, silent>>

\* A connection goes later: nobody takes it out of the statics.
Disconnected(c) ==
  /\ connect[c] = "up" /\ connect' = [connect EXCEPT ![c] = "closed"]
  /\ UNCHANGED <<nativeVars, staticVars, ping, via, aim, far, handled, silent>>

\* send_ping reads both statics and awaits open_stream.
SendPing(k) ==
  /\ ping[k] = "none"
  /\ IF PEER_ID = NoServer \/ CONTROL = NoConnect
     THEN ping' = [ping EXCEPT ![k] = "err"] /\ UNCHANGED <<via, aim>>
     ELSE /\ ping' = [ping EXCEPT ![k] = "opening"]
          /\ via' = [via EXCEPT ![k] = CONTROL] /\ aim' = [aim EXCEPT ![k] = PEER_ID]
  /\ UNCHANGED <<nativeVars, connect, staticVars, far, handled, silent>>
-----------------------------------------------------------------------------
(* One exchange, the same for both clients.                                *)

\* The swarm of a control reaches the server it is connected to.
CanReach(k) ==
  k \in BrowserPing => connect[via[k]] = "up" /\ ServerOf[via[k]] = aim[k]

\* open_stream; the server drops the stream if it does not accept fast enough.
Open(k) ==
  /\ ping[k] = "opening" /\ CanReach(k) /\ k \notin silent
  /\ ping' = [ping EXCEPT ![k] = "open"]
  /\ \E f \in {"channel", "dropped"} : far' = [far EXCEPT ![k] = f]
  /\ UNCHANGED <<nativeVars, connect, staticVars, via, aim, handled, silent>>

\* The two write_all.
Write(k) ==
  /\ ping[k] = "open" /\ k \notin silent
  /\ ping' = [ping EXCEPT ![k] = "waiting"]
  /\ UNCHANGED <<nativeVars, connect, staticVars, via, aim, far, handled, silent>>

\* The two read_exact find the pong.
ReadPong(k) ==
  /\ ping[k] = "waiting" /\ far[k] = "answered" /\ k \notin silent
  /\ ping' = [ping EXCEPT ![k] = "ok"]
  /\ UNCHANGED <<nativeVars, connect, staticVars, via, aim, far, handled, silent>>

\* Any `?' of the exchange, and the error of open_stream.  The native client
\* goes on with its next number, the browser returns the error to the page.
Fails(k) ==
  /\ ping[k] \in {"opening", "open", "waiting"} /\ k \notin silent
  /\ ping' = [ping EXCEPT ![k] = "err"]
  /\ UNCHANGED <<nativeVars, connect, staticVars, via, aim, far, handled, silent>>

\* A server that takes the next stream only when a ping is answered.
OneAtATime(k) == \A j \in Ping : aim[j] = aim[k] => far[j] # "task"
Concurrent(k) == TRUE

\* The server's accept loop: a task for each stream.
Accept(k) ==
  /\ far[k] = "channel" /\ Concurrent(k) /\ far' = [far EXCEPT ![k] = "task"]
  /\ UNCHANGED <<nativeVars, connect, staticVars, ping, via, aim, handled, silent>>

\* handle_ping: the ping is there, and the pong goes out.  It does not notice
\* when the client has given up meanwhile.
HandlePing(k) ==
  /\ far[k] = "task" /\ ping[k] \in {"waiting", "err"} /\ k \notin silent
  /\ far' = [far EXCEPT ![k] = "answered"]
  /\ handled' = [handled EXCEPT ![k] = @ + 1]
  /\ UNCHANGED <<nativeVars, connect, staticVars, ping, via, aim, silent>>

\* It fails: the stream broke.
HandleFails(k) ==
  /\ far[k] = "task" /\ k \notin silent
  /\ far' = [far EXCEPT ![k] = "failed"]
  /\ UNCHANGED <<nativeVars, connect, staticVars, ping, via, aim, handled, silent>>

\* A network that neither delivers nor reports: nothing has a timeout.
FallsSilent(k) ==
  /\ ping[k] \in {"opening", "open", "waiting"} /\ silent' = silent \cup {k}
  /\ UNCHANGED <<nativeVars, connect, staticVars, ping, via, aim, far, handled>>
-----------------------------------------------------------------------------
\* What has to happen to a stream that works, and one that does not.
Proceeds(k) ==
  \/ Open(k) \/ Write(k) \/ ReadPong(k)
  \/ Fails(k) /\ (~CanReach(k) \/ far[k] \in {"dropped", "failed"})

Next ==
  \/ NextPing \/ Unsupported
  \/ \E c \in Connect :
       ConnectCalled(c) \/ Connected(c) \/ ConnectFails(c) \/ Disconnected(c)
  \/ \E k \in BrowserPing : SendPing(k)
  \/ \E k \in Ping : \/ Open(k) \/ Write(k) \/ ReadPong(k) \/ Fails(k)
                     \/ Accept(k) \/ HandlePing(k) \/ HandleFails(k)
                     \/ FallsSilent(k)

Spec == Init /\ [][Next]_vars

\* The executors run every task of the clients and the servers.
FairSpec ==
  /\ Spec /\ WF_vars(NextPing)
  /\ \A k \in Ping : WF_vars(Proceeds(k)) /\ WF_vars(Accept(k))
                     /\ WF_vars(HandlePing(k) \/ HandleFails(k))
-----------------------------------------------------------------------------
(* Properties.                                                             *)

\* The two statics belong to one call of connect_to_server, one that returned
\* Ok, however calls overlap and whichever of them fail.
StaticsBelongTogether ==
  /\ PEER_ID = NoServer <=> CONTROL = NoConnect
  /\ CONTROL # NoConnect =>
       PEER_ID = ServerOf[CONTROL] /\ connect[CONTROL] \in {"up", "closed"}

\* No ping is answered twice, although the native client goes on after an
\* error that came when the server had already answered; and a ping that is
\* reported as complete was answered.
CompleteMeansAnsweredOnce ==
  \A k \in Ping : handled[k] <= 1 /\ (ping[k] = "ok" => handled[k] = 1)

\* Every ping comes to its pong or to an error, also when another call of
\* connect_to_server replaces the statics meanwhile, and also when the server
\* is busy with others: only a network that falls silent holds one up.
EveryPingEnds ==
  \A k \in Ping : ping[k] = "opening" ~> Ended(k) \/ k \in silent
=============================================================================
