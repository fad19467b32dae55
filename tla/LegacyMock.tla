------------------------------ MODULE LegacyMock ------------------------------
(***************************************************************************)
(* The MockNetwork of the first crate, meerkat-net: nodes that share one   *)
(* mutex with a registry of callbacks, and a thread for each message, which *)
(* sleeps, takes the mutex and runs the callback of the receiver under it. *)
(***************************************************************************)
EXTENDS Naturals, Sequences, FiniteSets

CONSTANTS
  Node, NoNode, Addr, Message, NoMessage,
  To,         \* To[m]: the address m is sent to
  MayPanic    \* callbacks may panic, which poisons the mutex

ASSUME LegacyMockAssumption ==
  /\ To \in [Message -> Addr] /\ NoNode \notin Node /\ NoMessage \notin Message
  /\ MayPanic \in BOOLEAN

VARIABLES
  peers,       \* peers[a]: whose callback SharedMockState has for a
  localAddrs,  \* local_addrs of each node
  thread,      \* thread[m]: how far the thread of m is
  holder,      \* the message whose thread runs a callback, under the mutex
  poisoned,    \* a callback panicked
  handed       \* handed[n]: the messages the callback of n got

vars == <<peers, localAddrs, thread, holder, poisoned, handed>>

Init ==
  /\ peers = [a \in Addr |-> NoNode] /\ localAddrs = [n \in Node |-> <<>>]
  /\ thread = [m \in Message |-> "none"]
  /\ holder = NoMessage /\ poisoned = FALSE /\ handed = [n \in Node |-> <<>>]

\* shared.lock().unwrap() gets the mutex.
Free == holder = NoMessage /\ ~poisoned
-----------------------------------------------------------------------------
\* A registry that lets a later listener take over.
AlwaysFree(a) == FALSE
\* state.peers.contains_key(&addr.0)
AlreadyListening(a) == peers[a] # NoNode

\* listen: it neither awaits nor unlocks before it returns.
Listen(n, a) ==
  /\ Free
  /\ IF AlreadyListening(a)
     THEN UNCHANGED <<peers, localAddrs>>
     ELSE /\ peers' = [peers EXCEPT ![a] = n]
          /\ localAddrs' = [localAddrs EXCEPT ![n] = Append(@, a)]
  /\ UNCHANGED <<thread, holder, poisoned, handed>>

\* send: an id at once, and a thread.
Send(m) ==
  /\ thread[m] = "none" /\ thread' = [thread EXCEPT ![m] = "asleep"]
  /\ UNCHANGED <<peers, localAddrs, holder, poisoned, handed>>

\* The thread looks up the receiver; without one the message is gone.
Wake(m) ==
  /\ thread[m] = "asleep" /\ Free
  /\ IF peers[To[m]] = NoNode
     THEN /\ thread' = [thread EXCEPT ![m] = "done"] /\ UNCHANGED holder
     ELSE /\ thread' = [thread EXCEPT ![m] = "calling"] /\ holder' = m
  /\ UNCHANGED <<peers, localAddrs, poisoned, handed>>

\* A guard that outlives its callback.
KeepsLock == holder
\* The end of the scope of `state'.
Unlocks == NoMessage
\* (peer.on_message)(from, msg) returns.
Callback(m) ==
  /\ thread[m] = "calling"
  /\ handed' = [handed EXCEPT ![peers[To[m]]] = Append(@, m)]
  /\ thread' = [thread EXCEPT ![m] = "done"] /\ holder' = Unlocks
  /\ UNCHANGED <<peers, localAddrs, poisoned>>

\* It panics instead, and every lock().unwrap() after it does, too.
CallbackPanics(m) ==
  /\ MayPanic /\ thread[m] = "calling"
  /\ poisoned' = TRUE /\ holder' = NoMessage
  /\ thread' = [thread EXCEPT ![m] = "done"]
  /\ UNCHANGED <<peers, localAddrs, handed>>

WakePoisoned(m) ==
  /\ thread[m] = "asleep" /\ poisoned
  /\ thread' = [thread EXCEPT ![m] = "done"]
  /\ UNCHANGED <<peers, localAddrs, holder, poisoned, handed>>
-----------------------------------------------------------------------------
ThreadStep(m) == Wake(m) \/ Callback(m) \/ CallbackPanics(m) \/ WakePoisoned(m)

Next ==
  \/ \E n \in Node, a \in Addr : Listen(n, a)
  \/ \E m \in Message : Send(m) \/ ThreadStep(m)

Spec == Init /\ [][Next]_vars

\* The operating system runs every thread; callbacks are as many as messages, so
\* the mutex is free from some point on for a thread that waits for it.
FairSpec == Spec /\ \A m \in Message : WF_vars(ThreadStep(m))
-----------------------------------------------------------------------------
(* Properties.                                                             *)

Count(s, x) == Cardinality({i \in 1 .. Len(s) : s[i] = x})

\* An address has one owner, the first node that listened on it, who lists it
\* once; and a message goes to the owner of its address, once, however the
\* threads overtake each other and whoever tries to listen on it later.
GoesToFirstListener ==
  /\ \A a \in Addr, n \in Node :
       Count(localAddrs[n], a) = IF peers[a] = n THEN 1 ELSE 0
  /\ \A m \in Message, n \in Node :
       Count(handed[n], m) <= IF peers[To[m]] = n /\ thread[m] = "done" THEN 1 ELSE 0

\* A message sent to an address after a listen on it returned is handed over,
\* unless a callback panics: no thread waits for the mutex for ever.
SentAfterListenArrives ==
  \A m \in Message :
    [](thread[m] = "none" /\ peers[To[m]] # NoNode =>
         (thread[m] = "asleep" ~> poisoned \/ \E n \in Node : Count(handed[n], m) = 1))
=============================================================================
