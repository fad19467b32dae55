--------------------------- MODULE LegacyMockProofs ---------------------------
(***************************************************************************)
(* Theorems about LegacyMock, for any nodes, addresses and messages.       *)
(***************************************************************************)
EXTENDS LegacyMock, SequenceTheorems, FiniteSetTheorems, TLAPS

TypeOK ==
  /\ peers \in [Addr -> Node \cup {NoNode}] /\ localAddrs \in [Node -> Seq(Addr)]
  /\ thread \in [Message -> {"none", "asleep", "calling", "done"}]
  /\ holder \in Message \cup {NoMessage} /\ poisoned \in BOOLEAN
  /\ handed \in [Node -> Seq(Message)]

\* A callback runs under the mutex, and for a node that listens.
CallInv ==
  \A m \in Message : thread[m] = "calling" => holder = m /\ peers[To[m]] \in Node

\* How often something occurs in a sequence that grows.
LEMMA CountAppend ==
  ASSUME NEW S, NEW s \in Seq(S), NEW x \in S, NEW y
  PROVE  /\ Count(s, y) \in Nat
         /\ Count(Append(s, x), y) = IF x = y THEN Count(s, y) + 1 ELSE Count(s, y)
<1>. DEFINE At(t) == {i \in 1 .. Len(t) : t[i] = y}
<1>1. /\ Len(s) \in Nat /\ Len(Append(s, x)) = Len(s) + 1
      /\ \A i \in 1 .. Len(s) : Append(s, x)[i] = s[i]
      /\ Append(s, x)[Len(s) + 1] = x
  BY AppendProperties, LenProperties
<1>2. \A i \in 1 .. Len(Append(s, x)) : i \in 1 .. Len(s) \/ i = Len(s) + 1
  BY <1>1
<1>3. \A i \in 1 .. Len(s) : i \in 1 .. Len(Append(s, x))
  BY <1>1
<1>4. Len(s) + 1 \in 1 .. Len(Append(s, x)) /\ Len(s) + 1 \notin 1 .. Len(s)
  BY <1>1
<1>5. At(Append(s, x)) = IF x = y THEN At(s) \cup {Len(s) + 1} ELSE At(s)
  BY <1>1, <1>2, <1>3, <1>4
<1>6. IsFiniteSet(At(s)) /\ Cardinality(At(s)) \in Nat /\ Len(s) + 1 \notin At(s)
  <2>1. IsFiniteSet(1 .. Len(s))
    BY <1>1, FS_Interval
  <2>2. At(s) \in SUBSET (1 .. Len(s))
    OBVIOUS
  <2>3. IsFiniteSet(At(s))
    BY <2>1, <2>2, FS_Subset
  <2>. QED
    BY <1>4, <2>3, FS_CardinalityType
<1>7. Cardinality(At(s) \cup {Len(s) + 1}) = Cardinality(At(s)) + 1
  BY <1>6, FS_AddElement
<1>8. Count(s, y) = Cardinality(At(s)) /\ Count(Append(s, x), y) = Cardinality(At(Append(s, x)))
  BY DEF Count
<1>. HIDE DEF At
<1>. QED
  BY <1>5, <1>6, <1>7, <1>8

\* Nothing occurs in the empty sequence.
LEMMA CountEmpty == \A y : Count(<<>>, y) = 0
<1>1. \A y : {i \in 1 .. Len(<<>>) : <<>>[i] = y} = {}
  OBVIOUS
<1>. QED
  BY <1>1, FS_EmptySet DEF Count

\* The types and the place of callbacks are kept by every step.
LEMMA CallNext ==
  ASSUME TypeOK, CallInv, [Next]_vars
  PROVE  TypeOK' /\ CallInv'
<1>0. To \in [Message -> Addr] /\ NoNode \notin Node /\ NoMessage \notin Message
  BY LegacyMockAssumption DEF LegacyMockAssumption
<1>1. ASSUME NEW n \in Node, NEW a \in Addr, Listen(n, a) PROVE TypeOK' /\ CallInv'
  <2>1. CASE AlreadyListening(a)
    BY <1>1, <2>1 DEF Listen, TypeOK, CallInv
  <2>2. CASE ~AlreadyListening(a)
    <3>1. /\ peers' = [peers EXCEPT ![a] = n] /\ UNCHANGED <<thread, holder, poisoned, handed>>
          /\ localAddrs' = [localAddrs EXCEPT ![n] = Append(@, a)]
      BY <1>1, <2>2 DEF Listen
    <3>2. localAddrs' \in [Node -> Seq(Addr)]
      BY <3>1, AppendProperties DEF TypeOK
    <3>3. peers' \in [Addr -> Node \cup {NoNode}] /\ \A b \in Addr : peers'[b] \in {peers[b], n}
      BY <3>1 DEF TypeOK
    <3>. QED
      BY <1>0, <3>1, <3>2, <3>3 DEF TypeOK, CallInv
  <2>. QED
    BY <2>1, <2>2
<1>2. ASSUME NEW m \in Message, Send(m) PROVE TypeOK' /\ CallInv'
  BY <1>2 DEF Send, TypeOK, CallInv
<1>3. ASSUME NEW m \in Message, Wake(m) PROVE TypeOK' /\ CallInv'
  <2>1. /\ UNCHANGED <<peers, localAddrs, poisoned, handed>> /\ holder = NoMessage
        /\ \A k \in Message : thread[k] # "calling"
    BY <1>0, <1>3 DEF Wake, Free, CallInv
  <2>2. CASE peers[To[m]] = NoNode
    <3>1. thread' = [thread EXCEPT ![m] = "done"] /\ holder' = holder
      BY <1>3, <2>2 DEF Wake
    <3>. QED
      BY <2>1, <3>1 DEF TypeOK, CallInv
  <2>3. CASE peers[To[m]] # NoNode
    <3>1. thread' = [thread EXCEPT ![m] = "calling"] /\ holder' = m
      BY <1>3, <2>3 DEF Wake
    <3>2. peers[To[m]] \in Node
      BY <1>0, <2>3 DEF TypeOK
    <3>. QED
      BY <2>1, <3>1, <3>2 DEF TypeOK, CallInv
  <2>. QED
    BY <2>2, <2>3
<1>4. ASSUME NEW m \in Message, Callback(m) PROVE TypeOK' /\ CallInv'
  <2>1. /\ handed' = [handed EXCEPT ![peers[To[m]]] = Append(@, m)]
        /\ thread' = [thread EXCEPT ![m] = "done"] /\ holder' = NoMessage
        /\ UNCHANGED <<peers, localAddrs, poisoned>> /\ holder = m /\ peers[To[m]] \in Node
    BY <1>4 DEF Callback, Unlocks, CallInv
  <2>2. handed' \in [Node -> Seq(Message)]
    BY <2>1, AppendProperties DEF TypeOK
  <2>. QED
    BY <2>1, <2>2 DEF TypeOK, CallInv
<1>5. ASSUME NEW m \in Message, CallbackPanics(m) PROVE TypeOK' /\ CallInv'
  BY <1>5 DEF CallbackPanics, TypeOK, CallInv
<1>6. ASSUME NEW m \in Message, WakePoisoned(m) PROVE TypeOK' /\ CallInv'
  BY <1>6 DEF WakePoisoned, TypeOK, CallInv
<1>7. CASE UNCHANGED vars
  BY <1>7 DEF vars, TypeOK, CallInv
<1>. QED
  BY <1>1, <1>2, <1>3, <1>4, <1>5, <1>6, <1>7 DEF Next, ThreadStep

\* A step keeps the owners, the lists of addresses and what was handed over in
\* agreement.
LEMMA OwnerNext ==
  ASSUME TypeOK, CallInv, GoesToFirstListener, [Next]_vars
  PROVE  GoesToFirstListener'
<1>0. To \in [Message -> Addr] /\ NoNode \notin Node
  BY LegacyMockAssumption DEF LegacyMockAssumption
<1>1. ASSUME UNCHANGED <<peers, localAddrs, handed>>,
             \A m \in Message : thread[m] = "done" => thread'[m] = "done"
      PROVE  GoesToFirstListener'
  <2>1. \A m \in Message, n \in Node :
          Count(handed[n], m) <= IF peers[To[m]] = n /\ thread'[m] = "done" THEN 1 ELSE 0
    <3>. SUFFICES ASSUME NEW m \in Message, NEW n \in Node
                  PROVE  Count(handed[n], m)
                           <= IF peers[To[m]] = n /\ thread'[m] = "done" THEN 1 ELSE 0
      OBVIOUS
    <3>1. /\ Count(handed[n], m) \in Nat
          /\ Count(handed[n], m) <= IF peers[To[m]] = n /\ thread[m] = "done" THEN 1 ELSE 0
      BY CountAppend DEF TypeOK, GoesToFirstListener
    <3>. QED
      BY <1>1, <3>1
  <2>. QED
    BY <1>1, <2>1 DEF GoesToFirstListener
<1>2. ASSUME NEW n \in Node, NEW a \in Addr, Listen(n, a), ~AlreadyListening(a)
      PROVE  GoesToFirstListener'
  <2>1. /\ peers' = [peers EXCEPT ![a] = n] /\ peers[a] = NoNode
        /\ localAddrs' = [localAddrs EXCEPT ![n] = Append(@, a)]
        /\ UNCHANGED <<thread, handed>>
    BY <1>2 DEF Listen, AlreadyListening
  <2>2. /\ peers'[a] = n /\ \A b \in Addr \ {a} : peers'[b] = peers[b]
        /\ localAddrs'[n] = Append(localAddrs[n], a)
        /\ \A k \in Node \ {n} : localAddrs'[k] = localAddrs[k]
    BY <2>1 DEF TypeOK
  <2>3. ASSUME NEW b \in Addr, NEW k \in Node
        PROVE  Count(localAddrs'[k], b) = IF peers'[b] = k THEN 1 ELSE 0
    <3>1. Count(localAddrs[k], b) = IF peers[b] = k THEN 1 ELSE 0
      BY DEF GoesToFirstListener
    <3>2. Count(localAddrs'[k], b) = IF k = n /\ b = a THEN Count(localAddrs[k], b) + 1
                                                     ELSE Count(localAddrs[k], b)
      <4>1. localAddrs[n] \in Seq(Addr)
        BY DEF TypeOK
      <4>2. Count(Append(localAddrs[n], a), b)
              = IF a = b THEN Count(localAddrs[n], b) + 1 ELSE Count(localAddrs[n], b)
        BY <4>1, CountAppend
      <4>. QED
        BY <2>2, <4>2
    <3>3. peers[a] # k
      BY <1>0, <2>1
    <3>. QED
      BY <2>2, <3>1, <3>2, <3>3
  <2>4. ASSUME NEW m \in Message, NEW k \in Node
        PROVE  Count(handed'[k], m) <= IF peers'[To[m]] = k /\ thread'[m] = "done" THEN 1 ELSE 0
    <3>1. /\ Count(handed[k], m) \in Nat
          /\ Count(handed[k], m) <= IF peers[To[m]] = k /\ thread[m] = "done" THEN 1 ELSE 0
      BY CountAppend DEF TypeOK, GoesToFirstListener
    <3>2. peers[To[m]] = k => peers'[To[m]] = k
      BY <1>0, <2>1, <2>2
    <3>. QED
      BY <2>1, <3>1, <3>2
  <2>. QED
    BY <2>3, <2>4 DEF GoesToFirstListener
<1>3. ASSUME NEW m \in Message, Callback(m) PROVE GoesToFirstListener'
  <2>1. /\ handed' = [handed EXCEPT ![peers[To[m]]] = Append(@, m)]
        /\ thread' = [thread EXCEPT ![m] = "done"] /\ thread[m] = "calling"
        /\ UNCHANGED <<peers, localAddrs>> /\ peers[To[m]] \in Node
    BY <1>3 DEF Callback, CallInv
  <2>2. ASSUME NEW x \in Message, NEW k \in Node
        PROVE  Count(handed'[k], x) <= IF peers[To[x]] = k /\ thread'[x] = "done" THEN 1 ELSE 0
    <3>1. /\ Count(handed[k], x) \in Nat /\ handed[k] \in Seq(Message)
          /\ Count(handed[k], x) <= IF peers[To[x]] = k /\ thread[x] = "done" THEN 1 ELSE 0
      BY CountAppend DEF TypeOK, GoesToFirstListener
    <3>2. CASE k = peers[To[m]]
      <4>1. handed'[k] = Append(handed[k], m)
        BY <2>1, <3>2 DEF TypeOK
      <4>2. Count(handed'[k], x) = IF m = x THEN Count(handed[k], x) + 1 ELSE Count(handed[k], x)
        BY <3>1, <4>1, CountAppend
      <4>3. thread'[m] = "done" /\ \A y \in Message \ {m} : thread'[y] = thread[y]
        BY <2>1 DEF TypeOK
      <4>. QED
        BY <2>1, <3>1, <3>2, <4>2, <4>3
    <3>3. CASE k # peers[To[m]]
      <4>1. handed'[k] = handed[k]
        BY <2>1, <3>3 DEF TypeOK
      <4>2. thread[x] = "done" => thread'[x] = "done"
        BY <2>1 DEF TypeOK
      <4>. QED
        BY <3>1, <4>1, <4>2
    <3>. QED
      BY <3>2, <3>3
  <2>. QED
    BY <2>1, <2>2 DEF GoesToFirstListener
<1>4. ASSUME \/ \E n \in Node, a \in Addr : Listen(n, a) /\ AlreadyListening(a)
             \/ \E m \in Message : Send(m) \/ Wake(m) \/ CallbackPanics(m) \/ WakePoisoned(m)
             \/ UNCHANGED vars
      PROVE  /\ UNCHANGED <<peers, localAddrs, handed>>
             /\ \A m \in Message : thread[m] = "done" => thread'[m] = "done"
  <2>1. ASSUME NEW n \in Node, NEW a \in Addr, Listen(n, a), AlreadyListening(a)
        PROVE  UNCHANGED <<peers, localAddrs, handed, thread>>
    BY <2>1 DEF Listen
  <2>2. ASSUME NEW m \in Message, Send(m) \/ Wake(m) \/ CallbackPanics(m) \/ WakePoisoned(m)
        PROVE  /\ UNCHANGED <<peers, localAddrs, handed>> /\ thread[m] # "done"
               /\ \E v : thread' = [thread EXCEPT ![m] = v]
    BY <2>2 DEF Send, Wake, CallbackPanics, WakePoisoned
  <2>3. ASSUME NEW m \in Message, Send(m) \/ Wake(m) \/ CallbackPanics(m) \/ WakePoisoned(m),
               NEW k \in Message, thread[k] = "done"
        PROVE  thread'[k] = "done"
    BY <2>2, <2>3 DEF TypeOK
  <2>. QED
    BY <1>4, <2>1, <2>2, <2>3 DEF vars
<1>. QED
  BY <1>1, <1>2, <1>3, <1>4 DEF Next, ThreadStep

\* However the threads overtake each other, and whoever listens where somebody
\* already does: an address has its first listener, a message goes to the owner
\* of its address, and nobody gets it twice.
THEOREM FirstListenerGetsIt == Spec => []GoesToFirstListener
<1>1. Init => TypeOK /\ CallInv /\ GoesToFirstListener
  <2>. SUFFICES ASSUME Init PROVE TypeOK /\ CallInv /\ GoesToFirstListener
    OBVIOUS
  <2>1. /\ peers \in [Addr -> Node \cup {NoNode}] /\ localAddrs \in [Node -> Seq(Addr)]
        /\ thread \in [Message -> {"none", "asleep", "calling", "done"}]
        /\ handed \in [Node -> Seq(Message)] /\ holder = NoMessage /\ poisoned = FALSE
        /\ CallInv
    BY DEF Init, CallInv
  <2>2. GoesToFirstListener
    BY CountEmpty, LegacyMockAssumption DEF Init, GoesToFirstListener, LegacyMockAssumption
  <2>. QED
    BY <2>1, <2>2 DEF TypeOK
<1>. QED
  BY <1>1, CallNext, OwnerNext, PTL DEF Spec
===============================================================================
