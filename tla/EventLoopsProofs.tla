--------------------------- MODULE EventLoopsProofs ---------------------------
(***************************************************************************)
(* What holds of the event loops for every number of nodes and messages,   *)
(* every capacity of the channels, and rings of every length.              *)
(***************************************************************************)
EXTENDS EventLoops, TLAPS

(* The inductive invariant: what a message that is not open yet, one that  *)
(* is being written, one that was reported as sent, and one in a channel   *)
(* look like.                                                              *)

FreshInv ==
  /\ \A m \in todo : verdict[m] = "none" /\ place[m] = "none"
  /\ \A n \in Node : \A m \in arm[n] :
       /\ verdict[m] = "none" /\ place[m] = "none"
       /\ Source[m] = n /\ m \notin todo

WritingInv ==
  \A n \in Node : writing[n] # NoMessage =>
    /\ Source[writing[n]] = n
    /\ verdict[writing[n]] = "none" /\ place[writing[n]] # "none"

SentInv ==
  \A m \in Large : verdict[m] = "ok" => place[m] \in {"task", "read"}

ChannelInv ==
  \A n \in Node : \A i \in 1 .. Len(channel[n]) :
    /\ place[channel[n][i]] = "channel" /\ Destination[channel[n][i]] = n
    /\ \A j \in 1 .. Len(channel[n]) : i # j => channel[n][i] # channel[n][j]

IInv == TypeOK /\ FreshInv /\ WritingInv /\ SentInv /\ ChannelInv /\ DropHasRival

-----------------------------------------------------------------------------
(* Each action keeps it.                                                   *)

LEMMA InitInv ==
  ASSUME LoopsAssumption, Init
  PROVE  IInv
<1>1. TypeOK
  BY DEF LoopsAssumption, Init, TypeOK
<1>2. FreshInv /\ WritingInv /\ SentInv /\ ChannelInv /\ DropHasRival
  BY DEF LoopsAssumption, Init, FreshInv, WritingInv, SentInv, ChannelInv, DropHasRival
<1> QED
  BY <1>1, <1>2 DEF IInv

LEMMA TakeArmInv ==
  ASSUME LoopsAssumption, IInv, NEW n \in Node, TakeArm(n)
  PROVE  IInv'
<1>1. PICK S \in (SUBSET todo) \ {{}} :
        /\ \A m \in S : Source[m] = n
        /\ arm' = [arm EXCEPT ![n] = S] /\ todo' = todo \ S
  BY DEF TakeArm
<1>2. UNCHANGED <<writing, verdict, place, channel>> /\ arm[n] = {}
  BY DEF TakeArm
<1>3. TypeOK'
  BY <1>1, <1>2 DEF IInv, TypeOK
<1>4. FreshInv'
  BY <1>1, <1>2 DEF IInv, TypeOK, FreshInv
<1>5. WritingInv' /\ SentInv' /\ ChannelInv' /\ DropHasRival'
  BY <1>2 DEF IInv, WritingInv, SentInv, ChannelInv, DropHasRival
<1> QED
  BY <1>3, <1>4, <1>5 DEF IInv

LEMMA OpenStreamInv ==
  ASSUME LoopsAssumption, IInv, NEW n \in Node, OpenStream(n)
  PROVE  IInv'
<1>1. PICK m \in arm[n] :
        /\ arm' = [arm EXCEPT ![n] = @ \ {m}]
        /\ \/ /\ writing' = [writing EXCEPT ![n] = m]
              /\ place' = [place EXCEPT ![m] = "offered"]
              /\ UNCHANGED verdict
           \/ /\ verdict' = [verdict EXCEPT ![m] = "err"]
              /\ UNCHANGED <<writing, place>>
  BY DEF OpenStream
<1>2. UNCHANGED <<todo, channel>> /\ writing[n] = NoMessage
  BY DEF OpenStream
<1>3. /\ m \in Message /\ m # NoMessage /\ m \notin todo /\ Source[m] = n
      /\ verdict[m] = "none" /\ place[m] = "none"
  BY DEF LoopsAssumption, IInv, TypeOK, FreshInv
<1>4. TypeOK'
  <2>1. arm' \in [Node -> SUBSET Message]
    BY <1>1 DEF IInv, TypeOK
  <2>2. writing' \in [Node -> Message \cup {NoMessage}]
    <3>1. writing \in [Node -> Message \cup {NoMessage}]
      BY DEF IInv, TypeOK
    <3>2. writing' = writing \/ writing' = [writing EXCEPT ![n] = m]
      BY <1>1
    <3> QED
      BY <1>3, <3>1, <3>2
  <2>3. verdict' \in [Message -> {"none", "ok", "err"}]
    <3>1. verdict \in [Message -> {"none", "ok", "err"}]
      BY DEF IInv, TypeOK
    <3>2. verdict' = verdict \/ verdict' = [verdict EXCEPT ![m] = "err"]
      BY <1>1
    <3> QED
      BY <3>1, <3>2
  <2>4. place' \in [Message ->
             {"none", "offered", "channel", "dropped", "task", "read", "unread"}]
    <3>1. place \in [Message ->
             {"none", "offered", "channel", "dropped", "task", "read", "unread"}]
      BY DEF IInv, TypeOK
    <3>2. place' = place \/ place' = [place EXCEPT ![m] = "offered"]
      BY <1>1
    <3> QED
      BY <3>1, <3>2
  <2> QED
    BY <1>2, <2>1, <2>2, <2>3, <2>4 DEF IInv, TypeOK
<1>5. FreshInv'
  BY <1>1, <1>2, <1>3 DEF IInv, TypeOK, FreshInv
<1>6. WritingInv'
  <2>1. SUFFICES ASSUME NEW k \in Node, writing'[k] # NoMessage
                 PROVE  /\ Source[writing'[k]] = k
                        /\ verdict'[writing'[k]] = "none" /\ place'[writing'[k]] # "none"
    BY DEF WritingInv
  <2>2. CASE writing'[k] = writing[k]
    <3>1. /\ Source[writing[k]] = k /\ verdict[writing[k]] = "none"
          /\ place[writing[k]] # "none" /\ writing[k] \in Message
      BY <2>1, <2>2 DEF IInv, TypeOK, WritingInv
    <3>2. writing[k] # m
      BY <1>3, <3>1
    <3> QED
      BY <1>1, <2>2, <3>1, <3>2 DEF IInv, TypeOK
  <2>3. CASE writing'[k] # writing[k]
    <3>1. writing' = [writing EXCEPT ![n] = m] /\ place' = [place EXCEPT ![m] = "offered"]
          /\ UNCHANGED verdict
      BY <1>1, <2>3
    <3>2. k = n /\ writing'[k] = m
      BY <2>3, <3>1 DEF IInv, TypeOK
    <3> QED
      BY <1>3, <3>1, <3>2 DEF IInv, TypeOK
  <2> QED
    BY <2>2, <2>3
<1>7. SentInv'
  BY <1>1, <1>3 DEF LoopsAssumption, IInv, TypeOK, SentInv
<1>8. ChannelInv'
  BY <1>1, <1>2, <1>3 DEF IInv, TypeOK, ChannelInv
<1>9. DropHasRival'
  BY <1>1, <1>3 DEF IInv, TypeOK, DropHasRival
<1> QED
  BY <1>4, <1>5, <1>6, <1>7, <1>8, <1>9 DEF IInv

\* The three ends of a write.
LEMMA SettleInv ==
  ASSUME LoopsAssumption, IInv, NEW n \in Node,
         WriteEnds(n) \/ WriteRefused(n) \/ StreamBreaks(n)
  PROVE  IInv'
<1> DEFINE m == writing[n]
<1>1. PICK v \in {"ok", "err"} :
        /\ verdict' = [verdict EXCEPT ![m] = v]
        /\ v = "ok" => Taken(m)
  BY DEF WriteEnds, WriteRefused, StreamBreaks, Settle
<1>2. /\ writing' = [writing EXCEPT ![n] = NoMessage] /\ m # NoMessage
      /\ UNCHANGED <<todo, arm, place, channel>>
  BY DEF WriteEnds, WriteRefused, StreamBreaks, Settle
<1>3. m \in Message /\ Source[m] = n /\ place[m] # "none"
  BY <1>2 DEF IInv, TypeOK, WritingInv
<1> HIDE DEF m
<1>4. TypeOK'
  BY <1>1, <1>2, <1>3 DEF IInv, TypeOK
<1>5. FreshInv'
  BY <1>1, <1>2, <1>3 DEF IInv, TypeOK, FreshInv
<1>6. WritingInv'
  <2>1. SUFFICES ASSUME NEW k \in Node, writing'[k] # NoMessage
                 PROVE  /\ Source[writing'[k]] = k
                        /\ verdict'[writing'[k]] = "none" /\ place'[writing'[k]] # "none"
    BY DEF WritingInv
  <2>2. k # n /\ writing'[k] = writing[k] /\ writing[k] \in Message
    BY <1>2, <2>1 DEF IInv, TypeOK
  <2>3. /\ Source[writing[k]] = k /\ verdict[writing[k]] = "none"
        /\ place[writing[k]] # "none"
    BY <2>1, <2>2 DEF IInv, WritingInv
  <2>4. writing[k] # m
    BY <1>3, <2>2, <2>3
  <2> QED
    BY <1>1, <1>2, <2>2, <2>3, <2>4 DEF IInv, TypeOK
<1>7. SentInv'
  BY <1>1, <1>2, <1>3 DEF LoopsAssumption, IInv, TypeOK, SentInv, Taken
<1>8. ChannelInv' /\ DropHasRival'
  BY <1>2 DEF IInv, ChannelInv, DropHasRival
<1> QED
  BY <1>4, <1>5, <1>6, <1>7, <1>8 DEF IInv

LEMMA AcceptStreamInv ==
  ASSUME LoopsAssumption, IInv, NEW n \in Node, AcceptStream(n)
  PROVE  IInv'
<1> DEFINE m == Head(channel[n])
<1>1. /\ place' = [place EXCEPT ![m] = "task"]
      /\ channel' = [channel EXCEPT ![n] = Tail(@)]
      /\ UNCHANGED <<todo, arm, writing, verdict>> /\ channel[n] # <<>>
  BY DEF AcceptStream
<1>2. /\ channel[n] \in Seq(Message) /\ 1 \in 1 .. Len(channel[n])
      /\ m = channel[n][1]
  BY <1>1 DEF IInv, TypeOK
<1>3. /\ m \in Message /\ place[m] = "channel" /\ Destination[m] = n
      /\ \A j \in 2 .. Len(channel[n]) : channel[n][j] # m
  BY <1>2 DEF IInv, ChannelInv
<1> HIDE DEF m
<1>4. /\ Tail(channel[n]) \in Seq(Message)
      /\ Len(Tail(channel[n])) = Len(channel[n]) - 1
      /\ \A i \in 1 .. Len(Tail(channel[n])) :
           /\ Tail(channel[n])[i] = channel[n][i + 1]
           /\ i + 1 \in 2 .. Len(channel[n])
  BY <1>1, <1>2
<1>5. TypeOK'
  BY <1>1, <1>2, <1>3, <1>4 DEF LoopsAssumption, IInv, TypeOK
<1>6. FreshInv' /\ WritingInv'
  BY <1>1, <1>3 DEF IInv, TypeOK, FreshInv, WritingInv
<1>7. SentInv'
  BY <1>1, <1>3 DEF LoopsAssumption, IInv, TypeOK, SentInv
<1>8. ChannelInv'
  <2>1. SUFFICES ASSUME NEW k \in Node, NEW i \in 1 .. Len(channel'[k])
                 PROVE  /\ place'[channel'[k][i]] = "channel"
                        /\ Destination[channel'[k][i]] = k
                        /\ \A j \in 1 .. Len(channel'[k]) :
                             i # j => channel'[k][i] # channel'[k][j]
    BY DEF ChannelInv
  <2>2. CASE k = n
    <3>1. channel'[k] = Tail(channel[n])
      BY <1>1, <2>2 DEF IInv, TypeOK
    <3>2. \A j \in 1 .. Len(channel'[k]) :
            /\ channel'[k][j] = channel[n][j + 1] /\ j + 1 \in 2 .. Len(channel[n])
            /\ j + 1 \in 1 .. Len(channel[n]) /\ j \in Nat
      BY <1>4, <3>1
    <3>3. channel[n][i + 1] \in Message /\ channel[n][i + 1] # m
      BY <1>2, <1>3, <3>2
    <3>4. /\ place[channel[n][i + 1]] = "channel" /\ Destination[channel[n][i + 1]] = n
          /\ \A j \in 1 .. Len(channel[n]) :
               i + 1 # j => channel[n][i + 1] # channel[n][j]
      BY <3>2 DEF IInv, ChannelInv
    <3>5. \A j \in 1 .. Len(channel'[k]) : i # j => channel'[k][i] # channel'[k][j]
      BY <3>2, <3>4
    <3> QED
      BY <1>1, <2>2, <3>2, <3>3, <3>4, <3>5 DEF IInv, TypeOK
  <2>3. CASE k # n
    <3>1. channel'[k] = channel[k] /\ channel[k] \in Seq(Message)
      BY <1>1, <2>3 DEF IInv, TypeOK
    <3>2. channel[k][i] \in Message /\ channel[k][i] # m
      BY <1>3, <2>3, <3>1 DEF IInv, ChannelInv
    <3> QED
      BY <1>1, <3>1, <3>2 DEF IInv, TypeOK, ChannelInv
  <2> QED
    BY <2>2, <2>3
<1>9. DropHasRival'
  BY <1>1, <1>3 DEF IInv, TypeOK, DropHasRival
<1> QED
  BY <1>5, <1>6, <1>7, <1>8, <1>9 DEF IInv

LEMMA OfferInv ==
  ASSUME LoopsAssumption, IInv, NEW m \in Message, Offer(m)
  PROVE  IInv'
<1> DEFINE n == Destination[m]
<1>1. n \in Node /\ place[m] = "offered" /\ UNCHANGED <<todo, arm, writing, verdict>>
  BY DEF LoopsAssumption, Offer
<1>2. channel[n] \in Seq(Message) /\ Len(channel[n]) \in Nat /\ Capacity \in Nat \ {0}
  BY <1>1 DEF LoopsAssumption, IInv, TypeOK
<1>3. CASE /\ ~HasNoRoom(n)
           /\ channel' = [channel EXCEPT ![n] = Append(@, m)]
           /\ place' = [place EXCEPT ![m] = "channel"]
  <2>1. /\ Append(channel[n], m) \in Seq(Message)
        /\ Len(Append(channel[n], m)) = Len(channel[n]) + 1
        /\ \A i \in 1 .. Len(channel[n]) : Append(channel[n], m)[i] = channel[n][i]
        /\ Append(channel[n], m)[Len(channel[n]) + 1] = m
    BY <1>2
  <2>2. TypeOK'
    BY <1>1, <1>2, <1>3, <2>1 DEF IInv, TypeOK, HasNoRoom
  <2>3. FreshInv' /\ WritingInv'
    BY <1>1, <1>3 DEF IInv, TypeOK, FreshInv, WritingInv
  <2>4. SentInv'
    BY <1>1, <1>3 DEF LoopsAssumption, IInv, TypeOK, SentInv
  <2>5. \A k \in Node : \A i \in 1 .. Len(channel[k]) :
          channel[k][i] # m /\ channel[k][i] \in Message
    BY <1>1 DEF IInv, TypeOK, ChannelInv
  <2>6. ChannelInv'
    <3>1. SUFFICES ASSUME NEW k \in Node, NEW i \in 1 .. Len(channel'[k])
                   PROVE  /\ place'[channel'[k][i]] = "channel"
                          /\ Destination[channel'[k][i]] = k
                          /\ \A j \in 1 .. Len(channel'[k]) :
                               i # j => channel'[k][i] # channel'[k][j]
      BY DEF ChannelInv
    <3>2. CASE k = n
      <4>1. channel'[k] = Append(channel[n], m)
        BY <1>1, <1>3, <3>2 DEF IInv, TypeOK
      <4>2. \A j \in 1 .. Len(channel'[k]) :
              \/ j \in 1 .. Len(channel[n]) /\ channel'[k][j] = channel[n][j]
              \/ j = Len(channel[n]) + 1 /\ channel'[k][j] = m
        BY <1>2, <2>1, <4>1
      <4>3. place'[m] = "channel" /\ \A j \in 1 .. Len(channel[n]) :
              /\ place'[channel[n][j]] = "channel" /\ Destination[channel[n][j]] = n
              /\ channel[n][j] # m
        <5>1. place'[m] = "channel" /\ \A k2 \in Message \ {m} : place'[k2] = place[k2]
          BY <1>3 DEF IInv, TypeOK
        <5>2. \A j \in 1 .. Len(channel[n]) :
                /\ place[channel[n][j]] = "channel" /\ Destination[channel[n][j]] = n
                /\ channel[n][j] \in Message \ {m}
          BY <1>1, <2>5 DEF IInv, ChannelInv
        <5> QED
          BY <5>1, <5>2
      <4>4. \A j \in 1 .. Len(channel'[k]) : i # j => channel'[k][i] # channel'[k][j]
        BY <1>1, <4>2, <4>3 DEF IInv, ChannelInv
      <4> QED
        BY <3>2, <4>2, <4>3, <4>4
    <3>3. CASE k # n
      <4>1. channel'[k] = channel[k]
        BY <1>3, <3>3 DEF IInv, TypeOK
      <4>2. /\ channel[k][i] \in Message \ {m}
            /\ place[channel[k][i]] = "channel" /\ Destination[channel[k][i]] = k
            /\ \A j \in 1 .. Len(channel[k]) : i # j => channel[k][i] # channel[k][j]
        BY <2>5, <4>1 DEF IInv, ChannelInv
      <4>3. place'[channel[k][i]] = place[channel[k][i]]
        BY <1>3, <4>2 DEF IInv, TypeOK
      <4> QED
        BY <4>1, <4>2, <4>3
    <3> QED
      BY <3>2, <3>3
  <2>7. DropHasRival'
    BY <1>1, <1>3 DEF IInv, TypeOK, DropHasRival
  <2> QED
    BY <2>2, <2>3, <2>4, <2>6, <2>7 DEF IInv
<1>4. CASE /\ HasNoRoom(n) /\ UNCHANGED channel
           /\ place' = [place EXCEPT ![m] = "dropped"]
  <2>1. TypeOK' /\ FreshInv' /\ WritingInv'
    BY <1>1, <1>4 DEF IInv, TypeOK, FreshInv, WritingInv
  <2>2. SentInv'
    BY <1>1, <1>4 DEF LoopsAssumption, IInv, TypeOK, SentInv
  <2>3. ChannelInv'
    BY <1>1, <1>4 DEF IInv, TypeOK, ChannelInv
  <2>4. 1 \in 1 .. Len(channel[n])
    BY <1>2, <1>4 DEF HasNoRoom
  <2>5. /\ channel[n][1] \in Message \ {m} /\ place[channel[n][1]] = "channel"
        /\ Destination[channel[n][1]] = n
    BY <1>1, <1>2, <2>4 DEF IInv, ChannelInv
  <2>6. DropHasRival'
    BY <1>1, <1>4, <2>5 DEF IInv, TypeOK, DropHasRival
  <2> QED
    BY <2>1, <2>2, <2>3, <2>6 DEF IInv
<1> QED
  BY <1>3, <1>4 DEF Offer

LEMMA HandleIncomingInv ==
  ASSUME LoopsAssumption, IInv, NEW m \in Message, HandleIncoming(m)
  PROVE  IInv'
<1>1. /\ place[m] = "task" /\ UNCHANGED <<todo, arm, writing, verdict, channel>>
      /\ place' = [place EXCEPT ![m] = IF verdict[m] = "ok" THEN "read" ELSE "unread"]
  BY DEF HandleIncoming
<1>2. TypeOK' /\ FreshInv' /\ WritingInv'
  BY <1>1 DEF IInv, TypeOK, FreshInv, WritingInv
<1>3. SentInv'
  BY <1>1 DEF LoopsAssumption, IInv, TypeOK, SentInv
<1>4. ChannelInv'
  BY <1>1 DEF IInv, TypeOK, ChannelInv
<1>5. DropHasRival'
  BY <1>1 DEF IInv, TypeOK, DropHasRival
<1> QED
  BY <1>2, <1>3, <1>4, <1>5 DEF IInv

LEMMA StutterInv ==
  ASSUME IInv, UNCHANGED vars
  PROVE  IInv'
<1>1. TypeOK' /\ FreshInv' /\ WritingInv'
  BY DEF IInv, vars, TypeOK, FreshInv, WritingInv
<1>2. SentInv' /\ ChannelInv' /\ DropHasRival'
  BY DEF IInv, vars, SentInv, ChannelInv, DropHasRival
<1> QED
  BY <1>1, <1>2 DEF IInv

LEMMA Invariance == Spec => []IInv
<1>1. Init => IInv
  BY LoopsAssumption, InitInv
<1>2. IInv /\ [Next]_vars => IInv'
  BY LoopsAssumption, TakeArmInv, OpenStreamInv, SettleInv, AcceptStreamInv,
     OfferInv, HandleIncomingInv, StutterInv
     DEF Next, LoopStep, TaskStep
<1> QED
  BY <1>1, <1>2, PTL DEF Spec

-----------------------------------------------------------------------------
(* The theorems.                                                           *)

\* The channels never hold more than their capacity, and every record of a
\* message stays what it can be.
THEOREM TypeCorrect == Spec => []TypeOK
<1>1. IInv => TypeOK
  BY DEF IInv
<1> QED
  BY <1>1, Invariance, PTL

\* A message larger than the window is never lost without its sender being told,
\* and the stream of a message is dropped only while another waits for, or after
\* it came before, the same loop.
THEOREM LossesHaveCauses == Spec => []LossHasCause
<1>1. IInv => SilentLossIsSmall
  BY DEF IInv, SentInv, SilentLossIsSmall
<1>2. IInv => LossHasCause
  BY <1>1 DEF IInv, LossHasCause
<1> QED
  BY <1>2, Invariance, PTL

\* What one step of the nodes does to a set of loops that wait for each other.
LEMMA CaughtStep ==
  ASSUME LoopsAssumption, IInv, NEW n \in Node, Caught(n), [Next]_vars,
         ~\E k \in Node : StreamBreaks(k)
  PROVE  Caught(n)'
<1>1. PICK C \in SUBSET Node :
        n \in C /\ \A i \in C : \E j \in C : WaitsOn(i, j)
  BY DEF Caught
<1>2. \A i \in C : /\ i \in Node /\ writing[i] \in Large /\ writing[i] # NoMessage
                   /\ place[writing[i]] = "channel" /\ Destination[writing[i]] \in C
                   /\ writing[i] \in Message
  BY <1>1 DEF WaitsOn, LoopsAssumption
<1>3. SUFFICES \A i \in C : /\ writing'[i] = writing[i]
                            /\ place'[writing[i]] = "channel"
  <2>1. \A i, j \in C : WaitsOn(i, j) => WaitsOn(i, j)'
    BY <1>3 DEF WaitsOn
  <2> QED
    BY <1>1, <2>1 DEF Caught
<1>4. CASE UNCHANGED vars
  BY <1>2, <1>4 DEF vars
<1>5. CASE \E k \in Node : TakeArm(k)
  BY <1>2, <1>5 DEF TakeArm
<1>6. CASE \E k \in Node : OpenStream(k)
  <2>1. PICK k \in Node : OpenStream(k)
    BY <1>6
  <2>2. k \notin C
    BY <1>2, <2>1 DEF OpenStream
  <2>3. PICK m \in arm[k] :
          /\ writing' = writing \/ writing' = [writing EXCEPT ![k] = m]
          /\ place' = place \/ place' = [place EXCEPT ![m] = "offered"]
    BY <2>1 DEF OpenStream
  <2>4. place[m] = "none" /\ m \in Message
    BY DEF IInv, TypeOK, FreshInv
  <2> QED
    BY <1>2, <2>2, <2>3, <2>4 DEF IInv, TypeOK
<1>7. CASE \E k \in Node : WriteEnds(k) \/ WriteRefused(k)
  <2>1. PICK k \in Node : WriteEnds(k) \/ WriteRefused(k)
    BY <1>7
  <2>2. k \notin C
    BY <1>2, <2>1 DEF WriteEnds, WriteRefused, Taken
  <2> QED
    BY <1>2, <2>1, <2>2 DEF WriteEnds, WriteRefused, Settle, IInv, TypeOK
<1>8. CASE \E k \in Node : AcceptStream(k)
  <2>1. PICK k \in Node : AcceptStream(k)
    BY <1>8
  <2>2. k \notin C
    BY <1>2, <2>1 DEF AcceptStream, Busy
  <2>3. Head(channel[k]) \in Message /\ Destination[Head(channel[k])] = k
    <3>1. channel[k] \in Seq(Message) /\ channel[k] # <<>>
      BY <2>1 DEF AcceptStream, IInv, TypeOK
    <3>2. 1 \in 1 .. Len(channel[k]) /\ Head(channel[k]) = channel[k][1]
      BY <3>1
    <3> QED
      BY <3>1, <3>2 DEF IInv, ChannelInv
  <2> QED
    BY <1>2, <2>1, <2>2, <2>3 DEF AcceptStream, IInv, TypeOK
<1>9. CASE \E m \in Message : TaskStep(m)
  <2>1. PICK m \in Message : Offer(m) \/ HandleIncoming(m)
    BY <1>9 DEF TaskStep
  <2>2. place[m] # "channel" /\ UNCHANGED writing
    BY <2>1 DEF Offer, HandleIncoming
  <2>3. \A k \in Message \ {m} : place'[k] = place[k]
    BY <2>1 DEF Offer, HandleIncoming, IInv, TypeOK
  <2> QED
    BY <1>2, <2>2, <2>3
<1> QED
  BY <1>4, <1>5, <1>6, <1>7, <1>8, <1>9 DEF Next, LoopStep

\* Loops that are caught stay so, in rings of any length: no step of any node,
\* task or channel frees one of them, only a stream that breaks.
THEOREM CaughtStaysCaught == Spec => CaughtForGood
<1> DEFINE Step == \A n \in Node : Caught(n) => Caught(n)' \/ \E k \in Node : StreamBreaks(k)
<1>1. IInv /\ [Next]_vars => [Step]_vars
  BY LoopsAssumption, CaughtStep
<1> QED
  BY <1>1, Invariance, PTL DEF Spec, CaughtForGood
=============================================================================
