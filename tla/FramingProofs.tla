---------------------------- MODULE FramingProofs ----------------------------
(***************************************************************************)
(* What Framing promises for every base of the bytes, every set of         *)
(* messages, and every window.                                             *)
(***************************************************************************)
EXTENDS Framing, SequenceTheorems, TLAPS

\* A message that its four bytes of length can announce.
Fits == Len(msg) < Limit

-----------------------------------------------------------------------------
(* The prefix.                                                             *)

\* Division by the base, as Shift does it, with its remainder.
LEMMA Division ==
  ASSUME NEW b \in Nat, b > 1, NEW n \in Nat
  PROVE  /\ n \div b \in Nat /\ n % b \in 0 .. b - 1
         /\ n = b * (n \div b) + (n % b)
  OBVIOUS

\* A number below b * c has a quotient below c.
LEMMA QuotientBelow ==
  ASSUME NEW b \in Nat, b > 1, NEW c \in Nat, NEW n \in Nat, n < b * c
  PROVE  n \div b < c
<1>1. n \div b \in Nat /\ n = b * (n \div b) + (n % b) /\ n % b \in 0 .. b - 1
  BY Division
<1> DEFINE q == n \div b
<1>2. SUFFICES ASSUME q >= c PROVE FALSE
  BY <1>1
<1>3. b * q >= b * c
  BY <1>1, <1>2
<1> QED
  BY <1>1, <1>3

\* A number below the base is its own remainder.
LEMMA SmallRemainder ==
  ASSUME NEW b \in Nat, b > 1, NEW n \in Nat, n < b
  PROVE  n % b = n
<1>1. n \div b \in Nat /\ n = b * (n \div b) + (n % b) /\ n % b \in 0 .. b - 1
  BY Division
<1>2. n \div b < 1
  BY QuotientBelow, n < b * 1
<1> QED
  BY <1>1, <1>2

\* The same for one byte of the prefix.
LEMMA ShiftOnce ==
  ASSUME FramingAssumption, NEW n \in Nat
  PROVE  Shift(n) \in Nat /\ n = Base * Shift(n) + (n % Base) /\ n % Base \in Nat
<1>1. Base \in Nat /\ Base > 1
  BY DEF FramingAssumption
<1>2. /\ n \div Base \in Nat /\ n % Base \in 0 .. Base - 1
      /\ n = Base * (n \div Base) + (n % Base)
  BY <1>1, Division
<1> QED
  BY <1>1, <1>2 DEF Shift

\* u32::from_be_bytes gives back what to_be_bytes was given, for every number
\* of 32 bits.
LEMMA PrefixRoundTrip ==
  ASSUME FramingAssumption, NEW n \in Nat, n < Limit
  PROVE  FromBeBytes(ToBeBytes(n)) = n
<1> DEFINE q1 == Shift(n)
           q2 == Shift(q1)
           q3 == Shift(q2)
<1>1. Base \in Nat /\ Base > 1
  BY DEF FramingAssumption
<1>2. q1 \in Nat /\ n = Base * q1 + (n % Base) /\ n % Base \in Nat
  BY ShiftOnce
<1>3. q2 \in Nat /\ q1 = Base * q2 + (q1 % Base) /\ q1 % Base \in Nat
  BY <1>2, ShiftOnce
<1>4. q3 \in Nat /\ q2 = Base * q3 + (q2 % Base) /\ q2 % Base \in Nat
  BY <1>3, ShiftOnce
<1>5. q3 < Base
  <2>1. q1 < Base * (Base * Base)
    <3>1. n < Base * (Base * (Base * Base))
      BY <1>1 DEF Limit
    <3>2. Base * (Base * Base) \in Nat
      BY <1>1
    <3> QED
      BY <1>1, <3>1, <3>2, QuotientBelow DEF Shift
  <2>2. q2 < Base * Base
    <3>1. Base * Base \in Nat
      BY <1>1
    <3> QED
      BY <1>1, <1>2, <2>1, <3>1, QuotientBelow DEF Shift
  <2> QED
    BY <1>1, <1>3, <2>2, QuotientBelow DEF Shift
<1>6. q3 % Base = q3
  BY <1>1, <1>4, <1>5, SmallRemainder
<1>7. FromBeBytes(ToBeBytes(n))
        = ((q3 * Base + (q2 % Base)) * Base + (q1 % Base)) * Base + (n % Base)
  BY <1>6 DEF FromBeBytes, ToBeBytes
<1>8. q3 * Base + (q2 % Base) = q2
  BY <1>1, <1>4
<1>9. q2 * Base + (q1 % Base) = q1
  BY <1>1, <1>2, <1>3
<1> QED
  BY <1>1, <1>2, <1>7, <1>8, <1>9

\* The reader learns the length of every message that fits.
LEMMA LengthRead ==
  ASSUME FramingAssumption, TypeOK
  PROVE  /\ Announced \in Nat /\ Len(msg) \in Nat \ {0} /\ FrameLen(msg) \in Nat
         /\ Fits => Announced = Len(msg)
<1>1. Base \in Nat /\ Base > 1 /\ msg \in Seq(Byte) /\ msg # <<>>
  BY DEF FramingAssumption, TypeOK
<1>2. Len(msg) \in Nat \ {0} /\ FrameLen(msg) \in Nat
  BY <1>1 DEF FrameLen, PrefixLen
<1> DEFINE c == Cut(Len(msg))
<1>3. Limit \in Nat /\ Limit > 1
  <2>1. Base * Base \in Nat /\ Base * Base > 1
    BY <1>1
  <2>2. (Base * Base) * Base \in Nat /\ (Base * Base) * Base > 1
    BY <1>1, <2>1
  <2>3. ((Base * Base) * Base) * Base \in Nat /\ ((Base * Base) * Base) * Base > 1
    BY <1>1, <2>2
  <2> QED
    BY <2>3 DEF Limit
<1>4. c \in Nat /\ c < Limit /\ (Fits => c = Len(msg))
  BY <1>2, <1>3, Division, SmallRemainder DEF Cut, Fits
<1>5. SubSeq(Frame(msg), 1, PrefixLen) = ToBeBytes(c)
  <2>1. ToBeBytes(c) \in Seq(Nat) /\ Len(ToBeBytes(c)) = 4
    <3>1. Shift(c) \in Nat /\ c % Base \in Nat
      BY <1>4, ShiftOnce
    <3>2. Shift(Shift(c)) \in Nat /\ Shift(c) % Base \in Nat
      BY <3>1, ShiftOnce
    <3>3. Shift(Shift(Shift(c))) \in Nat /\ Shift(Shift(c)) % Base \in Nat
      BY <3>2, ShiftOnce
    <3>4. Shift(Shift(Shift(c))) % Base \in Nat
      BY <3>3, ShiftOnce
    <3> HIDE DEF c
    <3> QED
      BY <3>1, <3>2, <3>3, <3>4 DEF ToBeBytes
  <2>2. msg \in Seq(Nat)
    BY <1>1 DEF Byte
  <2> HIDE DEF c
  <2>3. Frame(msg) = ToBeBytes(c) \o msg
    BY DEF Frame, Prefix, c
  <2> DEFINE b == ToBeBytes(c)
  <2>4. SubSeq(b \o msg, 1, 4) = SubSeq(b, 1, 4)
    <3>1. b \in Seq(Nat) /\ 1 \in 1 .. Len(b) /\ 4 \in 1 .. Len(b)
      BY <2>1
    <3> HIDE DEF b
    <3> QED
      BY <2>2, <3>1, SubSeqOfConcat1
  <2>5. SubSeq(b, 1, 4) = b
    <3> HIDE DEF b
    <3> QED
      BY <2>1, SubSeqFull DEF b
  <2> QED
    BY <2>3, <2>4, <2>5 DEF PrefixLen
<1>6. Announced = c
  BY <1>4, <1>5, PrefixRoundTrip DEF Announced
<1> QED
  BY <1>2, <1>4, <1>6

\* What the reader hands to serde_json is the beginning of the message.
LEMMA DataRead ==
  ASSUME FramingAssumption, TypeOK, taken >= PrefixLen
  PROVE  SubSeq(Frame(msg), PrefixLen + 1, taken) = SubSeq(msg, 1, taken - PrefixLen)
<1>1. msg \in Seq(Byte)
  BY DEF FramingAssumption, TypeOK
<1> DEFINE pre == Prefix(msg)
           S == Byte \cup {pre[i] : i \in 1 .. 4}
<1>2. pre \in Seq(S) /\ Len(pre) = 4 /\ msg \in Seq(S)
  <2>1. Len(pre) = 4 /\ pre = [i \in 1 .. 4 |-> pre[i]]
    BY DEF Prefix, ToBeBytes
  <2>2. pre \in Seq(S)
    <3> HIDE DEF pre
    <3> QED
      BY <2>1
  <2> QED
    BY <1>1, <2>1, <2>2
<1>3. taken \in Nat /\ taken <= 4 + Len(msg) /\ Len(msg) \in Nat
  BY <1>1 DEF TypeOK, FrameLen, PrefixLen
<1> HIDE DEF pre, S
<1>4. CASE taken = 4
  BY <1>4, SubSeqEmpty DEF PrefixLen
<1>5. CASE taken > 4
  <2>1. 5 \in Len(pre) + 1 .. Len(pre) + Len(msg)
    BY <1>2, <1>3, <1>5
  <2>2. taken \in Len(pre) + 1 .. Len(pre) + Len(msg)
    BY <1>2, <1>3, <1>5
  <2>3. SubSeq(pre \o msg, 5, taken) = SubSeq(msg, 5 - Len(pre), taken - Len(pre))
    <3>1. \A i, j \in Len(pre) + 1 .. Len(pre) + Len(msg) :
            SubSeq(pre \o msg, i, j) = SubSeq(msg, i - Len(pre), j - Len(pre))
      <4>1. pre \in Seq(S) /\ msg \in Seq(S)
        BY <1>2
      <4> QED
        BY <4>1, SubSeqOfConcat2, ZenonT(40)
    <3> QED
      BY <2>1, <2>2, <3>1
  <2>4. 5 - Len(pre) = 1 /\ taken - Len(pre) = taken - 4
    BY <1>2, <1>3
  <2>5. Frame(msg) = pre \o msg
    BY DEF Frame, pre
  <2>6. SubSeq(pre \o msg, 5, taken) = SubSeq(msg, 1, taken - 4)
    BY <2>3, <2>4
  <2>7. PrefixLen + 1 = 5 /\ taken - PrefixLen = taken - 4
    BY <1>3 DEF PrefixLen
  <2> QED
    BY <2>5, <2>6, <2>7
<1> QED
  BY <1>3, <1>4, <1>5 DEF PrefixLen

-----------------------------------------------------------------------------
(* The inductive invariant: how far each end has come, and what it knows.  *)

WriterInv ==
  /\ writer = "write" => sent < FrameLen(msg) /\ verdict = "none"
  /\ writer = "flush" => sent = FrameLen(msg) /\ verdict = "none"
  /\ writer \in {"close", "done"} => verdict \in {"ok", "err"}
  /\ verdict = "ok" => sent = FrameLen(msg)

ReaderInv ==
  /\ reader \in {"queued", "len"} => taken <= PrefixLen
  /\ reader = "data" => PrefixLen <= taken /\ taken <= PrefixLen + Announced
  /\ reader \in {"queued", "len", "data"} => got = NoMsg
  /\ reader \in {"close", "done"} =>
       got = Error \/ (got = msg /\ (Fits => taken = FrameLen(msg)))

IInv == TypeOK /\ WriterInv /\ ReaderInv /\ ErrorHasCause /\ VerdictHasCause

LEMMA InitInv ==
  ASSUME FramingAssumption, Init
  PROVE  IInv
<1>1. msg \in Msg /\ msg \in Seq(Byte) /\ msg # <<>>
  BY DEF FramingAssumption, Init
<1>2. Len(msg) \in Nat /\ FrameLen(msg) \in Nat /\ 0 < FrameLen(msg)
  BY <1>1 DEF FrameLen, PrefixLen
<1>3. NoMsg # Error
  BY DEF FramingAssumption
<1> QED
  <2>1. TypeOK
    <3>1. sent = 0 /\ arrived = 0 /\ taken = 0 /\ broken = FALSE
      BY DEF Init
    <3>2. broken \in BOOLEAN
      BY <3>1, Zenon
    <3>3. sent \in Nat /\ arrived \in Nat /\ taken \in Nat
      BY <3>1
    <3>4. {sent, arrived, taken} \subseteq Nat
      BY <3>3
    <3>5. taken <= arrived /\ arrived <= sent /\ sent <= FrameLen(msg)
      BY <1>2, <3>1
    <3> QED
      BY <1>1, <3>2, <3>4, <3>5 DEF Init, TypeOK
  <2>2. WriterInv /\ VerdictHasCause
    BY <1>2 DEF Init, WriterInv, VerdictHasCause
  <2>3. ReaderInv /\ ErrorHasCause
    BY <1>3 DEF Init, ReaderInv, ErrorHasCause, PrefixLen
  <2> QED
    BY <2>1, <2>2, <2>3 DEF IInv

\* A step of the writer leaves the reader where it is.
LEMMA WriteStepInv ==
  ASSUME FramingAssumption, IInv, WriteStep
  PROVE  IInv'
<1>1. /\ Announced \in Nat /\ Len(msg) \in Nat \ {0} /\ FrameLen(msg) \in Nat
      /\ NoMsg # Error /\ Limit \in Nat
  BY LengthRead DEF IInv, FramingAssumption, Limit
<1>2. ReaderInv' /\ ErrorHasCause'
  BY DEF IInv, WriteStep, WriteSome, Flush, WriteFails, CloseWriter, ReaderInv,
         readerVars, ErrorHasCause, Fits, Announced
<1>3. CASE \E k \in Pieces : WriteSome(k)
  <2>1. PICK k \in Pieces : WriteSome(k)
    BY <1>3
  <2>2. k \in Nat /\ sent + k <= WriteEnd /\ WriteEnd \in Nat
        /\ WriteEnd <= FrameLen(msg)
    BY <1>1, <2>1 DEF WriteSome, WriteEnd, Pieces, FrameLen, PrefixLen
  <2> QED
    BY <1>1, <1>2, <2>1, <2>2
       DEF IInv, TypeOK, WriterInv, VerdictHasCause, WriteSome, readerVars
<1>4. CASE Flush
  BY <1>1, <1>2, <1>4
     DEF IInv, TypeOK, WriterInv, VerdictHasCause, Flush, readerVars
<1>5. CASE WriteFails
  <2>1. broken \/ Len(msg) >= Limit
    <3>1. SUFFICES ASSUME writer = "write", Dropped, Fits PROVE broken
      BY <1>1, <1>5 DEF WriteFails, Fits
    <3>2. got = Error \/ taken = FrameLen(msg)
      BY <3>1 DEF IInv, ReaderInv, Dropped
    <3>3. sent < FrameLen(msg) /\ taken <= sent
      BY <1>1, <3>1 DEF IInv, WriterInv, TypeOK
    <3>4. taken # FrameLen(msg)
      BY <1>1, <3>3 DEF IInv, TypeOK
    <3> QED
      BY <1>1, <3>1, <3>2, <3>4 DEF IInv, ErrorHasCause, Fits
  <2> QED
    BY <1>1, <1>2, <1>5, <2>1
       DEF IInv, TypeOK, WriterInv, VerdictHasCause, WriteFails, readerVars
<1>6. CASE CloseWriter
  BY <1>1, <1>2, <1>6
     DEF IInv, TypeOK, WriterInv, VerdictHasCause, CloseWriter, readerVars
<1> QED
  BY <1>3, <1>4, <1>5, <1>6 DEF WriteStep

\* The stream only moves bytes, and breaks.
LEMMA StreamStepInv ==
  ASSUME FramingAssumption, IInv, StreamStep \/ Break
  PROVE  IInv'
<1>1. Len(msg) \in Nat \ {0} /\ FrameLen(msg) \in Nat
  BY LengthRead DEF IInv
<1>2. WriterInv' /\ ReaderInv' /\ ErrorHasCause' /\ VerdictHasCause'
  BY DEF IInv, StreamStep, Deliver, Break, WriterInv, ReaderInv, ErrorHasCause,
         VerdictHasCause, readerVars, writerVars, Fits, Announced
<1>3. TypeOK'
  <2>1. CASE \E k \in Pieces : Deliver(k)
    <3>1. PICK k \in Pieces : Deliver(k)
      BY <2>1
    <3>2. k \in Nat
      BY <1>1 DEF Pieces
    <3> QED
      BY <1>1, <3>1, <3>2 DEF IInv, TypeOK, Deliver, readerVars, writerVars
  <2>2. CASE Break
    BY <1>1, <2>2 DEF IInv, TypeOK, Break, readerVars, writerVars
  <2> QED
    BY <2>1, <2>2 DEF StreamStep
<1> QED
  BY <1>2, <1>3 DEF IInv

\* The parsed message: all of it, or nothing.
LEMMA ParsedWhole ==
  ASSUME FramingAssumption, IInv, MessageRead
  PROVE  \/ got' = msg /\ (Fits => taken = FrameLen(msg))
         \/ got' = Error /\ ~Fits
<1> DEFINE n == taken - PrefixLen
           data == SubSeq(msg, 1, n)
<1>1. /\ Announced \in Nat /\ Len(msg) \in Nat
      /\ Fits => Announced = Len(msg)
  BY LengthRead DEF IInv
<1>2. /\ taken = PrefixLen + Announced /\ taken \in Nat
      /\ taken <= PrefixLen + Len(msg)
  <2>1. taken = ReadEnd /\ reader = "data"
    BY DEF MessageRead
  <2>2. ReadEnd = PrefixLen + Announced
    BY <2>1 DEF ReadEnd
  <2>3. taken \in Nat /\ taken <= FrameLen(msg)
    BY <1>1 DEF IInv, TypeOK, FrameLen, PrefixLen
  <2> QED
    BY <2>1, <2>2, <2>3 DEF FrameLen
<1>3. n \in Nat /\ n <= Len(msg) /\ n = Announced
  BY <1>1, <1>2 DEF PrefixLen
<1>4. got' = FromSlice(data)
  <2>1. taken >= PrefixLen
    BY <1>1, <1>2 DEF PrefixLen
  <2>2. SubSeq(Frame(msg), PrefixLen + 1, taken) = data
    BY <2>1, DataRead DEF IInv
  <2> QED
    BY <2>2 DEF MessageRead
<1>5. msg \in Seq(Byte) /\ msg \in Msg
  BY DEF FramingAssumption, IInv, TypeOK
<1>6. Len(data) = n
  BY <1>3, <1>5
<1>7. CASE n = Len(msg)
  <2>1. data = msg
    BY <1>5, <1>7, SubSeqFull
  <2>2. got' = msg
    BY <1>4, <1>5, <2>1 DEF FromSlice
  <2>3. Fits => taken = FrameLen(msg)
    BY <1>1, <1>2 DEF FrameLen
  <2> QED
    BY <2>2, <2>3
<1>8. CASE n < Len(msg)
  <2>1. ~Fits
    BY <1>1, <1>3, <1>8
  <2> HIDE DEF n
  <2>2. data \notin Msg
    <3>1. SubSeq(msg, 1, Len(data)) = data /\ Len(data) < Len(msg)
      BY <1>6, <1>8
    <3> HIDE DEF data
    <3> QED
      BY <1>5, <3>1 DEF FramingAssumption
  <2> QED
    BY <1>4, <2>1, <2>2 DEF FromSlice
<1> QED
  BY <1>1, <1>3, <1>7, <1>8

\* A step of the reader.
LEMMA ReadStepInv ==
  ASSUME FramingAssumption, IInv, ReadStep
  PROVE  IInv'
<1>1. /\ Announced \in Nat /\ Len(msg) \in Nat \ {0} /\ FrameLen(msg) \in Nat
      /\ Fits => Announced = Len(msg)
  BY LengthRead DEF IInv
<1>2. NoMsg # Error /\ NoMsg \notin Msg /\ Error \notin Msg /\ Limit \in Nat
  BY DEF FramingAssumption, Limit
<1>3. WriterInv' /\ VerdictHasCause' /\ UNCHANGED <<msg, broken, sent, arrived>>
  BY DEF IInv, ReadStep, Accept, ReadSome, PrefixRead, MessageRead, ReadFails,
         CloseReader, WriterInv, writerVars, VerdictHasCause
<1>4. Announced' = Announced /\ Fits' = Fits
  BY <1>3 DEF Announced, Fits
<1>5. CASE Accept \/ PrefixRead \/ CloseReader
  <2>1. TypeOK' /\ ErrorHasCause'
    BY <1>5 DEF IInv, TypeOK, Accept, PrefixRead, CloseReader, ErrorHasCause, writerVars
  <2>2. ReaderInv'
    BY <1>1, <1>4, <1>5
       DEF IInv, TypeOK, Accept, PrefixRead, CloseReader, ReaderInv, ReadEnd, PrefixLen
  <2> QED
    BY <1>3, <2>1, <2>2 DEF IInv
<1>6. CASE \E k \in Pieces : ReadSome(k)
  <2>1. PICK k \in Pieces : ReadSome(k)
    BY <1>6
  <2>2. k \in Nat
    BY <1>1 DEF Pieces
  <2>3. TypeOK' /\ ErrorHasCause'
    BY <2>1, <2>2 DEF IInv, TypeOK, ReadSome, ErrorHasCause, writerVars
  <2>4. ReaderInv'
    BY <1>1, <1>4, <2>1, <2>2
       DEF IInv, TypeOK, ReadSome, ReaderInv, ReadEnd, PrefixLen
  <2> QED
    BY <1>3, <2>3, <2>4 DEF IInv
<1>7. CASE MessageRead
  <2>1. \/ got' = msg /\ (Fits => taken = FrameLen(msg))
        \/ got' = Error /\ ~Fits
    BY <1>7, ParsedWhole
  <2>2. TypeOK'
    BY <1>7, <2>1 DEF IInv, TypeOK, MessageRead, writerVars
  <2>3. ErrorHasCause'
    BY <1>2, <1>3, <1>1, <2>1 DEF IInv, TypeOK, ErrorHasCause, Fits
  <2>4. ReaderInv'
    BY <1>3, <1>4, <1>7, <2>1 DEF ReaderInv, MessageRead
  <2> QED
    BY <1>3, <2>2, <2>3, <2>4 DEF IInv
<1>8. CASE ReadFails
  <2>1. broken \/ Len(msg) >= Limit
    <3>1. SUFFICES ASSUME ~broken, Fits PROVE FALSE
      BY <1>1, <1>2 DEF Fits
    <3>2. writer = "done" /\ taken = sent
      BY <1>8, <3>1 DEF ReadFails
    <3>3. verdict # "err"
      BY <1>1, <1>2, <3>1 DEF IInv, VerdictHasCause, Fits
    <3>4. taken = FrameLen(msg)
      BY <3>2, <3>3 DEF IInv, WriterInv
    <3>5. ReadEnd <= FrameLen(msg) /\ ReadEnd \in Nat
      BY <1>1, <3>1 DEF ReadEnd, FrameLen, PrefixLen
    <3> QED
      BY <1>1, <1>8, <3>4, <3>5 DEF ReadFails
  <2>2. TypeOK'
    BY <1>8 DEF IInv, TypeOK, ReadFails, writerVars
  <2>3. ErrorHasCause'
    BY <1>3, <2>1 DEF ErrorHasCause
  <2>4. ReaderInv'
    BY <1>8 DEF ReaderInv, ReadFails
  <2> QED
    BY <1>3, <2>2, <2>3, <2>4 DEF IInv
<1> QED
  BY <1>5, <1>6, <1>7, <1>8 DEF ReadStep

LEMMA StutterInv ==
  ASSUME IInv, UNCHANGED vars
  PROVE  IInv'
BY DEF IInv, vars, writerVars, readerVars, TypeOK, WriterInv, ReaderInv,
       ErrorHasCause, VerdictHasCause, Fits, Announced, FrameLen

LEMMA Invariance == Spec => []IInv
<1>1. Init => IInv
  BY FramingAssumption, InitInv
<1>2. IInv /\ [Next]_vars => IInv'
  BY FramingAssumption, WriteStepInv, StreamStepInv, ReadStepInv, StutterInv DEF Next
<1> QED
  BY <1>1, <1>2, PTL DEF Spec

-----------------------------------------------------------------------------
(* The theorems.                                                           *)

\* The counts of a transfer never run past each other, nor past the frame.
THEOREM TypeCorrect == Spec => []TypeOK
<1>1. IInv => TypeOK
  BY DEF IInv
<1> QED
  BY <1>1, Invariance, PTL

\* Whatever the length of a message and wherever its frame is cut,
\* recv_message returns what send_message was given or an error.
THEOREM NeverAnother == Spec => []ReadsWhatWasWritten
<1>1. IInv => ReadsWhatWasWritten
  BY FramingAssumption
     DEF FramingAssumption, IInv, TypeOK, ReaderInv, ReadsWhatWasWritten
<1> QED
  BY <1>1, Invariance, PTL

\* recv_message and send_message fail only on a broken stream or a length cut to
\* 32 bits.
THEOREM ErrorsAreCaused == Spec => []ErrorsHaveCauses
<1>1. IInv => ErrorsHaveCauses
  BY DEF IInv, ErrorsHaveCauses
<1> QED
  BY <1>1, Invariance, PTL
=============================================================================
