------------------------------- MODULE Framing -------------------------------
(***************************************************************************)
(* One message over one stream (protocol.rs of both crates): send_message  *)
(* on one side, as send_to_peer runs it, and recv_message on the other, as *)
(* handle_incoming runs it.                                                *)
(*                                                                         *)
(* The stream (external) keeps bytes in order, takes and delivers them in  *)
(* pieces of any size, holds the writer back when the reader is a window   *)
(* behind, and may break.  Since it neither reorders nor invents bytes, it *)
(* is told by three counts: of the bytes of the frame, those accepted from *)
(* the writer, those that have arrived and those the reader has taken.     *)
(* A stream that is dropped before its reader's loop accepts it, and loops   *)
(* that never come round to accept it, are in EventLoops.                  *)
(***************************************************************************)
EXTENDS Naturals, Sequences

CONSTANTS
  Base,       \* number of values of a byte (256)
  Msg,        \* what serde_json makes of the messages: sequences of bytes
  NoMsg,      \* no result yet
  Error,      \* the Err of recv_message
  Window      \* bytes a stream takes ahead of its reader

Byte == 0 .. Base - 1
PrefixLen == 4                       \* [u8; 4]
Limit == Base * Base * Base * Base   \* one more than u32::MAX

\* A message is a JSON object, and what is left of one that was cut short is
\* not: no message is the beginning of another.
ASSUME FramingAssumption ==
  /\ Base \in Nat /\ Base > 1 /\ Window \in Nat \ {0}
  /\ Msg \subseteq Seq(Byte) /\ <<>> \notin Msg
  /\ \A a, b \in Msg : Len(a) < Len(b) => SubSeq(b, 1, Len(a)) # a
  /\ NoMsg \notin Msg /\ Error \notin Msg /\ NoMsg # Error

\* (n as u32).to_be_bytes(): the cut to 32 bits, then a byte for each power.
Cut(n) == n % Limit
Shift(n) == n \div Base
ToBeBytes(n) == <<Shift(Shift(Shift(n))) % Base, Shift(Shift(n)) % Base,
                  Shift(n) % Base, n % Base>>
\* A reader that takes the bytes in the other order.
FromLeBytes(b) == ((b[4] * Base + b[3]) * Base + b[2]) * Base + b[1]
\* u32::from_be_bytes
FromBeBytes(b) == ((b[1] * Base + b[2]) * Base + b[3]) * Base + b[4]

Prefix(m) == ToBeBytes(Cut(Len(m)))
Frame(m) == Prefix(m) \o m
FrameLen(m) == PrefixLen + Len(m)
-----------------------------------------------------------------------------
VARIABLES
  msg,        \* the message being sent
  writer,     \* where the sender is: "write", "flush", "close", "done"
  verdict,    \* what send_message returned: "none", "ok", "err"
  sent,       \* bytes of the frame accepted by the stream
  arrived,    \* bytes that have reached the reader's side
  taken,      \* bytes the reader has read
  reader,     \* where the receiver is: "queued", "len", "data", "close", "done"
  got,        \* what recv_message returned
  broken      \* the stream has failed

writerVars == <<writer, verdict, sent>>
readerVars == <<reader, taken, got>>
vars == <<msg, writerVars, arrived, readerVars, broken>>

Init ==
  /\ msg \in Msg
  /\ writer = "write" /\ verdict = "none" /\ sent = 0 /\ arrived = 0
  /\ reader = "queued" /\ taken = 0 /\ got = NoMsg /\ broken = FALSE

\* The reader has dropped its end.
Dropped == reader = "done"
-----------------------------------------------------------------------------
(* send_message and what send_to_peer does after it.                       *)

\* A writer that ends its message with a byte of its own.
WriteEndPast == IF sent < PrefixLen THEN PrefixLen ELSE FrameLen(msg) + 1
\* The end of the write_all that is under way: the prefix, then the data.
WriteEnd == IF sent < PrefixLen THEN PrefixLen ELSE FrameLen(msg)

\* write_all: the stream accepts some of the bytes, as its window permits.
WriteSome(k) ==
  /\ writer = "write" /\ ~broken /\ ~Dropped
  /\ k > 0 /\ sent + k <= WriteEnd /\ sent + k <= taken + Window
  /\ sent' = sent + k
  /\ writer' = IF sent + k = FrameLen(msg) THEN "flush" ELSE "write"
  /\ UNCHANGED <<msg, verdict, arrived, readerVars, broken>>

\* flush: everything has been accepted, and this says nothing of its arrival.
Flush ==
  /\ writer = "flush" /\ ~broken
  /\ writer' = "close" /\ verdict' = "ok"
  /\ UNCHANGED <<msg, sent, arrived, readerVars, broken>>

\* The `?' after each await, once the stream has failed or its other end has
\* been dropped.
WriteFails ==
  /\ \/ writer \in {"write", "flush"} /\ broken
     \/ writer = "write" /\ Dropped
  /\ writer' = "close" /\ verdict' = "err"
  /\ UNCHANGED <<msg, sent, arrived, readerVars, broken>>

\* stream.close(), whatever send_message returned.
CloseWriter ==
  /\ writer = "close" /\ writer' = "done"
  /\ UNCHANGED <<msg, verdict, sent, arrived, readerVars, broken>>
-----------------------------------------------------------------------------
(* The stream.                                                             *)

Deliver(k) ==
  /\ ~broken /\ k > 0 /\ arrived + k <= sent
  /\ arrived' = arrived + k
  /\ UNCHANGED <<msg, writerVars, readerVars, broken>>

\* What has arrived can still be read.
Break ==
  /\ ~broken /\ broken' = TRUE
  /\ UNCHANGED <<msg, writerVars, arrived, readerVars>>
-----------------------------------------------------------------------------
(* recv_message, in the task that handles the stream.                      *)

\* The loop accepts the stream and spawns the task.
Accept ==
  /\ reader = "queued" /\ reader' = "len"
  /\ UNCHANGED <<msg, writerVars, arrived, taken, got, broken>>

\* The length the reader believes, and the end of the read_exact under way.
Announced == FromBeBytes(SubSeq(Frame(msg), 1, PrefixLen))
ReadEnd == IF reader = "len" THEN PrefixLen ELSE PrefixLen + Announced

\* read_exact: some of the bytes it still needs.
ReadSome(k) ==
  /\ reader \in {"len", "data"}
  /\ k > 0 /\ taken + k <= arrived /\ taken + k <= ReadEnd
  /\ taken' = taken + k
  /\ UNCHANGED <<msg, writerVars, arrived, reader, got, broken>>

\* The prefix is there: vec![0u8; len], and on to the data.
PrefixRead ==
  /\ reader = "len" /\ taken = ReadEnd
  /\ reader' = "data"
  /\ UNCHANGED <<msg, writerVars, arrived, taken, got, broken>>

\* A reader that takes whatever has come for the message.
AnyPart(data) == IF \E m \in Msg : SubSeq(m, 1, Len(data)) = data
                 THEN CHOOSE m \in Msg : SubSeq(m, 1, Len(data)) = data ELSE Error
\* serde_json::from_slice: of what is no message nothing is made.
FromSlice(data) == IF data \in Msg THEN data ELSE Error

MessageRead ==
  /\ reader = "data" /\ taken = ReadEnd
  /\ got' = FromSlice(SubSeq(Frame(msg), PrefixLen + 1, taken))
  /\ reader' = "close"
  /\ UNCHANGED <<msg, writerVars, arrived, taken, broken>>

\* The stream failed, or ended too early, with nothing left to read.
ReadFails ==
  /\ reader \in {"len", "data"} /\ taken < ReadEnd /\ taken = arrived
  /\ broken \/ (writer = "done" /\ arrived = sent)
  /\ got' = Error /\ reader' = "close"
  /\ UNCHANGED <<msg, writerVars, arrived, taken, broken>>

\* A task that ends only when it has a message to hand on.
KeptAfterError == got # Error
\* stream.close() in handle_incoming, after either outcome.
Finished == TRUE

CloseReader ==
  /\ reader = "close" /\ Finished
  /\ reader' = "done"
  /\ UNCHANGED <<msg, writerVars, arrived, taken, got, broken>>
-----------------------------------------------------------------------------
Pieces == 1 .. FrameLen(msg)

WriteStep == Flush \/ WriteFails \/ CloseWriter \/ \E k \in Pieces : WriteSome(k)
ReadStep  == Accept \/ PrefixRead \/ MessageRead \/ ReadFails \/ CloseReader
               \/ \E k \in Pieces : ReadSome(k)
StreamStep == \E k \in Pieces : Deliver(k)

Next == WriteStep \/ ReadStep \/ StreamStep \/ Break

Spec == Init /\ [][Next]_vars

\* Both ends run on their executors, a whole stream delivers what it accepted,
\* and the loop comes round to its incoming streams.  Nothing says it breaks.
FairSpec ==
  Spec /\ WF_vars(WriteStep) /\ WF_vars(ReadStep) /\ WF_vars(StreamStep)
-----------------------------------------------------------------------------
(* Properties.                                                             *)

TypeOK ==
  /\ msg \in Msg /\ writer \in {"write", "flush", "close", "done"}
  /\ verdict \in {"none", "ok", "err"} /\ broken \in BOOLEAN
  /\ reader \in {"queued", "len", "data", "close", "done"}
  /\ got \in Msg \cup {NoMsg, Error}
  /\ {sent, arrived, taken} \subseteq Nat
  /\ taken <= arrived /\ arrived <= sent /\ sent <= FrameLen(msg)

\* However the bytes are cut up, and even when the length does not fit into 32
\* bits, recv_message returns the message that was written or an error: never
\* another message, and never a part of one.
ReadsWhatWasWritten == got \in Msg => got = msg

\* The Err of either end: the stream broke or the message was too long for its
\* prefix, which makes the reader give up and the writer find its end dropped.
ErrorHasCause == got = Error => broken \/ Len(msg) >= Limit
VerdictHasCause == verdict = "err" => broken \/ Len(msg) >= Limit

\* recv_message and send_message fail for no other reason: no fragmentation,
\* window or early close costs a message.
ErrorsHaveCauses == ErrorHasCause /\ VerdictHasCause

\* Both ends come to their end: the writer is not left waiting for a window
\* nobody opens, nor the reader for bytes nobody sends.
BothEnd == <>(writer = "done" /\ reader = "done")
=============================================================================
