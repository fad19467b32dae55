----------------------------- MODULE MessageFate -----------------------------
(***************************************************************************)
(* What a network layer promises about the messages handed to it, whatever *)
(* its transport: every message is accepted once, under a fresh id, and    *)
(* settles at most once.  It is written to a stream ("sent"), reported     *)
(* with a SendFailed event ("failed"), or discarded with no report         *)
(* ("lost").  Ids are given out in increasing order, and nothing that has  *)
(* settled is ever taken up again.  A report is always about one message;  *)
(* the messages lost with it are lost in the same step.                    *)
(*                                                                         *)
(* AtOnce is for the layer to say: a layer with a queue only accepts a     *)
(* message it is given, and may lose it later with another's report.  One  *)
(* without a queue may say that it settles messages at once; as long as    *)
(* "lost" is not in its AtOnce and it accepts no two at a time, it keeps a *)
(* stricter promise and loses none.                                        *)
(***************************************************************************)
EXTENDS Naturals

CONSTANTS
  MsgId,      \* an initial segment 1 .. n of the message ids
  AtOnce      \* the fates a message may have as soon as it is taken

VARIABLE fate      \* fate[m]: what has become of message m

TypeOK == fate \in [MsgId -> {"unborn", "accepted", "sent", "failed", "lost"}]

Init == fate = [m \in MsgId |-> "unborn"]

\* The next message is taken, with one of the fates the layer allows itself.
Accept(m, f) ==
  /\ fate[m] = "unborn"
  /\ \A k \in MsgId : k < m => fate[k] # "unborn"
  /\ fate' = [fate EXCEPT ![m] = f]

Send(m) ==
  /\ fate[m] = "accepted"
  /\ fate' = [fate EXCEPT ![m] = "sent"]

Fail(m, lost) ==
  /\ fate[m] = "accepted" /\ m \notin lost
  /\ \A k \in lost : fate[k] = "accepted"
  /\ fate' = [k \in MsgId |-> IF k = m THEN "failed"
                              ELSE IF k \in lost THEN "lost" ELSE fate[k]]

Next == \E m \in MsgId :
          \/ \E f \in AtOnce : Accept(m, f)
          \/ Send(m)
          \/ \E lost \in SUBSET MsgId : Fail(m, lost)

Spec == Init /\ [][Next]_fate
=============================================================================
