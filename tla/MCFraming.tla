----------------------------- MODULE MCFraming -----------------------------
(***************************************************************************)
(* A small instance of Framing: bytes of one bit, so that the prefix holds *)
(* lengths below 16, and messages below, at and above that limit.          *)
(***************************************************************************)
EXTENDS Framing

Ones(n) == [i \in 1 .. n |-> 1]
\* One length a palindrome of bits, one not; one whose cut length is 0, and
\* one whose cut length is 2.
Messages == {<<0, 1, 0>>, <<0, 0, 0, 0, 1>>, Ones(16), <<0, 0, 1>> \o Ones(15)}
=============================================================================
