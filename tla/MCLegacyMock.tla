---------------------------- MODULE MCLegacyMock ----------------------------
(***************************************************************************)
(* Two nodes, two addresses, and three messages, two of them to the same.  *)
(***************************************************************************)
EXTENDS LegacyMock, TLC

CONSTANTS n1, n2, x, y, m1, m2, m3

ToEach == m1 :> x @@ m2 :> x @@ m3 :> y
=============================================================================
