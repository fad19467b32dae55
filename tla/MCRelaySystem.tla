--------------------------- MODULE MCRelaySystem ---------------------------
(***************************************************************************)
(* Two clients of one relay, and a message each way, one of them too long.  *)
(***************************************************************************)
EXTENDS RelaySystem, TLC

CONSTANTS c1, c2, to2, to1

FromEach == to2 :> c1 @@ to1 :> c2
ToEach   == to2 :> c2 @@ to1 :> c1
=============================================================================
