--------------------------- MODULE MCEventLoops ---------------------------
(***************************************************************************)
(* Three nodes and four messages: a and b can catch each other, c can be   *)
(* caught behind a, and three streams compete for the channel of a.        *)
(***************************************************************************)
EXTENDS EventLoops, TLC

CONSTANTS a, b, c, ab, ba, ca, caSmall

FromEach == ab :> a @@ ba :> b @@ ca :> c @@ caSmall :> c
ToEach   == ab :> b @@ ba :> a @@ ca :> a @@ caSmall :> a
=============================================================================
