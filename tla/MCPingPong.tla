---------------------------- MODULE MCPingPong ----------------------------
(***************************************************************************)
(* Two servers; two pings of the native client, two connects of a browser  *)
(* to different servers, and one ping of the browser.                      *)
(***************************************************************************)
EXTENDS PingPong, TLC

CONSTANTS s, t, c1, c2, b1

Servers == c1 :> s @@ c2 :> t
=============================================================================
