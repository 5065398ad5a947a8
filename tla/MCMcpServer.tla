----------------------------- MODULE MCMcpServer -----------------------------
(* McpServer for TLC: two ids, so that a cancellation can name the wrong    *)
(* call or one that reuses an id, and a generation that goes stale when an  *)
(* id is reused.  Three lines are enough for a running call and a waiting   *)
(* one with a line that aims at either, for two calls of one id with a      *)
(* stale cancellation, and for a call the full channel rejects.             *)
EXTENDS McpServer

CONSTANTS a, b, none

MCIds == {a, b}
MCGens == {1}
=============================================================================
