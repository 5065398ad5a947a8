------------------------------ MODULE MCPyServer ------------------------------
(* PyServer for TLC: one id, so that it is reused, and the null id; a       *)
(* generation that goes stale.  Three lines are a running call, a queued    *)
(* one and a line that aims at either.                                      *)
EXTENDS PyServer

CONSTANTS a, null, none

MCIds == {a}
MCGens == {1}
=============================================================================
