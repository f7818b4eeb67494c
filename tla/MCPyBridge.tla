---------------------------- MODULE MCPyBridge ----------------------------
(* A small instance of PyBridge for TLC: two threads share an engine that asks *)
(* an oracle and one that does not.                                          *)
EXTENDS PyBridge

CONSTANTS asking, plain

Engines == {asking, plain}
OneAsks == {asking}
=============================================================================
