----------------------------- MODULE MCDriver ------------------------------
(* Instance of Driver for TLC: the root hub has one port and its own bit,  *)
(* one device has settings.                                                *)
EXTENDS Driver

MCPorts == {1}
=============================================================================
