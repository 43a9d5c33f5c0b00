----------------------------- MODULE MCHcLife -------------------------------
(* Instance of HcLife for TLC: the two ports of the PS2.                   *)
EXTENDS HcLife

MCPorts == {1, 2}
=============================================================================
