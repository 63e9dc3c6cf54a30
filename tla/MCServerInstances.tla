-------------------------- MODULE MCServerInstances --------------------------
(* Two bridges that may find each other's server or race to launch one.    *)
(* When launches overlap with each other and with an exit, servers that    *)
(* lost the path linger.  Nine are enough for one event: BridgesConnect    *)
(* fails when a bridge has no process to launch, and more servers add no   *)
(* state but the dead socket's first owner.                                *)
EXTENDS ServerInstances

CONSTANTS b1, b2

TwoBridges == {b1, b2}
NineServers == 1..9
=============================================================================
