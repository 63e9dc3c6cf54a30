---------------------------- MODULE MCAgentServer ----------------------------
(* One connection, which may come at any point of Start and Stop, ask for a *)
(* shutdown, and stop reading while it is told of the stop.                 *)
EXTENDS AgentServer

CONSTANT c1

OneConn == {c1}
=============================================================================
