----------------------------- MODULE AgentServer -----------------------------
(***************************************************************************)
(* internal/agent/server.go: the protocol server, the lifecycle and the    *)
(* PID file under one Start and one Stop.  NewServer connects neither      *)
(* ConnectionOpened nor ConnectionClosed, so the lifecycle counts no       *)
(* connection: its idle timer is never paused and its watcher never waits. *)
(* The server's owner is external.                                         *)
(***************************************************************************)
EXTENDS ProtocolServer

VARIABLES
  start,     \* what Start does next
  leave,     \* what Stop does next
  pidFile,   \* the PID file is there
  lcState,   \* lifecycle.state
  once,      \* shutdownOnce and the watcher it starts; "over": shutdownDone is closed
  asked      \* a goroutine of handleShutdown sleeps

lifeVars  == <<lcState, once, asked>>
agentVars == <<vars, start, leave, pidFile, lifeVars>>

AgentTypeOK ==
  /\ TypeOK
  /\ start \in {"pid", "ready", "arm", "up", "undo", "failed"}
  /\ leave \in {"no", "initiate", "remove", "stop", "left"}
  /\ pidFile \in BOOLEAN
  /\ lcState \in {"Starting", "Ready", "ShuttingDown", "Stopped"}
  /\ once \in {"no", "polling", "closing", "over"}
  /\ asked \in BOOLEAN

\* protoServer.Start has succeeded.
AgentInit ==
  /\ Init
  /\ start = "pid" /\ leave = "no"
  /\ pidFile = FALSE
  /\ lcState = "Starting" /\ once = "no"
  /\ asked = FALSE

-----------------------------------------------------------------------------
(* Start.                                                                   *)

\* Mutant: the error is returned with the protocol server running.
WritePIDFileOnly ==
  /\ start = "pid"
  /\ \/ pidFile' = TRUE /\ start' = "ready"
     \/ start' = "failed" /\ UNCHANGED pidFile
  /\ UNCHANGED <<vars, leave, lifeVars>>

\* A write that fails may leave the file.
WritePIDFile ==
  /\ start = "pid"
  /\ \/ pidFile' = TRUE /\ start' = "ready"
     \/ pidFile' \in BOOLEAN /\ start' = "undo"
  /\ UNCHANGED <<vars, leave, lifeVars>>

StartFails ==
  /\ start = "undo" /\ stop = "returned"
  /\ start' = "failed"
  /\ UNCHANGED <<vars, leave, pidFile, lifeVars>>

SetReady ==
  /\ start = "ready"
  /\ lcState' = "Ready"
  /\ start' = "arm"
  /\ UNCHANGED <<vars, leave, pidFile, once, asked>>

\* The timer is running from here on.
StartIdleTimer ==
  /\ start = "arm"
  /\ start' = "up"
  /\ UNCHANGED <<vars, leave, pidFile, lifeVars>>

Starting == WritePIDFile \/ StartFails \/ SetReady \/ StartIdleTimer

-----------------------------------------------------------------------------
(* The lifecycle without connections.                                       *)

\* Mutant: a lifecycle that is not Ready is not shut down.
InitiateWhenReady ==
  IF once = "no" /\ lcState = "Ready"
  THEN once' = "polling" /\ lcState' = "ShuttingDown"
  ELSE UNCHANGED <<once, lcState>>

InitiateShutdown ==
  IF once = "no" THEN once' = "polling" /\ lcState' = "ShuttingDown"
  ELSE UNCHANGED <<once, lcState>>

\* The callback finds no connection, whoever is connected; once a shutdown has
\* begun it does nothing.
IdleFires ==
  /\ start = "up" /\ once = "no" /\ lcState = "Ready"
  /\ InitiateShutdown
  /\ UNCHANGED <<vars, start, leave, pidFile, asked>>

\* The goroutine wakes up after its 100 milliseconds.
ShutdownAsked ==
  /\ asked
  /\ asked' = FALSE
  /\ InitiateShutdown
  /\ UNCHANGED <<vars, start, leave, pidFile>>

WatcherStops ==
  /\ once = "polling"
  /\ lcState' = "Stopped" /\ once' = "closing"
  /\ UNCHANGED <<vars, start, leave, pidFile, asked>>

WatcherSignals ==
  /\ once = "closing"
  /\ once' = "over"
  /\ UNCHANGED <<vars, start, leave, pidFile, lcState, asked>>

Watcher == WatcherStops \/ WatcherSignals

-----------------------------------------------------------------------------
(* Stop, and the protocol server under it.                                  *)

StopAgent ==
  /\ start = "up" /\ leave = "no"
  /\ leave' = "initiate"
  /\ UNCHANGED <<vars, start, pidFile, lifeVars>>

StopInitiates ==
  /\ leave = "initiate"
  /\ leave' = "remove"
  /\ InitiateShutdown
  /\ UNCHANGED <<vars, start, pidFile, asked>>

RemovePIDFile ==
  /\ leave = "remove"
  /\ leave' = "stop"
  /\ pidFile' = FALSE
  /\ UNCHANGED <<vars, start, lifeVars>>

StopLeaves ==
  /\ leave = "stop" /\ stop = "returned"
  /\ leave' = "left"
  /\ UNCHANGED <<vars, start, pidFile, lifeVars>>

Stopping == StopInitiates \/ RemovePIDFile \/ StopLeaves

\* protoServer.Stop is called by Stop, and by a Start that fails.
ProtoStop == (leave = "stop" \/ start = "undo") /\ Stop

\* The owner's BroadcastStopping, once Start has returned.
BroadcastStopping == start = "up" /\ CastBegins

\* A request is dispatched; handleShutdown answers first.  A request for a
\* shutdown that has begun changes nothing and is left out.
Dispatch(c) ==
  /\ ReadRequest(c)
  /\ \/ UNCHANGED asked
     \/ pc'[c] = "encode" /\ once = "no" /\ asked' = TRUE
  /\ UNCHANGED <<start, leave, pidFile, lcState, once>>

Handles(c) ==
  \/ Check(c) \/ ReadFails(c) \/ Encode(c) \/ Complain(c)
  \/ CloseConn(c) \/ DeleteConn(c) \/ Uncount(c) \/ Done(c)

Serves ==
  /\ \/ Clients \/ AcceptLoop \/ ProtoStop \/ BroadcastStopping \/ Cast
     \/ \E c \in Conns : Handles(c)
  /\ UNCHANGED <<start, leave, pidFile, lifeVars>>

Left ==
  /\ leave = "left" \/ start = "failed"
  /\ UNCHANGED agentVars

AgentNext ==
  \/ Starting \/ IdleFires \/ ShutdownAsked \/ Watcher
  \/ StopAgent \/ Stopping
  \/ Serves \/ \E c \in Conns : Dispatch(c)
  \/ Left

\* Goroutines go on while they can; nobody has to call Stop or
\* BroadcastStopping, and nothing is asked of the clients.
AgentSpec ==
  /\ AgentInit /\ [][AgentNext]_agentVars
  /\ WF_agentVars(Starting) /\ WF_agentVars(Stopping)
  /\ WF_agentVars(ShutdownAsked) /\ WF_agentVars(Watcher)
  /\ WF_vars(AcceptLoop)
  /\ \A c \in Conns : WF_vars(HandleConnection(c))
  /\ WF_vars(ProtoStop)
  /\ SF_vars(Cast)

-----------------------------------------------------------------------------
(* Properties.                                                              *)

\* A server that was stopped, or that could not start, leaves no accept loop,
\* handler or connection, though clients connected meanwhile; and one that was
\* stopped leaves no PID file that would send clients to it.
LeavesNothing ==
  /\ leave = "left" \/ start = "failed" => stop = "returned" /\ ~listening
  /\ leave = "left" => ~pidFile
  /\ StoppedIsQuiet

\* A client that asks for a shutdown gets it, though the request may arrive
\* before Start has made the lifecycle ready.
ShutdownRequestEnds == asked ~> once = "over"
=============================================================================
