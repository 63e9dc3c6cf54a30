--------------------------- MODULE ServerInstances ---------------------------
(***************************************************************************)
(* The well-known socket that bridges and .app servers share: how a bridge *)
(* finds or launches a server (internal/bridge), how a server takes the    *)
(* socket over, quits in favour of a live one, and gives it up (onReady    *)
(* and runMCPServer in main.go).  Bridges and servers are processes; the   *)
(* file system and `open -n` are external.                                 *)
(***************************************************************************)
EXTENDS Integers

CONSTANTS
  Bridges,    \* the bridge processes
  Servers,    \* the server processes that run at a time (bounds the model)
  NoServer,   \* nothing is bound to the socket path
  MaxEvents   \* crashes, slow answers, idle exits and user launches (bound)

ASSUME ServerInstancesAssumption ==
  /\ NoServer \notin Servers
  /\ MaxEvents \in Nat

VARIABLES
  path,     \* the server whose socket is bound to SocketPath, dead or alive
  instance, \* where each server process is
  bridge,   \* where each bridge is
  conn,     \* the server at the other end of a bridge's connection
  leaked,   \* servers at the other end of connections a bridge forgot to close
  clamped,  \* servers whose last counted connection ended: the 0 that this stores may
            \* overwrite the count of an open
  raced,    \* history: launches or exits overlapped, or a live server was too slow
  events    \* events so far

instanceVars == <<path, instance, bridge, conn, leaked, clamped, raced, events>>

InstancesTypeOK ==
  /\ path \in Servers \cup {NoServer}
  /\ instance \in [Servers -> {"off", "dial", "remove", "listen", "serving",
                               "expiring", "closing"}]
  /\ bridge \in [Bridges -> {"idle", "shaking", "remove", "launch", "waiting", "fresh",
                             "connected", "left"}]
  /\ conn \in [Bridges -> Servers \cup {NoServer}]
  /\ leaked \in [Bridges -> SUBSET Servers]
  /\ \A b \in Bridges : conn[b] \in Servers <=> bridge[b] \in {"shaking", "fresh", "connected"}
  /\ clamped \in SUBSET Servers
  /\ raced \in BOOLEAN
  /\ events \in 0..MaxEvents

\* An earlier server may have crashed and left its socket.
InstancesInit ==
  /\ path \in Servers \cup {NoServer}
  /\ instance = [s \in Servers |-> "off"]
  /\ bridge = [b \in Bridges |-> "idle"]
  /\ conn = [b \in Bridges |-> NoServer]
  /\ leaked = [b \in Bridges |-> {}]
  /\ clamped = {}
  /\ raced = FALSE
  /\ events = 0

-----------------------------------------------------------------------------
Event == events < MaxEvents /\ events' = events + 1

\* A server whose idle callback is about to stop it still listens and answers.
Live(s) == s \in Servers /\ instance[s] \in {"serving", "expiring"}
Reachable == Live(path)

Starting == {s \in Servers : instance[s] \in {"dial", "remove", "listen"}}
Closing == {s \in Servers : instance[s] \in {"expiring", "closing"}}
Busy == {b \in Bridges : bridge[b] \in {"shaking", "remove", "launch", "waiting", "fresh"}}

\* A launch or an exit begins, maybe while another one is under way.
Begins == raced' = (raced \/ Starting # {} \/ Closing # {} \/ Busy # {})

BridgeGoes(b, from, to) == bridge[b] = from /\ bridge' = [bridge EXCEPT ![b] = to]
ServerGoes(s, from, to) == instance[s] = from /\ instance' = [instance EXCEPT ![s] = to]
Connects(b) == conn' = [conn EXCEPT ![b] = path]
Disconnects(b) == conn' = [conn EXCEPT ![b] = NoServer]

\* Connections to these end: where nobody else is counted, zero is stored.
Ends(b, others) ==
  clamped' = clamped \cup
    {s \in others : Live(s) /\ \A c \in Bridges \ {b} : bridge[c] = "connected" => conn[c] # s}

\* `open -n`: a new process, of which neither a socket nor a connection exists.
\* One such is like another.
Unused == {s \in Servers : /\ instance[s] = "off" /\ path # s
                           /\ \A b \in Bridges : conn[b] # s /\ s \notin leaked[b]}
Launched(s) ==
  /\ s \in Unused /\ s = CHOOSE t \in Unused : TRUE
  /\ ServerGoes(s, "off", "dial")

-----------------------------------------------------------------------------
(* A bridge: launchBackend, again on the next call when it fails.           *)

BridgeDials(b) ==
  /\ Begins
  /\ \/ Reachable /\ BridgeGoes(b, "idle", "shaking") /\ Connects(b)
     \/ ~Reachable /\ BridgeGoes(b, "idle", "launch") /\ UNCHANGED conn
  /\ UNCHANGED <<path, instance, leaked, clamped, events>>

BridgeShakesHands(b) ==
  /\ Live(conn[b])
  /\ \/ BridgeGoes(b, "shaking", "connected")
     \/ BridgeGoes(b, "fresh", "connected")
  /\ UNCHANGED <<path, instance, conn, leaked, clamped, raced, events>>

\* The server is gone, refuses while it stops, or misses the deadline.
Unanswered(b) ==
  \/ ~Live(conn[b]) /\ UNCHANGED <<raced, events>>
  \/ conn[b] \in Closing /\ UNCHANGED <<raced, events>>
  \/ Live(conn[b]) /\ raced' = TRUE /\ Event

BridgeFindsStale(b) ==
  /\ BridgeGoes(b, "shaking", "remove")
  /\ Unanswered(b)
  /\ Disconnects(b)
  /\ Ends(b, {conn[b]})
  /\ UNCHANGED <<path, instance, leaked>>

BridgeRemoves(b) ==
  /\ BridgeGoes(b, "remove", "launch")
  /\ path' = NoServer
  /\ UNCHANGED <<instance, conn, leaked, clamped, raced, events>>

BridgeLaunches(b) ==
  /\ BridgeGoes(b, "launch", "waiting")
  /\ \E s \in Servers : Launched(s)
  /\ UNCHANGED <<path, conn, leaked, clamped, raced, events>>

WaitConnects(b) ==
  /\ Reachable
  /\ BridgeGoes(b, "waiting", "fresh")
  /\ Connects(b)
  /\ UNCHANGED <<path, instance, leaked, clamped, raced, events>>

\* Ten seconds pass: nobody will listen, or not soon enough.
BridgeWaitsTooLong(b) ==
  /\ ~Reachable
  /\ BridgeGoes(b, "waiting", "idle")
  /\ \/ Starting = {} /\ UNCHANGED <<raced, events>>
     \/ Starting # {} /\ raced' = TRUE /\ Event
  /\ UNCHANGED <<path, instance, conn, leaked, clamped>>

\* The new connection is neither kept nor closed.
BridgeGivesUp(b) ==
  /\ BridgeGoes(b, "fresh", "idle")
  /\ Unanswered(b)
  /\ leaked' = [leaked EXCEPT ![b] = @ \cup {conn[b]}]
  /\ Disconnects(b)
  /\ UNCHANGED <<path, instance, clamped>>

\* Mutant: the dead connection is forgotten, but not closed.
BridgeLosesOpen(b) ==
  /\ ~Live(conn[b])
  /\ BridgeGoes(b, "connected", "idle")
  /\ UNCHANGED <<path, instance, conn, leaked, clamped, raced, events>>

\* A call finds the connection dead, and ensureBackend starts over.
BridgeLoses(b) ==
  /\ ~Live(conn[b])
  /\ BridgeGoes(b, "connected", "idle")
  /\ Disconnects(b)
  /\ UNCHANGED <<path, instance, leaked, clamped, raced, events>>

\* The bridge process ends, and the kernel closes what it left open.
BridgeLeaves(b) ==
  /\ BridgeGoes(b, "connected", "left")
  /\ Disconnects(b)
  /\ leaked' = [leaked EXCEPT ![b] = {}]
  /\ Ends(b, {conn[b]} \cup leaked[b])
  /\ UNCHANGED <<path, instance, raced, events>>

-----------------------------------------------------------------------------
(* A server: from launch to exit.                                           *)

\* Mutant: no look for a live instance before the socket is taken over.
ServerDialsNobody(s) ==
  /\ ServerGoes(s, "dial", "remove")
  /\ UNCHANGED <<path, bridge, conn, leaked, clamped, raced, events>>

ServerDials(s) ==
  /\ ServerGoes(s, "dial", IF Reachable THEN "off" ELSE "remove")
  /\ UNCHANGED <<path, bridge, conn, leaked, clamped, raced, events>>

\* Mutant: a stale socket is left where it is.
ServerRemovesNothing(s) ==
  /\ ServerGoes(s, "remove", "listen")
  /\ UNCHANGED <<path, bridge, conn, leaked, clamped, raced, events>>

ServerRemoves(s) ==
  /\ ServerGoes(s, "remove", "listen")
  /\ path' = NoServer
  /\ UNCHANGED <<bridge, conn, leaked, clamped, raced, events>>

\* net.Listen fails when somebody bound the path meanwhile.
ServerListens(s) ==
  /\ \/ path = NoServer /\ ServerGoes(s, "listen", "serving") /\ path' = s
     \/ path # NoServer /\ ServerGoes(s, "listen", "off") /\ UNCHANGED path
  /\ UNCHANGED <<bridge, conn, leaked, clamped, raced, events>>

\* The idle callback finds the count at zero: no bridge's connection is
\* counted yet, or a close has stored zero over the count of an open.
ServerTimesOut(s) ==
  /\ s \in clamped \/ \A b \in Bridges : bridge[b] = "connected" => conn[b] # s
  /\ Begins
  /\ Event
  /\ ServerGoes(s, "serving", "expiring")
  /\ UNCHANGED <<path, bridge, conn, leaked, clamped>>

\* InitiateShutdown and the cancelled context, whoever connected since: closing
\* a Unix listener unlinks the path, whoever is bound to it by now.
ServerCloses(s) ==
  /\ ServerGoes(s, "expiring", "closing")
  /\ path' = NoServer
  /\ clamped' = clamped \ {s}
  /\ UNCHANGED <<bridge, conn, leaked, raced, events>>

\* The deferred os.Remove.
ServerExits(s) ==
  /\ ServerGoes(s, "closing", "off")
  /\ path' = NoServer
  /\ UNCHANGED <<bridge, conn, leaked, clamped, raced, events>>

\* A crash, or Quit in the menu: no deferred call runs.
ServerCrashes(s) ==
  /\ instance[s] # "off"
  /\ Event
  /\ instance' = [instance EXCEPT ![s] = "off"]
  /\ clamped' = clamped \ {s}
  /\ UNCHANGED <<path, bridge, conn, leaked, raced>>

UserLaunches(s) ==
  /\ Begins
  /\ Event
  /\ Launched(s)
  /\ UNCHANGED <<path, bridge, conn, leaked, clamped>>

-----------------------------------------------------------------------------
BridgeSteps(b) ==
  \/ BridgeDials(b) \/ BridgeShakesHands(b) \/ BridgeFindsStale(b) \/ BridgeRemoves(b)
  \/ BridgeLaunches(b) \/ WaitConnects(b) \/ BridgeWaitsTooLong(b) \/ BridgeGivesUp(b)
  \/ BridgeLoses(b)

ServerSteps(s) ==
  \/ ServerDials(s) \/ ServerRemoves(s) \/ ServerListens(s)
  \/ ServerCloses(s) \/ ServerExits(s)

InstancesNext ==
  \/ \E b \in Bridges : BridgeSteps(b) \/ BridgeLeaves(b)
  \/ \E s \in Servers : ServerSteps(s) \/ ServerTimesOut(s) \/ ServerCrashes(s) \/ UserLaunches(s)

\* Processes run; a bridge's client goes on calling.
InstancesFairness ==
  /\ \A b \in Bridges : SF_instanceVars(BridgeSteps(b))
  /\ \A s \in Servers : WF_instanceVars(ServerSteps(s))

InstancesSpec == InstancesInit /\ [][InstancesNext]_instanceVars /\ InstancesFairness

-----------------------------------------------------------------------------
(* Properties.                                                              *)

\* "A single .app instance serves all bridges via this socket": a server that
\* serves is the one that is found at the path, so there is only one; as long
\* as launches and exits came one after the other.
ServingIsReachable == ~raced => \A s \in Servers : Live(s) => path = s

\* Whatever socket an earlier server left behind, and however launches race, a
\* bridge gets its server; and again when an idle stop takes it away.
BridgesConnect ==
  \A b \in Bridges : bridge[b] = "idle" ~> bridge[b] \in {"connected", "left"}
=============================================================================
