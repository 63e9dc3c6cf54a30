------------------------------ MODULE LazyProxy ------------------------------
(***************************************************************************)
(* The bridge's lazyProxy (internal/bridge/proxy.go): concurrent tool      *)
(* calls share one connection to the .app server, launch the server on     *)
(* first use and reset and retry once when the connection is lost.         *)
(* ensureBackend and resetConnection hold p.mu; callTool reads p.client    *)
(* without it.  The server and the MCP client library are external.        *)
(***************************************************************************)
EXTENDS Integers, FiniteSets

CONSTANTS
  Calls,      \* the tool calls the MCP client makes (bounds the model)
  NoCall,     \* p.mu is free
  MaxFaults   \* how many failures the environment may inject (bound)

ASSUME LazyProxyAssumption == NoCall \notin Calls /\ MaxFaults \in Nat

\* Connections are numbered in the order they are dialled; 0 is a nil client.
Nil == 0

VARIABLES
  lock,      \* who holds p.mu
  connected, \* p.connected
  client,    \* p.client and p.conn, which are set and cleared together
  dialled,   \* how many connections were dialled
  open,      \* connections on which both ends are still up
  process,   \* the bridge process: "running", "panicked" or "exited"
  pc,        \* what each call does next
  attempt,   \* 1, or 2 after the one retry
  used,      \* used[k][a]: the connection attempt a of call k was sent on
  held,      \* the connection a launching call is shaking hands on
  result,    \* what the call returned
  server,    \* behind the socket path: "none", "live" or "mute"
  inbox,     \* requests delivered to a server and not yet executed
  execs,     \* executions of each call's tool by a server
  launches,  \* runs of the launcher
  faults     \* failures injected so far

proxyVars == <<lock, connected, client>>
callVars  == <<pc, attempt, used, held, result>>
envVars   == <<server, inbox, execs, launches, faults>>
vars == <<proxyVars, dialled, open, process, callVars, envVars>>

Steps == {"idle", "ensure", "dialing", "reusing", "launching", "waiting",
          "shaking", "calling", "pending", "resetting", "giveUp", "returned"}

TypeOK ==
  /\ lock \in Calls \cup {NoCall}
  /\ connected \in BOOLEAN
  /\ dialled \in Nat
  /\ client \in 0..dialled
  /\ open \subseteq 1..dialled
  /\ process \in {"running", "panicked", "exited"}
  /\ pc \in [Calls -> Steps]
  /\ attempt \in [Calls -> {1, 2}]
  /\ used \in [Calls -> [{1, 2} -> 0..dialled]]
  /\ held \in [Calls -> 0..dialled]
  /\ result \in [Calls -> {"none", "ok", "failed"}]
  /\ server \in {"none", "live", "mute"}
  /\ inbox \subseteq Calls \X {1, 2}
  /\ execs \in [Calls -> 0..2]
  /\ launches \in Nat
  /\ faults \in 0..MaxFaults

Init ==
  /\ lock = NoCall
  /\ connected = FALSE
  /\ client = Nil
  /\ dialled = 0
  /\ open = {}
  /\ process = "running"
  /\ pc = [k \in Calls |-> "idle"]
  /\ attempt = [k \in Calls |-> 1]
  /\ used = [k \in Calls |-> [a \in {1, 2} |-> Nil]]
  /\ held = [k \in Calls |-> Nil]
  /\ result = [k \in Calls |-> "none"]
  /\ server \in {"none", "live", "mute"}
  /\ inbox = {}
  /\ execs = [k \in Calls |-> 0]
  /\ launches = 0
  /\ faults = 0

-----------------------------------------------------------------------------
At(k, step) == process = "running" /\ pc[k] = step
Go(k, step) == pc' = [pc EXCEPT ![k] = step]
Return(k, r) == Go(k, "returned") /\ result' = [result EXCEPT ![k] = r]
Unlock == lock' = NoCall
Fault == faults < MaxFaults /\ faults' = faults + 1

Begin(k) ==
  /\ At(k, "idle")
  /\ Go(k, "ensure")
  /\ UNCHANGED <<proxyVars, dialled, open, process, attempt, used, held, result, envVars>>

-----------------------------------------------------------------------------
(* ensureBackend, launchBackend and handshake, all under p.mu.              *)

\* Already connected: lock, look and unlock.
EnsureConnected(k) ==
  /\ At(k, "ensure")
  /\ lock = NoCall
  /\ connected
  /\ Go(k, "calling")
  /\ UNCHANGED <<proxyVars, dialled, open, process, attempt, used, held, result, envVars>>

\* Mutant: p.connected is looked at without p.mu.
EnsureLaunchUnlocked(k) ==
  /\ At(k, "ensure")
  /\ ~connected
  /\ lock' = k
  /\ Go(k, "dialing")
  /\ UNCHANGED <<connected, client, dialled, open, process, attempt, used, held,
                 result, envVars>>

EnsureLaunch(k) ==
  /\ At(k, "ensure")
  /\ lock = NoCall
  /\ ~connected
  /\ lock' = k
  /\ Go(k, "dialing")
  /\ UNCHANGED <<connected, client, dialled, open, process, attempt, used, held,
                 result, envVars>>

\* A dial succeeds when a process accepts on the socket, responsive or not.
Connect(k, next) ==
  /\ server # "none"
  /\ dialled' = dialled + 1
  /\ open' = open \cup {dialled'}
  /\ held' = [held EXCEPT ![k] = dialled']
  /\ Go(k, next)

DialExisting(k) ==
  /\ At(k, "dialing")
  /\ Connect(k, "reusing")
  /\ UNCHANGED <<proxyVars, process, attempt, used, result, envVars>>

DialNobody(k) ==
  /\ At(k, "dialing")
  /\ server = "none"
  /\ Go(k, "launching")
  /\ UNCHANGED <<proxyVars, dialled, open, process, attempt, used, held, result, envVars>>

\* The handshake succeeded: p.conn, p.client and p.connected are set before
\* p.mu is released.
Publish(k) ==
  /\ client' = held[k]
  /\ connected' = TRUE
  /\ Unlock
  /\ Go(k, "calling")

HandshakeOk(k) ==
  /\ At(k, "reusing") \/ At(k, "shaking")
  /\ server = "live" /\ held[k] \in open
  /\ Publish(k)
  /\ UNCHANGED <<dialled, open, process, attempt, used, held, result, envVars>>

\* The peer is dead, mute, or slower than the handshake timeout (a fault).
HandshakeFails(k) ==
  \/ (server # "live" \/ held[k] \notin open) /\ UNCHANGED faults
  \/ Fault

\* On the socket that was found: close, remove the socket, launch afresh.
StaleSocket(k) ==
  /\ At(k, "reusing")
  /\ HandshakeFails(k)
  /\ open' = open \ {held[k]}
  /\ server' = "none"
  /\ Go(k, "launching")
  /\ UNCHANGED <<proxyVars, dialled, process, attempt, used, held, result,
                 inbox, execs, launches>>

\* The launched server comes up, or never does (a fault).
Launch(k) ==
  /\ At(k, "launching")
  /\ launches' = launches + 1
  /\ \/ server' = "live" /\ UNCHANGED faults
     \/ UNCHANGED server /\ Fault
  /\ Go(k, "waiting")
  /\ UNCHANGED <<proxyVars, dialled, open, process, attempt, used, held, result,
                 inbox, execs>>

\* Mutant: the error path returns without releasing p.mu.
AbandonLocked(k) ==
  /\ Return(k, "failed")
  /\ UNCHANGED <<proxyVars, dialled, open, process, attempt, used, held>>

Abandon(k) ==
  /\ Unlock
  /\ Return(k, "failed")
  /\ UNCHANGED <<connected, client, dialled, open, process, attempt, used, held>>

LaunchFails(k) ==
  /\ At(k, "launching")
  /\ Fault
  /\ Abandon(k)
  /\ UNCHANGED <<server, inbox, execs, launches>>

SocketAppears(k) ==
  /\ At(k, "waiting")
  /\ Connect(k, "shaking")
  /\ UNCHANGED <<proxyVars, process, attempt, used, result, envVars>>

WaitTimesOut(k) ==
  /\ At(k, "waiting")
  /\ server = "none"
  /\ Abandon(k)
  /\ UNCHANGED envVars

\* After a launch a failed handshake is final; its connection is not closed.
FreshHandshakeFails(k) ==
  /\ At(k, "shaking")
  /\ HandshakeFails(k)
  /\ Abandon(k)
  /\ UNCHANGED <<server, inbox, execs, launches>>

-----------------------------------------------------------------------------
(* callTool: p.client is read without p.mu.                                 *)

Deliver(k) == inbox' = inbox \cup {<<k, attempt[k]>>}

Send(k) ==
  /\ At(k, "calling")
  /\ client \in open
  /\ used' = [used EXCEPT ![k][attempt[k]] = client]
  /\ Deliver(k)
  /\ Go(k, "pending")
  /\ UNCHANGED <<proxyVars, dialled, open, process, attempt, held, result,
                 server, execs, launches, faults>>

\* A transport error: the first one resets and retries, the second is final.
ConnectionLost(k) ==
  IF attempt[k] = 1
  THEN Go(k, "resetting") /\ UNCHANGED result
  ELSE Return(k, "failed")

SendOnDead(k) ==
  /\ At(k, "calling")
  /\ client # Nil /\ client \notin open
  /\ used' = [used EXCEPT ![k][attempt[k]] = client]
  /\ ConnectionLost(k)
  /\ UNCHANGED <<proxyVars, dialled, open, process, attempt, held, envVars>>

\* Another call's reset cleared p.client after this call's ensureBackend.
SendOnNil(k) ==
  /\ At(k, "calling")
  /\ client = Nil
  /\ process' = "panicked"
  /\ UNCHANGED <<proxyVars, dialled, open, callVars, envVars>>

Lost(k) ==
  /\ At(k, "pending")
  /\ used[k][attempt[k]] \notin open
  /\ ConnectionLost(k)
  /\ UNCHANGED <<proxyVars, dialled, open, process, attempt, used, held, envVars>>

\* Nobody answers in time: a dead connection, a mute server, or a fault.
TimesOut(k) ==
  /\ At(k, "pending")
  /\ \/ (server # "live" \/ used[k][attempt[k]] \notin open) /\ UNCHANGED faults
     \/ Fault
  /\ Go(k, "giveUp")
  /\ UNCHANGED <<proxyVars, dialled, open, process, attempt, used, held, result,
                 server, inbox, execs, launches>>

\* The server executes a delivered request, even one nobody waits for any
\* more, and answers when the connection it came on is open: with a result,
\* or with an error of its own, which is final.
Execute(k, a) ==
  /\ process = "running"
  /\ <<k, a>> \in inbox
  /\ server = "live"
  /\ inbox' = inbox \ {<<k, a>>}
  /\ execs' = [execs EXCEPT ![k] = @ + 1]
  /\ IF At(k, "pending") /\ attempt[k] = a /\ used[k][a] \in open
     THEN \E r \in {"ok", "failed"} : Return(k, r)
     ELSE UNCHANGED <<pc, result>>
  /\ UNCHANGED <<proxyVars, dialled, open, process, attempt, used, held,
                 server, launches, faults>>

-----------------------------------------------------------------------------
(* resetConnection: whatever connection is current is torn down.            *)

\* Mutant: p.connected survives the reset.
TearDownStillConnected ==
  /\ lock = NoCall
  /\ open' = open \ {client}
  /\ client' = Nil
  /\ UNCHANGED connected

TearDown ==
  /\ lock = NoCall
  /\ open' = open \ {client}
  /\ client' = Nil
  /\ connected' = FALSE

\* Mutant: the retry does not reset first.
RetryWithoutReset(k) ==
  /\ At(k, "resetting")
  /\ attempt' = [attempt EXCEPT ![k] = 2]
  /\ Go(k, "ensure")
  /\ UNCHANGED <<proxyVars, dialled, open, process, used, held, result, envVars>>

ResetAndRetry(k) ==
  /\ At(k, "resetting")
  /\ TearDown
  /\ attempt' = [attempt EXCEPT ![k] = 2]
  /\ Go(k, "ensure")
  /\ UNCHANGED <<lock, dialled, process, used, held, result, envVars>>

ResetAndGiveUp(k) ==
  /\ At(k, "giveUp")
  /\ TearDown
  /\ Return(k, "failed")
  /\ UNCHANGED <<lock, dialled, process, attempt, used, held, envVars>>

\* The MCP client closed stdin: Run's deferred close, then the process exits.
Close ==
  /\ process = "running"
  /\ TearDown
  /\ process' = "exited"
  /\ UNCHANGED <<lock, dialled, callVars, envVars>>

-----------------------------------------------------------------------------
(* The environment: the server crashes or hangs, each at the cost of a fault. *)

Crash ==
  /\ process = "running"
  /\ server # "none"
  /\ Fault
  /\ server' = "none"
  /\ open' = {}
  /\ inbox' = {}
  /\ UNCHANGED <<proxyVars, dialled, process, callVars, execs, launches>>

Hang ==
  /\ process = "running"
  /\ server = "live"
  /\ Fault
  /\ server' = "mute"
  /\ UNCHANGED <<proxyVars, dialled, open, process, callVars, inbox, execs, launches>>

-----------------------------------------------------------------------------
Ensure(k) ==
  \/ EnsureConnected(k) \/ EnsureLaunch(k) \/ DialExisting(k) \/ DialNobody(k)
  \/ HandshakeOk(k) \/ StaleSocket(k) \/ Launch(k) \/ LaunchFails(k)
  \/ SocketAppears(k) \/ WaitTimesOut(k) \/ FreshHandshakeFails(k)

CallTool(k) ==
  \/ Send(k) \/ SendOnDead(k) \/ SendOnNil(k) \/ Lost(k) \/ TimesOut(k)

Reset(k) == ResetAndRetry(k) \/ ResetAndGiveUp(k)

Running(k) == Ensure(k) \/ CallTool(k) \/ Reset(k)

Ended ==
  /\ process # "running" \/ \A k \in Calls : pc[k] = "returned"
  /\ UNCHANGED vars

Next ==
  \/ \E k \in Calls : Begin(k) \/ Running(k)
  \/ \E k \in Calls, a \in {1, 2} : Execute(k, a)
  \/ Close \/ Crash \/ Hang
  \/ Ended

\* A handler that can go on does, and a live server works off its requests.
Fairness ==
  /\ \A k \in Calls : WF_vars(Running(k))
  /\ \A k \in Calls, a \in {1, 2} : WF_vars(Execute(k, a))

Spec == Init /\ [][Next]_vars /\ Fairness

-----------------------------------------------------------------------------
(* Properties.                                                              *)

\* Outside p.mu the proxy says it is connected exactly when it has a client.
ConnectedMeansClient == lock = NoCall => (connected <=> client # Nil)

\* However calls, resets and launches interleave, only a failure makes the
\* proxy launch a server again (TestLazyProxy_ConcurrentToolCalls: "launcher
\* should be called exactly once").
LaunchedOncePerFault == launches <= faults + 1

\* The retry is never sent on the connection that was just lost, although
\* other calls reset and reconnect in between; a tool runs at most once for
\* each connection, and a result reported as a success comes from a run.
RetryElsewhere ==
  \A k \in Calls :
    /\ used[k][2] # Nil => used[k][2] > used[k][1]
    /\ execs[k] <= Cardinality({used[k][1], used[k][2]} \ {Nil})
    /\ result[k] = "ok" => execs[k] >= 1

\* A call ends: it returns, or the process does not live to see it.
EveryCallReturns ==
  \A k \in Calls : pc[k] = "ensure" ~> (pc[k] = "returned" \/ process # "running")

\* "forwards a tool call to the .app backend, launching it if needed": a call
\* that has a backend ensured has a client to send on.
EnsuredClient == process # "panicked"
=============================================================================
