------------------------------ MODULE Lifecycle ------------------------------
(***************************************************************************)
(* The agent lifecycle (internal/agent/lifecycle.go) as the socket server  *)
(* of main.go drives it.  One goroutine accepts connections, one goroutine *)
(* per connection serves it, the idle timer runs its callback on a         *)
(* goroutine of its own and a watcher waits for the drain.  state and      *)
(* connCount are two separate atomics: every load, add and store is a step *)
(* of its own, and only the idle timer is under a mutex.                   *)
(***************************************************************************)
EXTENDS Integers, FiniteSets

CONSTANTS
  Conns,         \* the connections clients make (bounds the model)
  NoConn,        \* the accept loop holds no connection
  Callbacks,     \* goroutines on which idle-timer callbacks run (bounds overlap)
  Users,         \* goroutines that call UserStop or InitiateShutdown directly
  AcceptErrors   \* TRUE: Accept may fail while the listener is still open

ASSUME LifecycleAssumption ==
  /\ IsFiniteSet(Conns)
  /\ NoConn \notin Conns
  /\ Callbacks \cap Users = {}
  /\ AcceptErrors \in BOOLEAN

VARIABLES
  state,         \* lc.state
  count,         \* lc.connCount
  armed,         \* lc.idleTimer is running
  once,          \* lc.shutdownOnce: "no", "running" or "done"
  watcher,       \* the goroutine that waits for the drain
  shutdownDone,  \* lc.shutdownDone is closed
  ctxDone,       \* the server context is cancelled
  listening,     \* the socket listener is open
  acceptor,      \* what the accept loop does next
  cur,           \* the connection the accept loop holds
  conn,          \* what each connection's goroutine does next
  caller         \* what each goroutine that may initiate shutdown does next

lcVars   == <<state, count, armed>>
stopVars == <<once, watcher, shutdownDone>>
netVars  == <<ctxDone, listening>>
vars     == <<lcVars, stopVars, netVars, acceptor, cur, conn, caller>>

Callers == Callbacks \cup Users

States == {"Starting", "Ready", "Active", "ShuttingDown", "Stopped"}
AcceptorSteps == {"starting", "arming", "accepting", "admitting", "adding",
                  "activating", "pausing", "spawning", "draining", "done"}
ConnSteps == {"idle", "queued", "accepted", "refused", "serving", "leaving",
              "zeroing", "checking", "readying", "resuming", "ended", "closed"}
CallerSteps == {"idle", "count", "state", "enter", "cancel", "watch"}

TypeOK ==
  /\ state \in States
  /\ count \in Int
  /\ armed \in BOOLEAN
  /\ once \in {"no", "running", "done"}
  /\ watcher \in {"off", "polling", "storing", "closing", "over"}
  /\ shutdownDone \in BOOLEAN
  /\ ctxDone \in BOOLEAN
  /\ listening \in BOOLEAN
  /\ acceptor \in AcceptorSteps
  /\ cur \in Conns \cup {NoConn}
  /\ conn \in [Conns -> ConnSteps]
  /\ caller \in [Callers -> CallerSteps]

Init ==
  /\ state = "Starting"
  /\ count = 0
  /\ armed = FALSE
  /\ once = "no"
  /\ watcher = "off"
  /\ shutdownDone = FALSE
  /\ ctxDone = FALSE
  /\ listening = TRUE
  /\ acceptor = "starting"
  /\ cur = NoConn
  /\ conn = [c \in Conns |-> "idle"]
  /\ caller = [k \in Callers |-> "idle"]

-----------------------------------------------------------------------------
GoAccept(next) == acceptor' = next
GoConn(c, next) == conn' = [conn EXCEPT ![c] = next]
GoCaller(k, next) == caller' = [caller EXCEPT ![k] = next]

\* A closed listener resets the clients still waiting in its backlog.
Refuse(f) == [c \in Conns |-> IF f[c] = "queued" THEN "refused" ELSE f[c]]

-----------------------------------------------------------------------------
(* The accept loop, with SetReady, StartIdleTimer and ConnectionOpened.     *)

SetReady ==
  /\ acceptor = "starting"
  /\ state' = "Ready"
  /\ GoAccept("arming")
  /\ UNCHANGED <<count, armed, stopVars, netVars, cur, conn, caller>>

StartIdleTimer ==
  /\ acceptor = "arming"
  /\ armed' = TRUE
  /\ GoAccept("accepting")
  /\ UNCHANGED <<state, count, stopVars, netVars, cur, conn, caller>>

Accept(c) ==
  /\ acceptor = "accepting"
  /\ listening
  /\ conn[c] = "queued"
  /\ cur' = c
  /\ GoConn(c, "accepted")
  /\ GoAccept("admitting")
  /\ UNCHANGED <<lcVars, stopVars, netVars, caller>>

\* Every Accept error leaves the loop, whether or not the context is done.
AcceptFails ==
  /\ acceptor = "accepting"
  /\ AcceptErrors \/ ~listening
  /\ GoAccept("draining")
  /\ UNCHANGED <<lcVars, stopVars, netVars, cur, conn, caller>>

\* Mutant: a second connection is refused.
CanAcceptOnlyReady == state = "Ready"

CanAcceptConnection == state \in {"Ready", "Active"}

Admit ==
  /\ acceptor = "admitting"
  /\ \/ /\ CanAcceptConnection
        /\ GoAccept("adding")
        /\ UNCHANGED <<cur, conn>>
     \/ /\ ~CanAcceptConnection
        /\ GoConn(cur, "refused")
        /\ cur' = NoConn
        /\ GoAccept("accepting")
  /\ UNCHANGED <<lcVars, stopVars, netVars, caller>>

OpenedAdd ==
  /\ acceptor = "adding"
  /\ count' = count + 1
  /\ GoAccept(IF count' = 1 THEN "activating" ELSE "spawning")
  /\ UNCHANGED <<state, armed, stopVars, netVars, cur, conn, caller>>

OpenedActivate ==
  /\ acceptor = "activating"
  /\ state' = "Active"
  /\ GoAccept("pausing")
  /\ UNCHANGED <<count, armed, stopVars, netVars, cur, conn, caller>>

PauseIdleTimer ==
  /\ acceptor = "pausing"
  /\ armed' = FALSE
  /\ GoAccept("spawning")
  /\ UNCHANGED <<state, count, stopVars, netVars, cur, conn, caller>>

\* Mutant: without the go statement the loop serves the session itself.
StartSessionInline ==
  /\ acceptor = "spawning"
  /\ \/ /\ conn[cur] = "accepted"
        /\ GoConn(cur, "serving")
        /\ UNCHANGED <<cur, acceptor>>
     \/ /\ conn[cur] = "closed"
        /\ cur' = NoConn
        /\ GoAccept("accepting")
        /\ UNCHANGED conn
  /\ UNCHANGED <<lcVars, stopVars, netVars, caller>>

\* wg.Add(1) and the go statement: the session exists from here on.
StartSession ==
  /\ acceptor = "spawning"
  /\ GoConn(cur, "serving")
  /\ cur' = NoConn
  /\ GoAccept("accepting")
  /\ UNCHANGED <<lcVars, stopVars, netVars, caller>>

\* Mutant: wg.Done runs before the lifecycle hears of the close.
InWaitGroupEarlyDone == {c \in Conns : conn[c] = "serving"}

\* The sessions wg counts: started and not yet past wg.Done.
InWaitGroup == {c \in Conns : conn[c] \in {"serving", "leaving", "zeroing",
                                "checking", "readying", "resuming", "ended"}}

\* wg.Wait returns; the deferred calls cancel the context and close the
\* listener on the way out.
Return ==
  /\ acceptor = "draining"
  /\ InWaitGroup = {}
  /\ GoAccept("done")
  /\ ctxDone' = TRUE
  /\ listening' = FALSE
  /\ conn' = Refuse(conn)
  /\ UNCHANGED <<lcVars, stopVars, cur, caller>>

-----------------------------------------------------------------------------
(* Clients, the session goroutines and ConnectionClosed.                    *)

Dial(c) ==
  /\ conn[c] = "idle"
  /\ listening
  /\ GoConn(c, "queued")
  /\ UNCHANGED <<lcVars, stopVars, netVars, acceptor, cur, caller>>

\* Listen returns: the client hung up or the context was cancelled.
SessionEnds(c) ==
  /\ conn[c] = "serving"
  /\ GoConn(c, "leaving")
  /\ UNCHANGED <<lcVars, stopVars, netVars, acceptor, cur, caller>>

\* Mutant: the last connection is not subtracted, to stay above zero.
ClosedAddKeepsLast(c) ==
  /\ conn[c] = "leaving"
  /\ count' = IF count > 1 THEN count - 1 ELSE count
  /\ GoConn(c, IF count <= 1 THEN "zeroing" ELSE "ended")
  /\ UNCHANGED <<state, armed, stopVars, netVars, acceptor, cur, caller>>

ClosedAdd(c) ==
  /\ conn[c] = "leaving"
  /\ count' = count - 1
  /\ GoConn(c, IF count' <= 0 THEN "zeroing" ELSE "ended")
  /\ UNCHANGED <<state, armed, stopVars, netVars, acceptor, cur, caller>>

ClosedZero(c) ==
  /\ conn[c] = "zeroing"
  /\ count' = 0
  /\ GoConn(c, "checking")
  /\ UNCHANGED <<state, armed, stopVars, netVars, acceptor, cur, caller>>

\* Mutant: the state is compared with Ready.
ClosedCheckReady(c) ==
  /\ conn[c] = "checking"
  /\ GoConn(c, IF state = "Ready" THEN "readying" ELSE "ended")
  /\ UNCHANGED <<lcVars, stopVars, netVars, acceptor, cur, caller>>

ClosedCheck(c) ==
  /\ conn[c] = "checking"
  /\ GoConn(c, IF state = "Active" THEN "readying" ELSE "ended")
  /\ UNCHANGED <<lcVars, stopVars, netVars, acceptor, cur, caller>>

ClosedReady(c) ==
  /\ conn[c] = "readying"
  /\ state' = "Ready"
  /\ GoConn(c, "resuming")
  /\ UNCHANGED <<count, armed, stopVars, netVars, acceptor, cur, caller>>

ResumeIdleTimer(c) ==
  /\ conn[c] = "resuming"
  /\ armed' = TRUE
  /\ GoConn(c, "ended")
  /\ UNCHANGED <<state, count, stopVars, netVars, acceptor, cur, caller>>

\* conn.Close and wg.Done.
SessionDone(c) ==
  /\ conn[c] = "ended"
  /\ GoConn(c, "closed")
  /\ UNCHANGED <<lcVars, stopVars, netVars, acceptor, cur, caller>>

-----------------------------------------------------------------------------
(* The idle timer, InitiateShutdown and the watcher.                        *)

\* The timer elapses and its callback starts; Stop no longer reaches it.
TimerFires(k) ==
  /\ armed
  /\ caller[k] = "idle"
  /\ armed' = FALSE
  /\ GoCaller(k, "count")
  /\ UNCHANGED <<state, count, stopVars, netVars, acceptor, cur, conn>>

CallbackReadsCount(k) ==
  /\ caller[k] = "count"
  /\ GoCaller(k, IF count = 0 THEN "state" ELSE "idle")
  /\ UNCHANGED <<lcVars, stopVars, netVars, acceptor, cur, conn>>

CallbackReadsState(k) ==
  /\ caller[k] = "state"
  /\ GoCaller(k, IF state = "Ready" THEN "enter" ELSE "idle")
  /\ UNCHANGED <<lcVars, stopVars, netVars, acceptor, cur, conn>>

UserStop(u) ==
  /\ caller[u] = "idle"
  /\ once # "done"
  /\ GoCaller(u, "enter")
  /\ UNCHANGED <<lcVars, stopVars, netVars, acceptor, cur, conn>>

\* shutdownOnce.Do: the first caller runs the body, a later one returns when
\* the body has returned.
InitiateShutdown(k) ==
  /\ caller[k] = "enter"
  /\ \/ /\ once = "no"
        /\ once' = "running"
        /\ state' = "ShuttingDown"
        /\ GoCaller(k, "cancel")
     \/ /\ once = "done"
        /\ GoCaller(k, "idle")
        /\ UNCHANGED <<once, state>>
  /\ UNCHANGED <<count, armed, watcher, shutdownDone, netVars, acceptor, cur, conn>>

OnShutdown(k) ==
  /\ caller[k] = "cancel"
  /\ ctxDone' = TRUE
  /\ GoCaller(k, "watch")
  /\ UNCHANGED <<lcVars, stopVars, listening, acceptor, cur, conn>>

StartWatcher(k) ==
  /\ caller[k] = "watch"
  /\ watcher' = "polling"
  /\ once' = "done"
  /\ GoCaller(k, "idle")
  /\ UNCHANGED <<lcVars, shutdownDone, netVars, acceptor, cur, conn>>

\* The deadline elapses, which it may at any time, or a tick finds no
\* connection: with the time left out the first alternative covers the second.
WatcherSees ==
  /\ watcher = "polling"
  /\ watcher' = "storing"
  /\ UNCHANGED <<lcVars, once, shutdownDone, netVars, acceptor, cur, conn, caller>>

WatcherStops ==
  /\ watcher = "storing"
  /\ state' = "Stopped"
  /\ watcher' = "closing"
  /\ UNCHANGED <<count, armed, once, shutdownDone, netVars, acceptor, cur, conn, caller>>

\* Mutant: the watcher returns without closing the channel.
WatcherForgetsSignal ==
  /\ watcher = "closing"
  /\ watcher' = "over"
  /\ UNCHANGED <<lcVars, once, shutdownDone, netVars, acceptor, cur, conn, caller>>

WatcherSignals ==
  /\ watcher = "closing"
  /\ shutdownDone' = TRUE
  /\ watcher' = "over"
  /\ UNCHANGED <<lcVars, once, netVars, acceptor, cur, conn, caller>>

\* SIGINT, SIGTERM or the Quit menu item.
Quit ==
  /\ ~ctxDone
  /\ ctxDone' = TRUE
  /\ UNCHANGED <<lcVars, stopVars, listening, acceptor, cur, conn, caller>>

\* Mutant: the connections waiting are reset, the listener stays open.
CloseListenerNot ==
  /\ ctxDone
  /\ listening
  /\ conn' = Refuse(conn)
  /\ UNCHANGED <<lcVars, stopVars, netVars, acceptor, cur, caller>>

CloseListener ==
  /\ ctxDone
  /\ listening
  /\ listening' = FALSE
  /\ conn' = Refuse(conn)
  /\ UNCHANGED <<lcVars, stopVars, ctxDone, acceptor, cur, caller>>

-----------------------------------------------------------------------------
\* What the accept loop does between two calls of Accept.
AcceptStep ==
  \/ SetReady \/ StartIdleTimer \/ Admit \/ OpenedAdd \/ OpenedActivate
  \/ PauseIdleTimer \/ StartSession \/ Return

\* What a session goroutine does once Listen has returned.
Leave(c) ==
  \/ ClosedAdd(c) \/ ClosedZero(c) \/ ClosedCheck(c) \/ ClosedReady(c)
  \/ ResumeIdleTimer(c) \/ SessionDone(c)

Initiate(k) == InitiateShutdown(k) \/ OnShutdown(k) \/ StartWatcher(k)

Callback(k) == CallbackReadsCount(k) \/ CallbackReadsState(k)

Watcher == WatcherSees \/ WatcherStops \/ WatcherSignals

\* runMCPServer has returned and every goroutine the lifecycle started is over.
Terminated ==
  /\ acceptor = "done"
  /\ watcher \in {"off", "over"}
  /\ UNCHANGED vars

Goroutines ==
  \/ AcceptStep
  \/ AcceptFails
  \/ \E c \in Conns : Accept(c) \/ Dial(c) \/ SessionEnds(c) \/ Leave(c)
  \/ \E k \in Callbacks : TimerFires(k) \/ Callback(k)
  \/ \E u \in Users : UserStop(u)
  \/ \E k \in Callers : Initiate(k)
  \/ Watcher
  \/ CloseListener

Next == Goroutines \/ Quit \/ Terminated

\* Goroutines that can run do run, an armed timer elapses and a cancelled
\* context ends every session.  Clients and users owe the server nothing.
Fairness ==
  /\ WF_vars(AcceptStep)
  /\ WF_vars(\E c \in Conns : Accept(c))
  /\ WF_vars(~listening /\ AcceptFails)
  /\ \A c \in Conns : WF_vars(ctxDone /\ SessionEnds(c)) /\ WF_vars(Leave(c))
  /\ WF_vars(\E k \in Callbacks : TimerFires(k))
  /\ \A k \in Callers : WF_vars(Initiate(k))
  /\ \A k \in Callbacks : WF_vars(Callback(k))
  /\ WF_vars(Watcher)
  /\ WF_vars(CloseListener)

Spec == Init /\ [][Next]_vars /\ Fairness

-----------------------------------------------------------------------------
(* Properties.                                                              *)

\* Connections that were added to connCount and not yet subtracted.
Counted ==
  {c \in Conns : \/ conn[c] \in {"serving", "leaving"}
                 \/ c = cur /\ acceptor \in {"activating", "pausing", "spawning"}}

Zeroing == {c \in Conns : conn[c] = "zeroing"}

\* connCount never reports a connection that is gone, and it is negative only
\* while a ConnectionClosed has yet to store its zero: however the opens and
\* closes interleave, a phantom connection never keeps an idle server up.
CountBounded == /\ count <= Cardinality(Counted)
                /\ count >= -Cardinality(Zeroing)

\* When runMCPServer returns, and the process goes on to exit, no session
\* goroutine is still between Listen and wg.Done.
DrainedOnReturn ==
  acceptor = "done" =>
    \A c \in Conns : conn[c] \in {"idle", "queued", "refused", "closed"}

\* A context that is cancelled, by a signal, the Quit item or an idle stop,
\* brings the accept loop and every session to an end.
ShutdownCompletes == ctxDone ~> acceptor = "done"

\* Whoever waits on WaitForShutdown after a shutdown was initiated is woken.
ShutdownSignalled == once = "running" ~> shutdownDone

\* A client in the listen backlog is served or refused; one is left waiting
\* only behind sessions that go on after an Accept error has ended the loop.
ClientAnswered ==
  \A c \in Conns :
    conn[c] = "queued" ~> (conn[c] # "queued" \/ (acceptor = "draining" /\ ~ctxDone))

\* Connections whose ConnectionClosed has its say on the state still to come.
Settling == {c \in Conns : conn[c] \in {"zeroing", "checking", "readying"}}

\* A server that everybody left is not stuck: whatever opens and closes
\* overlapped before, once the last ConnectionClosed has had its say the count
\* is zero and the state Ready, the two the idle callback and the admission ask
\* for, unless a shutdown has begun.
LeftServerIsReady ==
  Counted = {} /\ Settling = {} /\ once = "no" /\ acceptor # "starting" =>
    count = 0 /\ state = "Ready"

\* What the clients see.  A connection waits until it is admitted or refused.
Waiting == {c \in Conns : \/ conn[c] = "queued"
                          \/ conn[c] = "accepted" /\ acceptor = "admitting"}

ClientOf(c) == CASE conn[c] = "idle" -> "away"
                 [] c \in Waiting -> "waiting"
                 [] conn[c] = "refused" -> "refused"
                 [] conn[c] = "closed" -> "gone"
                 [] OTHER -> "served"

Clients == INSTANCE SessionServer WITH
  client <- [c \in Conns |-> ClientOf(c)],
  mode <- CASE acceptor = "done" -> "over"
            [] acceptor # "done" /\ (once # "no" \/ ctxDone) -> "stopping"
            [] acceptor = "draining" /\ once = "no" /\ ~ctxDone -> "deaf"
            [] OTHER -> "up"

\* To its clients the accept loop, with its goroutines, atomics and timer, is
\* a SessionServer: however they overlap, only a server that is stopping turns
\* a client away, it is over only when nobody is served, and a stop once begun
\* ends every session and answers everybody who waits.
ServesItsClients == Clients!Spec
=============================================================================
