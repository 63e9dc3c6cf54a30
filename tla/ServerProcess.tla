---------------------------- MODULE ServerProcess ----------------------------
(***************************************************************************)
(* The process around the lifecycle (main.go, onReady, onExit and          *)
(* runMCPServer): the server goroutine, the menu goroutine, the goroutine  *)
(* that waits for a signal or quitCh, the main thread in systray's event   *)
(* loop, and the AfterFunc that exits when the event loop does not.        *)
(* systray, the other server instance and the signals are external.        *)
(***************************************************************************)
EXTENDS Lifecycle

VARIABLES
  server,       \* what the server goroutine does next
  menu,         \* what the menu goroutine does next; "quit": it quit, "gone": it left
  waiter,       \* the goroutine that cancels the context
  signalled,    \* a signal is in sigChan
  quitCh,       \* quitCh is closed
  terminating,  \* systray.Quit was called
  main,         \* what the main thread does next
  safetyNet,    \* the AfterFunc is armed
  shells,       \* shell sessions are running
  exit          \* "no", or how the process ended

goVars   == <<server, menu, waiter, signalled>>
endVars  == <<quitCh, terminating, main, safetyNet, shells, exit>>
procVars == <<vars, goVars, endVars>>

ProcTypeOK ==
  /\ TypeOK
  /\ server \in {"dial", "remove", "listen", "serve", "close", "quit", "arm", "unlink", "over"}
  /\ menu \in {"select", "close", "ask", "quit", "gone"}
  /\ waiter \in {"off", "wait", "over"}
  /\ main \in {"loop", "exit"}
  /\ exit \in {"no", "clean", "panic", "killed"}
  /\ {signalled, quitCh, terminating, safetyNet, shells} \subseteq BOOLEAN

ProcInit ==
  /\ Init
  /\ server = "dial" /\ menu = "select" /\ waiter = "off" /\ main = "loop"
  /\ signalled = FALSE /\ quitCh = FALSE /\ terminating = FALSE
  /\ safetyNet = FALSE /\ shells = FALSE
  /\ exit = "no"

Up == exit = "no"

\* runMCPServer has begun; what it started may outlive it.
Served == waiter # "off"

-----------------------------------------------------------------------------
(* The server goroutine.                                                    *)

ServerStep(from, to) == Up /\ server = from /\ server' = to /\ UNCHANGED vars

\* Another instance may answer the dial, and Listen may fail.
DialInstance ==
  /\ ServerStep("dial", "remove") \/ ServerStep("dial", "close")
  /\ UNCHANGED <<menu, waiter, signalled, endVars>>

RemoveStale ==
  /\ ServerStep("remove", "listen")
  /\ UNCHANGED <<menu, waiter, signalled, endVars>>

\* runMCPServer begins: from here on signals are caught.
Listen ==
  /\ \/ ServerStep("listen", "serve") /\ waiter' = "wait"
     \/ ServerStep("listen", "close") /\ UNCHANGED waiter
  /\ UNCHANGED <<menu, signalled, endVars>>

\* Mutant: runMCPServer leaves the shell sessions to onExit.
RunReturnsEarly ==
  /\ acceptor = "done"
  /\ ServerStep("serve", "close")
  /\ UNCHANGED <<menu, waiter, signalled, endVars>>

\* runMCPServer returns; its deferred CloseAll runs last.
RunReturns ==
  /\ acceptor = "done"
  /\ ServerStep("serve", "close")
  /\ shells' = FALSE
  /\ UNCHANGED <<menu, waiter, signalled, quitCh, terminating, main, safetyNet, exit>>

\* close(quitCh) panics when it is closed already.
CloseQuit == IF quitCh THEN exit' = "panic" /\ UNCHANGED quitCh
             ELSE quitCh' = TRUE /\ UNCHANGED exit

ServerCloses ==
  /\ ServerStep("close", "quit")
  /\ CloseQuit
  /\ UNCHANGED <<menu, waiter, signalled, terminating, main, safetyNet, shells>>

\* The paths that never served return here.
ServerQuits ==
  /\ ServerStep("quit", IF Served THEN "arm" ELSE "over")
  /\ terminating' = TRUE
  /\ UNCHANGED <<menu, waiter, signalled, quitCh, main, safetyNet, shells, exit>>

\* Mutant: no AfterFunc.
ArmNothing ==
  /\ ServerStep("arm", "unlink")
  /\ UNCHANGED <<menu, waiter, signalled, endVars>>

ArmSafetyNet ==
  /\ ServerStep("arm", "unlink")
  /\ safetyNet' = TRUE
  /\ UNCHANGED <<menu, waiter, signalled, quitCh, terminating, main, shells, exit>>

\* The deferred Remove and Close; the listener was closed with the context.
Unlink ==
  /\ ServerStep("unlink", "over")
  /\ UNCHANGED <<menu, waiter, signalled, endVars>>

Server == DialInstance \/ RemoveStale \/ Listen \/ RunReturns
            \/ ServerCloses \/ ServerQuits \/ ArmSafetyNet \/ Unlink

-----------------------------------------------------------------------------
(* The menu goroutine, the signals and the goroutine that waits for them.   *)

MenuStep(from, to) == Up /\ menu = from /\ menu' = to /\ UNCHANGED <<vars, server, waiter, signalled>>

\* The user clicks Quit; select may take that although quitCh is closed.
ClickQuit == MenuStep("select", "close") /\ UNCHANGED endVars

MenuCloses ==
  /\ MenuStep("close", "ask")
  /\ CloseQuit
  /\ UNCHANGED <<terminating, main, safetyNet, shells>>

MenuQuits ==
  /\ MenuStep("ask", "quit")
  /\ terminating' = TRUE
  /\ UNCHANGED <<quitCh, main, safetyNet, shells, exit>>

MenuLeaves == quitCh /\ MenuStep("select", "gone") /\ UNCHANGED endVars

\* Before signal.Notify a signal ends the process.
Signal ==
  /\ Up /\ ~signalled
  /\ IF waiter = "off" THEN exit' = "killed" /\ UNCHANGED signalled
     ELSE signalled' = TRUE /\ UNCHANGED exit
  /\ UNCHANGED <<vars, server, menu, waiter, quitCh, terminating, main, safetyNet, shells>>

Cancel ==
  /\ Up /\ waiter = "wait"
  /\ signalled \/ quitCh
  /\ waiter' = "over"
  /\ Quit \/ (ctxDone /\ UNCHANGED vars)
  /\ UNCHANGED <<server, menu, signalled, endVars>>

-----------------------------------------------------------------------------
(* The main thread, the safety net, and tool calls as far as they matter.   *)

\* onExit: the event loop has processed the quit message.
OnExit ==
  /\ Up /\ main = "loop" /\ terminating
  /\ main' = "exit" /\ shells' = FALSE
  /\ UNCHANGED <<vars, goVars, quitCh, terminating, safetyNet, exit>>

MainExits ==
  /\ Up /\ main = "exit"
  /\ exit' = "clean"
  /\ UNCHANGED <<vars, goVars, quitCh, terminating, main, safetyNet, shells>>

NetExits ==
  /\ Up /\ safetyNet
  /\ exit' = "clean"
  /\ UNCHANGED <<vars, goVars, quitCh, terminating, main, safetyNet, shells>>

\* A session's tool call spawns a shell.
SpawnShell ==
  /\ Up /\ Served
  /\ \E c \in Conns : conn[c] = "serving"
  /\ shells' = TRUE
  /\ UNCHANGED <<vars, goVars, quitCh, terminating, main, safetyNet, exit>>

Lives == Up /\ Served /\ Goroutines /\ UNCHANGED <<goVars, endVars>>

Ended == ~Up /\ UNCHANGED procVars

ProcNext ==
  \/ Lives \/ SpawnShell
  \/ Server
  \/ ClickQuit \/ MenuCloses \/ MenuQuits \/ MenuLeaves
  \/ Signal \/ Cancel
  \/ OnExit \/ MainExits \/ NetExits
  \/ Ended

\* The lifecycle's fairness, as long as there is a process to run it.
LifecycleFairness ==
  /\ WF_vars(Up /\ Served /\ AcceptStep)
  /\ WF_vars(Up /\ \E c \in Conns : Accept(c))
  /\ WF_vars(Up /\ ~listening /\ AcceptFails)
  /\ \A c \in Conns : WF_vars(Up /\ ctxDone /\ SessionEnds(c)) /\ WF_vars(Up /\ Leave(c))
  /\ WF_vars(Up /\ \E k \in Callbacks : TimerFires(k))
  /\ \A k \in Callers : WF_vars(Up /\ Initiate(k))
  /\ \A k \in Callbacks : WF_vars(Up /\ Callback(k))
  /\ WF_vars(Up /\ Watcher)
  /\ WF_vars(Up /\ CloseListener)

\* Goroutines run and the AfterFunc fires.  Nothing obliges the event loop to
\* process the quit message: "e.g., NSApp event loop doesn't process" it.
ProcSpec ==
  /\ ProcInit /\ [][ProcNext]_procVars
  /\ LifecycleFairness
  /\ WF_procVars(Server) /\ WF_procVars(Cancel) /\ WF_procVars(NetExits)
  /\ WF_procVars(MenuCloses \/ MenuQuits \/ MenuLeaves)

-----------------------------------------------------------------------------
(* Properties.                                                              *)

ClickedQuit == menu \in {"close", "ask", "quit"}

\* A server that nobody quits from the menu ends without a panic and takes
\* nothing with it: every session is over and every shell closed, whether the
\* event loop or the safety net ends the process.
OrderlyExit ==
  ~ClickedQuit /\ ~Up /\ exit # "killed" =>
    /\ exit = "clean"
    /\ ~shells
    /\ \A c \in Conns : conn[c] \in {"idle", "queued", "refused", "closed"}

\* A cancelled context - an idle stop, a signal or Quit - ends the process,
\* even when the event loop never processes the quit message.
ProcessEnds == ctxDone ~> ~Up
=============================================================================
