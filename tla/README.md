# McpMacControl in TLA+

McpMacControl is one executable with two roles. As a **bridge** it speaks MCP on stdin/stdout with an AI client and forwards every tool call over a Unix socket. As the **.app server** it owns the socket, the menu bar item and the macOS permissions, and carries the tool calls out: it captures windows, sends input, controls windows and runs shell sessions. One server serves all bridges, is launched by the first bridge that needs it and stops by itself when it has been idle.

Most of the code that is hard to get right is about who does what when: atomics that belong together and are not changed together, locks that are released before what they guard is used, processes that share a socket path, tool calls that share one desktop. That is what this directory models. The modules are checked with TLC on small instances; TLAPS proofs cover every value of the constants.

Paths below are relative to `src/`.

- [1. Inventory](#1-inventory)
- [2. Modules, and how they correspond to the code](#2-modules-and-how-they-correspond-to-the-code)
- [3. Runs, bounds and what they show](#3-runs-bounds-and-what-they-show)
- [4. Fairness](#4-fairness)
- [5. Proofs](#5-proofs)
- [6. Where the code and its words disagree](#6-where-the-code-and-its-words-disagree)
- [7. Not modelled](#7-not-modelled)
- [8. What could follow](#8-what-could-follow)

## 1. Inventory

| component | state it keeps | operations | what is hard | what makes it correct |
|---|---|---|---|---|
| agent lifecycle and accept loop (`internal/agent/lifecycle.go`, `main.go` 283-358) | `state`, `connCount` (two atomics), idle timer, `shutdownOnce`, `shutdownDone`; the server's context, listener and wait group | `SetReady`, `StartIdleTimer`, `ConnectionOpened`, `ConnectionClosed`, timer callback, `UserStop`, `InitiateShutdown`, watcher; accept, refuse, serve, drain | opens and closes on different goroutines touch the atomics one after the other; the callback of a stopped timer may still run; shutdown has three triggers | the count never stays too high; a server that everybody left is ready at count zero; only a server that is stopping turns clients away; every shutdown ends and is signalled; the process exits drained |
| bridge proxy (`internal/bridge/proxy.go`) | `connected`, `client`, `conn` under `p.mu` | `ensureBackend`, `launchBackend`, `callTool`, `resetConnection`, `Close` | `callTool` reads `p.client` without the lock; calls reset a connection that others use; one retry | a connected proxy has a client; one launch per failure; the retry goes elsewhere; every call returns |
| server instances and the socket path (`internal/bridge/bridge.go`, `proxy.go`, `main.go` 141-187) | the file at `SocketPath`, processes, connections | bridge: dial, handshake, remove, launch, wait; server: dial, remove, listen, serve, idle out, exit | processes that know of each other only through a file; crashes leave it behind; deadlines mistake slow for dead | a server that serves can be found; a bridge gets a server, and another when that one stops |
| shell sessions (`internal/shell`, `internal/tools/shell.go`) | the session table under `m.mu`; per session `closed`, the terminal and its lock; child and PTY | spawn, send input or key, snapshot, resize, list, close, close all, the read loop | handlers hold a session another one closes; a write that blocks under the lock the reader needs | a listed session is open; each session is closed and reaped by one handler; every handler returns that no stuck write holds up |
| protocol server (`internal/protocol/server.go`) | `conns` (a `sync.Map`), `connCount`, `stopCh`, wait group | accept loop, `handleConnection`, `Stop`, `BroadcastNotification` | Stop's pass over the connections against accepts under way; writes that block | Stop returns and leaves nothing behind; a broadcast ends with it |
| protocol client (`internal/protocol/client.go`) | `connected`, `nextID`, the connection, under `c.mu` | `Connect`, `Call`, `Close` | a response is whatever line comes next; an encoder that failed once fails always | a call returns its own response; every operation ends |
| do tool (`internal/tools/do.go`, `internal/input`) | per call: the batch, the position, `focusedApp`; shared: the frontmost application, the pointer and its button, the keyboard, the clipboard | normalise, validate, execute 15 kinds of action | validation and execution work out the target application separately; focus is checked, then input follows, much of it in many events with pauses | all input has a target, the right one, and reaches it; nothing of an invalid batch runs |
| window lookup, input, window control (`internal/capture/windows*.go`, `internal/input`) | none of its own; the desktop's windows | list, find, bounds check, pointer events, focus, minimise, restore, close, resize, capture | every call resolves names anew; two passes, a title filter and a display preference | the best match is found; what is found is what is acted on |
| permission wizard (`internal/permissions/wizard_darwin.go`) | `wizardActive`, `wizardResult`; C statics for the window, the semaphore and the button; the cached screen-recording answer | `ShowPermissionWizard`, the native call, window, timer, buttons, broadcast | a wizard's timer outlives it and shares statics with the next; waiters on a channel that is closed after a non-blocking send | one wizard at a time; its caller waits for it; every caller returns |
| server process (`main.go` 79-217) | `quitCh`, `sigChan`, the context, systray's event loop, shells | the server goroutine, the menu goroutine, signal handling, `onExit`, the exit after two seconds | four goroutines and the main thread end one process; a channel has two closers | a cancelled context ends the process, with no session or shell left |
| agent RPC server (`internal/agent/server.go`) | a protocol server, a lifecycle, the PID file | `NewServer`, `Start`, `Stop`, `BroadcastStopping`, the shutdown request | `Start` fails half way; requests come before it returns; the lifecycle hears of no connection | after `Stop` or a failed `Start` nothing is left; a shutdown request ends in one |
| tool calls: hooks, captures and their files (`main.go` 227-277, `internal/capture/window.go`, `save.go`, `internal/tools/image_result.go`) | the temporary file, saved files | the two hooks, `runScreencapture`, `imageResult` | concurrent calls share one temporary file and a clock | a client sees its own shot |
| notifications popover (`internal/notify/notify_darwin.m`) | the popover, `popoverTimer`, a fade | show, hide, timer, end of the fade | blocks reach the main thread late; fade, timer and show in any order | it stays five seconds, goes away, and is in no shot of its own call |
| image sizes (`internal/capture/optimize.go`, `cropImage`) | none | scale to points, crop, shrink | the answer's coordinates are about another size, or another part of the screen, than the image's | a pixel is the point the answer says |
| agent menu bar, process listing, help and alert, other texts | | | | see [7](#7-not-modelled) |

How they interact: the MCP client calls the bridge; the **bridge proxy** connects to, or launches, a **server instance** through the socket path; the server's **accept loop** admits the connection and tells the **lifecycle**, which stops the server when it counts none. On the server every tool call is a goroutine of its own. `do()` calls go through **window lookup** to the desktop, which they share with each other and the user; shell calls share the **session table**. Before and after each of them hooks show and hide the **popover** on the main thread. The menu starts the **wizard** and quits the **server process**. The **protocol server and client** are a second, JSON-RPC front; the **agent RPC server** puts the protocol server and a lifecycle of its own under one Start and Stop.

## 2. Modules, and how they correspond to the code

Each variable and action names what it stands for in a comment or by its name, and `PROJECT.json` ("map") gives the lines. Actions are as coarse as the code allows: one for each atomic access, lock acquisition, blocking call or external event; everything between two of them that only touches local state is part of the step. Definitions whose comment begins with "Mutant:" are plausible bugs, kept next to the definition they would replace; they show that the property of the run named in `PROJECT.json` notices them. No specification uses them.

**Lifecycle** has the two atomics, the timer and the `Once` as variables and a program counter each for the accept loop, every connection, every timer callback and every user. `ConnectionOpened` is `OpenedAdd`, `OpenedActivate`, `PauseIdleTimer`; `ConnectionClosed` is `ClosedAdd`, then perhaps `ClosedZero`, then `ClosedCheck`, `ClosedReady`, `ResumeIdleTimer`. The time the watcher waits is left out: its deadline may elapse at any moment. Nothing serialises the operations: an open, closes, callbacks and stops interleave at every atomic.

**SessionServer** is the abstract specification of what the accept loop owes its clients, without goroutines, counts, states and timers. A client waits, is served and goes, or is refused; the server is up, deaf (an Accept error has ended its loop while sessions go on), stopping or over. Only a stopping server refuses, a deaf one takes nobody any more, it is over when nobody is served, a stop once begun ends what is served and then the server, and whoever waits is answered. It promises no more than the code keeps: a session may begin in a server that is stopping (an open or a close stores Active or Ready over ShuttingDown), and a stop may come over live sessions (see 6). Lifecycle refers to it as `Clients`: `ClientOf` reads a client off its connection's program counter and the mode off the context, the `Once` and the accept loop; `ServesItsClients` is its specification including liveness.

**ServerProcess** extends Lifecycle by the process around it: the server goroutine of `onReady` (`DialInstance` to `Unlink`), the menu goroutine, the goroutine that waits for a signal or `quitCh`, systray's event loop on the main thread with `onExit`, and the `AfterFunc` behind `systray.Quit`. Every step of Lifecycle is a step of it while the process is up. `exit` says how the process ended; "panic" is the second `close(quitCh)`. Which shells run is one Boolean; ShellSessions has them in detail.

**LazyProxy** numbers connections as they are dialled, so that "the same connection" can be said. Faults - a crash, a hang, a launch that fails - are injected by the environment up to `MaxFaults`. `process = "panicked"` is the nil dereference in `callTool`.

**ShellSessions** has one lock for the table, one per session, and PTY queues of bounded size. A blocking PTY write is a state in which the operation holds the session's lock. A child reads and prints as it likes, and need not read at all: the read loop needs the lock that the write holds, so a child that prints before it reads never gets to read. `WriteStuck` and `HeldUp` name that state and the handlers it can hold up.

**ProtocolServer** and **ProtocolClient** reduce a message to one token. A `sync.Map` `Range` visits each key that stays, and may visit one that is stored meanwhile, in any order. The client's connection is a sequence of requests and one of lines; a line is the answer to a request, a notification, or the rest of an answer a timed-out read has cut. `broken` is the encoder's error, which sticks: after a write that failed, or passed its deadline with a part of the request written, no request gets out until the client is closed and connects anew.

**AgentServer** extends ProtocolServer by its owner: `Start` and `Stop` of the agent, the PID file, and the lifecycle as it is there - `NewServer` installs no callback that would tell it of connections, so its count is always zero, its watcher stops at once and its idle timer runs whoever is connected. `Dispatch` is a request whose handler is looked up; only `handleShutdown` does more than answer.

**DoBatch** has action records with the fields that decide control flow: type, `app`, its alias `app_name`, the button, and one Boolean for whatever else a validator asks. Each type has its validator under the code's name. The desktop is the frontmost application, the applications that have windows, whose text is on the clipboard, whose event moved the pointer last, who holds the left button, and which calls' windows are still where they were looked up; `Focus` may be disobeyed, as macOS may. A click is one step, since it posts its move, press and release without a pause. A move or a scroll glides (the first of its ten events) and arrives, and a scroll then turns the wheel wherever the pointer is; a drag is `Aim`, `Press`, `DragOn` and `Drop`, and others click, move and release between them.

**ServerInstances** is the composition of bridges and servers as processes; a bridge's part is `launchBackend`, a server's part is the server goroutine of `onReady`. `path` is the server bound to the socket file, which may be dead. `net.Listener.Close` and `os.Remove` unlink the path whoever it belongs to. It is an abstraction of its own and not derived from LazyProxy and Lifecycle: a bridge has one call at a time, and of the lifecycle it keeps that the idle callback checks the count (`ServerTimesOut`) and closes later (`ServerCloses`), whoever connects between, and that a close may have stored zero over the count of an open (`clamped`), after which a server stops over a live connection.

**WindowTargets** has the desktop as a sequence of windows, front to back, and translates the listing filter, the two passes, the title filter and the display preference. Names are compared through the constant relation `Within` ("is a substring of"). Lists that the code filters and scans are sets of positions in that sequence, of which it takes the least. Tool calls are sequential here; what concurrency does to input is DoBatch's subject.

**Wizard** has the C statics as variables that name the wizard whose window or semaphore they hold, the Go guard, the broadcasting goroutine, and the main thread's block, timer and buttons.

**ToolCalls** follows a call through the hooks and `runScreencapture`. An image is represented by the call whose shot it shows, a file by whose shot it holds, or `Torn` while it is written or after two have written it; screencapture takes the picture in one step and completes the file in another. A file name is a prefix and a second. Blocks dispatched to the main thread are a queue; a running timer may fire and a fade may complete at any time after.

**CaptureGeometry** is arithmetic only: `CaptureWindow`, `ResizeToTarget`, `Crop` and `Shrink` on images, which have a size in pixels and the rectangle they show in points, the margin of a shadow included; and `PixelsArePoints`, what the text beside an image tells the client about its coordinates: the size of the region, and every pixel the point it is said to be. ToolCalls' instance evaluates it on small sizes.

### History variables

Five properties hold in the circumstances the code can rely on and fail outside. A history variable records whether those circumstances are left; no guard reads it.

- `DoBatch!disturbed[c]`: somebody else changed a part of the desktop at a step at which call `c`'s action is exposed to it, or the application did not obey the call's own focus. `Exposed` lists what matters when: the front from the check to the last character or the press, the window's place until the press, the pointer between a scroll's arrival and its wheel turn, the button while a drag is under way, the clipboard between a paste's write and its Cmd+V. Nothing else that others do counts.
- `ServerInstances!raced`: a launch or an exit began while another was under way, or a live server missed a deadline.
- `ProtocolClient!desynced`: on this connection a call has timed out or a notification was sent.
- `ToolCalls!collided`: the calls whose use of the temporary file overlapped with another's.
- `ToolCalls!midFade`: the popover was shown again while it faded.

What happens outside is in [6](#6-where-the-code-and-its-words-disagree).

## 3. Runs, bounds and what they show

Sizes are distinct states.

| run | bounds | shows |
|---|---|---|
| `Lifecycle_race` (113 000) | 2 connections, 1 timer callback, 1 user, Accept may fail | `CountBounded`: the count never reports a connection that is gone; `DrainedOnReturn`; `LeftServerIsReady`; `ShutdownCompletes`; `ShutdownSignalled`; `ClientAnswered`; `ServesItsClients`: the refinement of SessionServer |
| `ServerProcess` (948 000) | 2 connections, 1 timer callback; signals, Quit, another instance; no failing Accept and no user who stops the lifecycle, which `Lifecycle_race` has | `OrderlyExit`; `ProcessEnds` |
| `LazyProxy_calls` (46 000) | 2 calls, 2 faults | `ConnectedMeansClient`; `LaunchedOncePerFault`; `RetryElsewhere`; `EveryCallReturns` |
| `LazyProxy_EnsuredClient` | 2 calls, 1 fault, symmetry | **violated**: a call reads a nil client |
| `ShellSessions` (111 000) | 2 handlers of every kind, 1 that closes or lists, 2 sessions, children that need not read, PTY queues of one chunk | `TableIsOpen`; `HandedToOne`; `EveryOpReturns` |
| `AgentServer` (88 000) | 1 connection, Accept and the PID file may fail, Stop and a broadcast at any time, one message in a client's buffer | `LeavesNothing`; `StopReturns`; `BroadcastEndsOnceStopped`; `ShutdownRequestEnds` |
| `ProtocolClient` (17 500) | 2 callers, 3 requests, 1 notification | `OwnResponse`; `EveryOperationReturns` |
| `DoBatch` (2 240 000) | 2 calls and a user, 2 applications; one call gets each action alone and after a focus, a wait or a closed window, some before a focus and after two; the other a paste, a click or a move | `InputHasTarget`; `TargetIsNearestFocus`; `NothingRunsUnvalidated`; `InputReachesTarget` |
| `ServerInstances` (196 000) | 2 bridges, 9 server processes, 1 crash, slow answer, idle stop or user launch | `InstancesTypeOK`; `ServingIsReachable`; `BridgesConnect` |
| `WindowTargets` (1 430 000) | 146 desktops of up to 4 windows, 2 calls and 1 act of the user | `TargetsTypeOK`; `FindIsBest`; `ActsOnFound` |
| `Wizard` (157 000) | 3 callers | `OneWizard`; `NoEarlyReturn`; `EveryCallerReturns` |
| `ToolCalls` (236 000) | a capture call, a `do` screenshot with the same prefix, a call without a shot, 2 seconds; image sizes up to 4 with a limit of 3, with and without a shadow's margin | `SeesItsOwnShot`; `ShotIsClean`; `BalloonStays`; `BalloonCloses`; the assumption `GeometryHolds` |

The type invariants of `ServerInstances` and `WindowTargets` are in their runs; every module's type invariant is a theorem (5).

Why the bounds are enough. *Two* connections, calls, callers or bridges are what an interleaving needs: one that has read something and one that makes it stale. Where a third matters there are three: a shell handler that takes a session from the table while a second waits for the lock a third holds; a wizard's successor and somebody who waits. What the proofs of section 5 cover holds for any number of them. The agent server has one connection because that is all its Stop can race with at a time - it may be in the backlog, accepted and not stored, served, or being told of the stop - and `AgentLeavesNothing` is proved for any number; only the three liveness properties rest on one. Queues hold one element so that a write can block after one; a second would only delay it. Batches in DoBatch have the lengths at which inheritance can differ: no focus, one, two with different targets, and the input after them; the proofs cover every length. Two calls in WindowTargets are a capture and what follows it; what takes three - a command that closes the front window of the active application, then those two - is covered by the proof of `ActsOnFound`. One event in ServerInstances lets a server die, be late or leave at every point of two overlapping launches; nine process names are enough for what that can consume, since servers that lost the path linger, and a launch takes any one that nothing refers to. One rival action in DoBatch meets every step of the other call's actions; two calls are what it takes for one to move the other's pointer, press its button or take its clipboard. Two seconds and a shared prefix in ToolCalls let two images have one name or two; three calls let two blocks wait for the main thread while a third call starts. The desktops in WindowTargets combine what the lookup distinguishes: owner or title, with or without title, on or off the display, floating, empty, one or two windows of an application.

Deadlock is checked in every run except `ServerInstances`, whose bridges may all have left while servers stay up with nobody to talk to. The other modules have an explicit `Quiescent`, `Terminated` or `Ended` step for the states in which nothing more is asked of the system.

## 4. Fairness

Fairness is assumed for what the Go scheduler, the kernel or macOS run by themselves, never for clients and users - with one exception, stated below.

- *Goroutines that can go on do* (weak fairness): accept loop, handlers, read loops, watcher, broadcasts, timers, and the wizard's blocks on the main thread.
- *Mutexes do not starve anybody* (strong fairness, where an action waits for a lock others keep taking): Go's `sync.Mutex` hands over after a millisecond, and the write lock of a network connection is a FIFO. This is used for shell handlers, protocol client callers and the broadcast.
- *Deadlines elapse*: a call of the protocol client and a bridge's wait for the socket. The wait is under strong fairness, because its poll and its deadline take turns to be enabled while other bridges start servers; the ten seconds pass nevertheless.
- *The `AfterFunc` of main.go:175 fires, systray's event loop need not run*: the comment there says that it may not process the quit message. `ProcessEnds` holds without it. The main thread does run the blocks, timers and animations of the popover in ToolCalls and of the wizard.
- *A cancelled context ends a session* in Lifecycle: the transport's `Listen` returns on cancellation (external, as main.go uses it).
- *Nothing is assumed of a child of a shell session*: it may read, print or exit at any time, or never. What follows for a write it never reads is in `EveryOpReturns` itself.
- The exception: *a user closes an open wizard*. The caller is meant to wait for that, so without it nothing can be said of its return.

A server that answers requests is never assumed in ProtocolClient; a live server works off its requests in LazyProxy, and a mute one ends the call by its timeout.

## 5. Proofs

Eight modules hold the proofs: the theorems that `PROJECT.json` lists and the lemmas they rest on. Every safety property of a passing run is among them, and every module's type invariant. Nothing is assumed but the named assumptions of the modules - connections, callers and calls are finite sets where something is counted over them, names for "none" are not among the things they stand beside, callbacks and users are different goroutines, batches are sequences of actions, a name contains the empty one. Each safety theorem is an inductive invariant, one lemma for each part of it and each action that can disturb that part, and one temporal step.

**ServerProcessProofs** is about Lifecycle and ServerProcess. `ProcessRunsLifecycle` says that each step of the process is a step of the lifecycle and its accept loop or leaves them alone, so that what holds of one holds of the other.

- However operations overlap: `TypeCorrect`, `CountIsBounded` and `ReturnIsDrained`, for any finite set of connections and any sets of callbacks and users. The inductive invariant is `LInv`: the type invariant, the two properties, and `HeldIsAccepted` - the accept loop holds a connection exactly between Accept and its session's start, that connection is in state "accepted", and no other is. Without that, `StartSession` could start a connection that is already counted, and the set `Counted` would not grow with the count. The heart is `CountStep`: each action changes `count` and the cardinality of `Counted` or `Zeroing` by matching amounts; the store of zero in `ClosedZero` is harmless above because `Counted` is never smaller than zero and below because the closes still to come are in `Zeroing`.
- Also however they overlap: `ProcTypeCorrect`, and `ExitIsOrderly` (`OrderlyExit`). `PInv` adds `Orderly` to the two type invariants: the server goroutine is past `runMCPServer` only when the accept loop has returned, which by `DrainedOnReturn` means no sessions, and the shells are closed before anything may end the process cleanly; without a Quit from the menu nothing but the server goroutine's last steps closes `quitCh`, so that it is closed once.
- Also however they overlap: `LeftIsReady` (`LeftServerIsReady`). `StateKnown`: until a shutdown begins nobody stores a state of it; `ActiveSettles`: a server that nobody is counted in and that says Active has a `ConnectionClosed` on its way to say otherwise. The state is right in the end because the close that empties `Counted` sees a count of at most zero, by `CountBounded`, and comes after every store of Active.
- And `ClientsAreServed`, the safety part of `ServesItsClients`: the initial state maps to SessionServer's, and each step to a step of it or a stutter. One step of the accept loop's end is several of the client's at once: `Return` refuses whoever is left waiting.

**DoBatchProofs.** For any number of calls, any batches of any length, and whatever the user and applications do:

- `DoTypeCorrect` and `ValidationComesFirst` (`NothingRunsUnvalidated`).
- `EveryInputHasTarget` (`InputHasTarget`): validation and execution, which are separate passes over the batch, agree. The invariant `DoInv` says what a call knows at each step: past validation its batch is `Valid`; and (`KnowsFocus`) once a focus action has gone by, `focusedApp` is set. `BeginStep` joins the two: for an input without an app `validateAppContext` gives an earlier focus, whose trace `KnowsFocus` gives. It follows that the branches of do.go for input without an application cannot be taken.
- `UndisturbedInputReaches` (`InputReachesTarget`): unless somebody else changes what an action is exposed to at that step, or its focus is not obeyed, every event of it goes to its target, and a paste is its own text; scrolls and drags included, on one pointer and one button. The invariant `DesktopInv` adds to `DoInv` what an undisturbed call has at each step (`Undisturbed`): its application in front from the lookup or the focus to the last character or the press, its window where it was found, the button and the window that got the press during a drag, the pointer when the wheel turns, its own text on the clipboard between the write and Cmd+V. The step lemma separates the call that moves from the bystanders: a bystander stays as it is or becomes disturbed.

- `TargetsNearestFocus` (`TargetIsNearestFocus`): `FocusInv` says that `focusedApp` is what the property's `FocusBefore` picks for the next position; `LatestFocus` is how that changes from one position to the next.

**BridgeProofs**, on LazyProxy. `ProxyTypeCorrect`, and for any number of calls and faults: `ConnectedHasClient`, `RetriesElsewhere`, `LaunchesArePaid`. Connections are numbered as they are dialled, and that is the heart of `PInv`: dials and resets exclude each other (`LockHeld`), so by the time a call makes its second attempt the client it may find, and one that is being made, are newer than the connection it lost (`Newer`), whoever reset it. `SentOnce` and `Executed` count requests and runs per attempt. `LaunchesArePaid` adds `Paid`: the launches, and one more (`Credit`) while no live server is there, are at most the faults and one.

On ServerInstances, for any bridges, servers and number of events: `InstancesTypeCorrect` and `ServerIsReachable` (`ServingIsReachable`). `InstancesOrderly` says what "one after the other" gives as long as `raced` is false: at most one bridge looks for a server and one server starts at a time, nothing else goes on while one closes, a bridge that shakes hands does so with the server at the path, and whoever is about to unlink or bind the path does so with nobody serving. The rest of that invariant is needed for its first line, that a serving server is at the path.

**ShellSessionsProofs.** `SessionsTypeCorrect`; `TableStaysOpen` and `OneCloser` from `SInv`. `Exclusive`: a session that is about to be stored, or was taken out to be closed, is held by one handler, is not in the table, and is closed only between that handler's `Close` and the reaping. `Apart`: CloseAll has taken the one it closes off its list.

**AgentServerProofs.** `TypeCorrect` and `AgentTypeCorrect`; `AgentRunsServer`: each step of the agent is one of ProtocolServer or leaves it alone. `StopIsQuiet` for the protocol server and `AgentLeavesNothing` for the agent around it, for any number of connections. `PInv`: every open connection is held by the accept loop or by a handler (`SocketsHeld`), and the wait group, the map and the count follow the goroutines (`Tally`), so that a wait group of zero means that nobody is left to owe anything. The agent adds what its owner has done by each step (`Owned`).

**ProtocolClientProofs.** `ClientTypeCorrect`; `AnswersMatch` (`OwnResponse`, an action property), for any number of callers. `InOrder`: `c.mu` is held from the write to the read, so on a connection without a timeout or a notification there is nothing on the way but one request or one line, that of the caller that reads.

**WizardProofs.** `WizardTypeCorrect`; `NeverTwoWizards` and `BlocksUntilClosed`, for any number of callers. `Shows`: `wizardResult` names the one caller between the guard and the broadcast. `Windows`: its window is there while it is blocked, and a semaphore that is signalled belongs to a window that was closed. `Statics`: the C statics are those of the open window or were cleared by the timer of the wizard before it, never those of another one.

**ToolCallsProofs** is about three modules.

- ToolCalls, for any finite set of calls, prefixes and seconds: `TypeCorrect`; `OwnShotSeen` (`SeesItsOwnShot`); `CapturesAreClean` (`ShotIsClean`); `PopoverStays` (`BalloonStays`, an action property). `ShotInv`: a call is alone with the temporary file from its shot through the writing of the file to its remove, or it is among the `collided` (`FileIsShared`), and what it holds after it is its own picture (`PictureIsOwn`). `CleanInv`: until a capture call is over neither the popover nor any block that waits for the main thread speaks of it. `FadeInv`: a popover whose timer runs while it fades was shown during that fade.
- CaptureGeometry: `ShrinkFits`, `ShrinkKeepsShape` and `ShrinkVisible` say of `resize` what its comment says, with the exact rounding and the condition under which no edge vanishes. `PixelsArePointsUpToMax` says when the coordinates an answer gives are right: exactly when no edge of the region is longer than `MaxDimension` and the raw image shows just the window, without the margin of a shadow; `WindowPixelsArePoints` is the same for a whole window. The library's induction is not needed: the division is characterised by two inequalities (`Quotient`).
- WindowTargets, for any desktops, displays, names and numbers of calls: `TargetsTypeCorrect`; `FoundIsBest` (`FindIsBest`); `TargetIsActedOn` (`ActsOnFound`). Both properties are action properties. "The first window that" is the least of a set of positions; that there is one (`FirstPosition`) comes from the library's theorem that finite subsets are well-founded, so no induction over lists is needed. `BestMatch` joins the two passes and the display preference into one order by grade. `TargetsInv` carries the window from the image to the event: the window the last image shows still goes by the image's app field and title (`Shown`), because raising only permutes the windows (`RaisedWindows`), dragging leaves alone what lookup reads (`ShownMoved`), and a command forgets the image; and a call that points has its application in front. `TopIsHit` is the arithmetic: a pixel within the window's bounds is under that window wherever it is. `FocusUncovers` is what the focus step contributes, with the condition it needs: the application was not active, has one window, and no floating window is in front.

What stays with TLC is liveness, with the liveness half of `ServesItsClients`, since the prover has neither fairness nor ENABLED. No module has a recursive operator.

## 6. Where the code and its words disagree

One disagreement is demonstrated by a run, `LazyProxy_EnsuredClient`: `ensureBackend` returns with `p.mu` released; before `callTool` reads `p.client` (proxy.go:75) another call's `resetConnection` sets it to nil, and the call panics. proxy.go:82: "handleToolCall forwards a tool call to the .app backend, launching it if needed."

The others were met while modelling: the models have the behaviour, and a property that is stated with a condition fails without it. They are listed for whoever works on the code.

*Lifecycle.* Four things happen when opens, closes and the callback overlap. (a) `ConnectionClosed` stores zero over the count of a connection that was opened between its add and its store (lifecycle.go:121): the count is zero over a live session, and the idle timer can stop the server over it, although its configuration says "how long to wait with no connections before shutting down" (43). (b) A `ConnectionClosed` that decided on an old count re-arms the idle timer after a `ConnectionOpened` paused it (160), or comes before that pause: then the state is Ready and the timer stopped over a live connection, and when that one closes it looks for Active (122), finds Ready and arms nothing, so that an empty server never idle-stops. (c) The callback checks the count and the state and stops the server later (169-170), whoever connects between. (d) `ConnectionOpened` and `ConnectionClosed` store Active and Ready over ShuttingDown (112, 123), after which new connections are admitted; the test at lifecycle_test.go:161 says "New connections should be rejected". `LeftServerIsReady` and `ServesItsClients` are what remains true: a server that everybody left says so, and only one that is stopping turns clients away. That a busy server does not idle-stop, that an idle one does, and that nothing is admitted after a stop are false of this code, and no property says so.

*Proxy and instances.* `resetConnection` closes the connection the proxy has now, which may be the fresh one another call has just made (proxy.go:160). A starting server removes the socket of one that began to listen after its dial (main.go:154 says "stale"). A bridge whose handshake timed out removes the socket of a slow, live server (proxy.go:191; 243 says "The socket file is owned by the .app server, not the bridge"). After either, two servers run and one cannot be found: hence `raced`.

*Process.* Quit closes `quitCh` and with it ends the server, which closes it again (main.go:133, 169): the process panics unless the event loop ends it first. The comment at 168 has "idle timeout or signal" only. `OrderlyExit` is about servers nobody quits from the menu. The paths that find another instance or cannot listen (146-161) have no safety net.

*Agent server.* "Create lifecycle with connection tracking callbacks" (server.go:35) - no such callback is installed, so `ping` reports 0 connections and the idle timer shuts the lifecycle down with clients connected. `InitiateShutdown` from a request or the timer does not stop the protocol server; only `Stop` does. A shutdown request that is carried out before `Start` gets to `SetReady` leaves the state Ready after the lifecycle has been shut down. A failed write may leave a PID file after a failed `Start`; `LeavesNothing` asks it only of `Stop`.

*Captures.* An image is shrunk to 1500 pixels after its coordinates were settled (optimize.go:51), so "Pixel coordinates in this image map directly to do() x,y values" (capture_window.go:97) is false for larger windows and regions; `PixelsArePointsUpToMax` has the exact limit. With `hide_shadow=false` the same sentence is false at any size: the image includes the shadow's margin and is squeezed into the window's size (capture_window.go:58). A region is checked against the window in the agent's handler (server.go:242) and not in the tool (capture_window.go:61). An edge can shrink to zero. Concurrent captures use one file name (window.go:21) and return each other's image, an error, or fail on a file that is half written: hence `collided`. Two images with one prefix in one second overwrite each other (save.go:86).

*Popover.* Shown during the half second of a fade, it is closed by that fade, although it "Stays visible for at least 5 seconds" (notify_darwin.go:34): hence `midFade`. Only standalone screenshot tools skip the popover before the shot (main.go:254); a screenshot inside `do` shows it, and so does any capture while another call's popover is up: `ShotIsClean` is about a capture call's own.

*Shell.* `CloseAll` misses a session that `Spawn` has started and not yet stored (manager.go:35-42). `SendInput` holds the session's lock across the PTY write (session.go:155) and the read loop needs it to take the child's output (131): a child that prints until its output is full before it reads its input never reads it, and the write, the read loop and the child wait for each other. `ExitCode`, "a non-blocking check" (204), waits for the same lock, and so does `Close`, which could end it by closing the PTY. A `List` that meets such a session waits for it under the manager's lock (manager.go:92), and with it every handler that needs the table. `HeldUp` is exactly this; `EveryOpReturns` says that nothing else keeps a handler from returning.

*Protocol.* `BroadcastNotification` writes to one client after the other without a deadline, so one that does not read keeps the rest from being told (protocol/server.go:194). The client takes the next line for its response: after a timeout the late answer, or a notification (client.go:108). Hence `desynced`. `Connect` succeeds without dialling on a connection that is dead (client.go:47), and on one whose encoder is: a write that fails or passes its deadline (103) makes `json.Encoder` return that error ever after, so every later call fails until `Close`.

*do().* The frontmost application is checked once, before input that takes a while (do.go:1059; README.md:94 "preventing input from reaching the wrong window"), and the clipboard and Cmd+V of a paste are two steps (pasteboard_darwin.go:55). A scroll moves the pointer in ten events over 45 ms and then turns the wheel wherever the pointer is (do.go:943, 953); a drag holds the button for some 300 ms (mouse_darwin.go:113-135), and another call's click releases it. Hence `disturbed`. A button "Right" is accepted, since validation compares in lower case (do.go:332), and clicks left, since `ParseMouseButton` does not (input.go:19). Scroll and drag never inherit the application of a focus, since their validators ask for one first (do.go:465, 560; CHANGELOG.md:14).

*Windows.* `capture_window` resolves with a title, `do` without (capture_window.go:97). A window command finds a window and acts on the first window of its process (do.go:1035). `restore` looks for its window among those on screen, where a minimised one is not (windows_darwin.go:23). `Focused` compares with the process of the first listed window, which is not the active application when that has no windows (windows_darwin.go:144). `ensureWindowFocused` asks whether the *process* of the window it found is frontmost (do.go:1058) and otherwise focuses that process's first window (1061), so a click on one window of the active application goes to another window of it that covers the point; CHANGELOG.md:30 says "mouse actions automatically focus the target window". The same happens to the one window of an active application when a command has closed or minimised the window it had in front, or restored a window of another application over it: the application stays active, so nothing is raised. (This last case takes three calls; it was met when the proof of `ActsOnFound` failed without the last line of `Unambiguous`.) Hence `Unambiguous` in `ActsOnFound`.

*Wizard.* A waiter that has the channel and is not yet receiving when the broadcast finds nobody gets the zero Status (wizard_darwin.go:339; 306 "Concurrent callers wait on the same result"). The previous wizard's timer clears the statics of the next one, whose Done button then closes nothing (269); its X button still works, which is why `EveryCallerReturns` holds.

## 7. Not modelled

- **Agent menu bar** (`internal/agent/menubar.go`): nothing in the program creates it; main.go has the menu that runs.
- **The agent server's other handlers**: each checks a permission, reads its parameters and calls one function of `internal/capture` or `internal/input`. The direct stdio mode of main.go, one session without accept loop or lifecycle, and the argument that selects the bridge.
- **Texts**: of the popover (where the first client's project is cached for all, main.go:233), of menus, answers, help and alerts.
- **Pixels and encodings**: interpolation, quantisation, WebP, PNG and base64; `TypeText`'s 16-bit units.
- **Sound, overlays and red flash** of `internal/notify`: they close by themselves and share no state with the popover.
- **Process listing**: the output of one `ps` command split into columns. **Display enumeration**: one call to the window server.
- **Tool registration, legacy tool handlers, protocol messages**: declarations, functions nothing registers, and records. Of the CGEvents, the coordinates along a path and the pauses.
- External and modelled only as the code uses them: the window server, AppKit and the accessibility API, `screencapture`, systray, the MCP library, PTYs and children, the terminal emulator, `open -n`, users and clients.

## 8. What could follow

The modules were written most important first: Lifecycle, SessionServer, LazyProxy, ShellSessions, ProtocolServer, ProtocolClient, DoBatch, ServerInstances, WindowTargets, Wizard; then ServerProcess, AgentServer, ToolCalls and CaptureGeometry. Every safety property has its theorem now. What would add most: the single steps that ServerInstances makes of the proxy's dial and launch, and of the lifecycle's idle stop, shown to be what the steps of LazyProxy and Lifecycle amount to; today they are an abstraction made by hand.

## Running

    tlc -config Lifecycle_race.cfg MCLifecycle
    tlapm ServerProcessProofs.tla

Each run's module is `MC` followed by the name of its configuration up to the underscore. `Lifecycle.tla`'s instance is in `MCLifecycle` and, with the process around it, in `MCServerProcess`.
