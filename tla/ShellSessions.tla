---------------------------- MODULE ShellSessions ----------------------------
(***************************************************************************)
(* The shell tool: the session table of internal/shell/manager.go, the PTY *)
(* sessions of internal/shell/session.go with their read loops, and the    *)
(* handlers of internal/tools/shell.go, which run concurrently.  m.mu      *)
(* guards the table, one s.mu per session guards its terminal, its closed  *)
(* flag and its writes.  The child process and the PTY queues between it   *)
(* and the session are external.                                           *)
(***************************************************************************)
EXTENDS Integers, FiniteSets

CONSTANTS
  Ops,         \* goroutines that run one handler each (bounds the model)
  Sessions,    \* the sessions that may be spawned (bounds the model)
  Nobody,      \* s.mu is free
  Chunks,      \* how many times an input fills the PTY's input queue (bound)
  OutCap,      \* how many chunks of output the PTY holds (bound)
  Handlers     \* the handlers each of these goroutines may run (bound)

\* send_key is send_input with a special key and no text.
Kinds == {"spawn", "send_input", "send_key", "get_snapshot", "resize", "close", "list", "close_all"}

ASSUME ShellAssumption ==
  /\ Ops \cap Sessions = {}
  /\ Nobody \notin Ops \cup Sessions
  /\ Chunks \in Nat \ {0}
  /\ OutCap \in Nat \ {0}
  /\ Handlers \in [Ops -> SUBSET Kinds]

VARIABLES
  table,    \* m.sessions
  listers,  \* the operations inside List, which holds m.mu for reading
  mu,       \* mu[s]: who holds s.mu, an operation or the session's own reader
  closed,   \* s.closed
  child,    \* the child process: "none", "running" or "exited"
  inq,      \* an input chunk waits in the PTY (0 or 1)
  outq,     \* output chunks waiting in the PTY
  reader,   \* what readLoop does next
  kind,     \* which handler each operation runs
  pc,       \* what each operation does next
  target,   \* the session an operation works on
  todo,     \* the sessions CloseAll or List has still to visit
  left      \* input chunks SendInput has still to write

sessionVars == <<mu, closed>>
ptyVars     == <<child, inq, outq, reader>>
opVars      == <<kind, pc, target, todo, left>>
vars == <<table, listers, sessionVars, ptyVars, opVars>>

Steps == {"idle", "start", "insert", "get", "write", "writing", "snapshot", "resize",
          "exitcode", "remove", "close", "reap", "take", "next", "rlock", "info", "returned"}

TypeOK ==
  /\ table \subseteq Sessions
  /\ listers \subseteq Ops
  /\ mu \in [Sessions -> Ops \cup Sessions \cup {Nobody}]
  /\ closed \in [Sessions -> BOOLEAN]
  /\ child \in [Sessions -> {"none", "running", "exited"}]
  /\ inq \in [Sessions -> {0, 1}]
  /\ outq \in [Sessions -> 0..OutCap]
  /\ reader \in [Sessions -> {"off", "reading", "got", "waiting", "over"}]
  /\ kind \in [Ops -> Kinds]
  /\ pc \in [Ops -> Steps]
  /\ target \in [Ops -> Sessions \cup {Nobody}]
  /\ todo \in [Ops -> SUBSET Sessions]
  /\ left \in [Ops -> 0..Chunks]

Init ==
  /\ table = {}
  /\ listers = {}
  /\ mu = [s \in Sessions |-> Nobody]
  /\ closed = [s \in Sessions |-> FALSE]
  /\ child = [s \in Sessions |-> "none"]
  /\ inq = [s \in Sessions |-> 0]
  /\ outq = [s \in Sessions |-> 0]
  /\ reader = [s \in Sessions |-> "off"]
  /\ kind = [o \in Ops |-> "list"]
  /\ pc = [o \in Ops |-> "idle"]
  /\ target = [o \in Ops |-> Nobody]
  /\ todo = [o \in Ops |-> {}]
  /\ left = [o \in Ops |-> 0]

-----------------------------------------------------------------------------
At(o, step) == pc[o] = step
Go(o, step) == pc' = [pc EXCEPT ![o] = step]
S(o) == target[o]

Free(s) == mu[s] = Nobody
Lock(s, who) == Free(s) /\ mu' = [mu EXCEPT ![s] = who]
Unlock(s) == mu' = [mu EXCEPT ![s] = Nobody]

\* sync.RWMutex: a writer waits for the readers, and a waiting writer keeps
\* new readers out.  Only List keeps m.mu over more than one step.
TableWriters == {o \in Ops : pc[o] \in {"insert", "remove", "take"}}
WriteLock == listers = {}
ReadLock == TableWriters = {} \/ listers = {}

FirstStep == [spawn |-> "start", send_input |-> "get", send_key |-> "get", get_snapshot |-> "get",
              resize |-> "get", close |-> "get", list |-> "rlock", close_all |-> "take"]

AfterGet == [send_input |-> "write", send_key |-> "write", get_snapshot |-> "snapshot", resize |-> "resize",
             close |-> "exitcode"]

\* A client names any session, one that was never spawned included.
Begin(o, k) ==
  /\ At(o, "idle")
  /\ kind' = [kind EXCEPT ![o] = k]
  /\ IF k \in {"list", "close_all"}
     THEN UNCHANGED target
     ELSE \E s \in Sessions : target' = [target EXCEPT ![o] = s]
  /\ Go(o, FirstStep[k])
  /\ UNCHANGED <<table, listers, sessionVars, ptyVars, todo, left>>

-----------------------------------------------------------------------------
(* Manager: Spawn, Get, Close, CloseAll and List.                           *)

\* NewSession: the child runs and the read loop is started before the
\* session is in the table.
SpawnStart(o) ==
  /\ At(o, "start")
  /\ child[S(o)] = "none"
  /\ child' = [child EXCEPT ![S(o)] = "running"]
  /\ reader' = [reader EXCEPT ![S(o)] = "reading"]
  /\ Go(o, "insert")
  /\ UNCHANGED <<table, listers, sessionVars, inq, outq, kind, target, todo, left>>

SpawnFails(o) ==
  /\ At(o, "start")
  /\ Go(o, "returned")
  /\ UNCHANGED <<table, listers, sessionVars, ptyVars, kind, target, todo, left>>

SpawnInsert(o) ==
  /\ At(o, "insert")
  /\ WriteLock
  /\ table' = table \cup {S(o)}
  /\ Go(o, "snapshot")
  /\ UNCHANGED <<listers, sessionVars, ptyVars, kind, target, todo, left>>

\* A handler returns when there is no such session, or when a parameter it
\* reads after the lookup is wrong.
Get(o) ==
  /\ At(o, "get")
  /\ ReadLock
  /\ \/ S(o) \in table /\ Go(o, AfterGet[kind[o]])
     \/ /\ S(o) \notin table \/ kind[o] \in {"send_input", "get_snapshot"}
        /\ Go(o, "returned")
  /\ UNCHANGED <<table, listers, sessionVars, ptyVars, kind, target, todo, left>>

\* Mutant: Manager.Close that looks the session up and does not delete it.
RemoveKeeps(o) ==
  /\ At(o, "remove")
  /\ WriteLock
  /\ Go(o, IF S(o) \in table THEN "close" ELSE "returned")
  /\ UNCHANGED <<table, listers, sessionVars, ptyVars, kind, target, todo, left>>

\* Manager.Close looks the session up and deletes it under one lock.
Remove(o) ==
  /\ At(o, "remove")
  /\ WriteLock
  /\ table' = table \ {S(o)}
  /\ Go(o, IF S(o) \in table THEN "close" ELSE "returned")
  /\ UNCHANGED <<listers, sessionVars, ptyVars, kind, target, todo, left>>

\* Mutant: CloseAll that closes the sessions but does not reset the map.
CloseAllTakeKeeps(o) ==
  /\ At(o, "take")
  /\ WriteLock
  /\ todo' = [todo EXCEPT ![o] = table]
  /\ Go(o, "next")
  /\ UNCHANGED <<table, listers, sessionVars, ptyVars, kind, target, left>>

CloseAllTake(o) ==
  /\ At(o, "take")
  /\ WriteLock
  /\ todo' = [todo EXCEPT ![o] = table]
  /\ table' = {}
  /\ Go(o, "next")
  /\ UNCHANGED <<listers, sessionVars, ptyVars, kind, target, left>>

CloseAllNext(o) ==
  /\ At(o, "next")
  /\ \/ \E s \in todo[o] : /\ todo' = [todo EXCEPT ![o] = @ \ {s}]
                           /\ target' = [target EXCEPT ![o] = s]
                           /\ Go(o, "close")
     \/ todo[o] = {} /\ Go(o, "returned") /\ UNCHANGED <<target, todo>>
  /\ UNCHANGED <<table, listers, sessionVars, ptyVars, kind, left>>

ListLock(o) ==
  /\ At(o, "rlock")
  /\ ReadLock
  /\ listers' = listers \cup {o}
  /\ todo' = [todo EXCEPT ![o] = table]
  /\ Go(o, "info")
  /\ UNCHANGED <<table, sessionVars, ptyVars, kind, target, left>>

\* List asks each session for its Info, which locks s.mu, under m.mu.
ListInfo(o) ==
  /\ At(o, "info")
  /\ \/ \E s \in todo[o] : Free(s) /\ todo' = [todo EXCEPT ![o] = @ \ {s}]
                                   /\ UNCHANGED <<listers, pc>>
     \/ todo[o] = {} /\ listers' = listers \ {o} /\ Go(o, "returned") /\ UNCHANGED todo
  /\ UNCHANGED <<table, sessionVars, ptyVars, kind, target, left>>

-----------------------------------------------------------------------------
(* Session: SendInput and SendSpecialKey, Snapshot, Resize, ExitCode, Close. *)

SendLock(o) ==
  /\ At(o, "write")
  /\ Free(S(o))
  /\ \/ /\ closed[S(o)] \/ kind[o] = "send_key"   \* an unknown key is refused
        /\ Go(o, "returned")
        /\ UNCHANGED <<mu, left>>
     \/ /\ ~closed[S(o)]
        /\ Lock(S(o), o)
        /\ left' = [left EXCEPT ![o] = Chunks]
        /\ Go(o, "writing")
  /\ UNCHANGED <<table, listers, closed, ptyVars, kind, target, todo>>

\* The write to the PTY goes on, with s.mu held, as the child makes room.
WriteChunk(o) ==
  /\ At(o, "writing")
  /\ child[S(o)] = "running" /\ left[o] > 0 /\ inq[S(o)] = 0
  /\ inq' = [inq EXCEPT ![S(o)] = 1]
  /\ left' = [left EXCEPT ![o] = @ - 1]
  /\ UNCHANGED <<table, listers, sessionVars, child, outq, reader, kind, pc, target, todo>>

\* The text is written; a special key may follow, under a lock of its own.
WriteDone(o) ==
  /\ At(o, "writing")
  /\ left[o] = 0
  /\ Unlock(S(o))
  /\ \/ Go(o, "snapshot") /\ UNCHANGED kind
     \/ kind[o] = "send_input" /\ kind' = [kind EXCEPT ![o] = "send_key"] /\ Go(o, "write")
  /\ UNCHANGED <<table, listers, closed, ptyVars, target, todo, left>>

\* Mutant: the error path of SendInput returns without the unlock.
WriteFailsLocked(o) ==
  /\ At(o, "writing")
  /\ left[o] > 0 /\ child[S(o)] # "running"
  /\ left' = [left EXCEPT ![o] = 0]
  /\ Go(o, "returned")
  /\ UNCHANGED <<table, listers, sessionVars, ptyVars, kind, target, todo>>

\* The child is gone: the write fails and so does the handler.
WriteFails(o) ==
  /\ At(o, "writing")
  /\ left[o] > 0 /\ child[S(o)] # "running"
  /\ Unlock(S(o))
  /\ left' = [left EXCEPT ![o] = 0]
  /\ Go(o, "returned")
  /\ UNCHANGED <<table, listers, closed, ptyVars, kind, target, todo>>

Snapshot(o) ==
  /\ At(o, "snapshot")
  /\ Free(S(o))
  /\ Go(o, "returned")
  /\ UNCHANGED <<table, listers, sessionVars, ptyVars, kind, target, todo, left>>

\* A closed session refuses; either way the handler is done.
Resize(o) ==
  /\ At(o, "resize")
  /\ Free(S(o))
  /\ Go(o, "returned")
  /\ UNCHANGED <<table, listers, sessionVars, ptyVars, kind, target, todo, left>>

ExitCode(o) ==
  /\ At(o, "exitcode")
  /\ Free(S(o))
  /\ Go(o, "remove")
  /\ UNCHANGED <<table, listers, sessionVars, ptyVars, kind, target, todo, left>>

AfterClose(o) == IF kind[o] = "close_all" THEN "next" ELSE "returned"

SessionClose(o) ==
  /\ At(o, "close")
  /\ Free(S(o))
  /\ \/ closed[S(o)] /\ Go(o, AfterClose(o)) /\ UNCHANGED sessionVars
     \/ /\ ~closed[S(o)]
        /\ closed' = [closed EXCEPT ![S(o)] = TRUE]
        /\ Lock(S(o), o)
        /\ Go(o, "reap")
  /\ UNCHANGED <<table, listers, ptyVars, kind, target, todo, left>>

\* The child exits within two seconds, or it is killed.
Reap(o) ==
  /\ At(o, "reap")
  /\ child' = [child EXCEPT ![S(o)] = "exited"]
  /\ Unlock(S(o))
  /\ Go(o, AfterClose(o))
  /\ UNCHANGED <<table, listers, closed, inq, outq, reader, kind, target, todo, left>>

-----------------------------------------------------------------------------
(* readLoop.                                                                *)

ReaderReads(s) ==
  /\ reader[s] = "reading"
  /\ outq[s] > 0
  /\ outq' = [outq EXCEPT ![s] = @ - 1]
  /\ reader' = [reader EXCEPT ![s] = "got"]
  /\ UNCHANGED <<table, listers, sessionVars, child, inq, opVars>>

\* term.Write under s.mu.
ReaderWrites(s) ==
  /\ reader[s] = "got"
  /\ Free(s)
  /\ reader' = [reader EXCEPT ![s] = "reading"]
  /\ UNCHANGED <<table, listers, sessionVars, child, inq, outq, opVars>>

ReaderFails(s) ==
  /\ reader[s] = "reading"
  /\ closed[s] \/ (child[s] = "exited" /\ outq[s] = 0)
  /\ reader' = [reader EXCEPT ![s] = "waiting"]
  /\ UNCHANGED <<table, listers, sessionVars, child, inq, outq, opVars>>

ReaderWaits(s) ==
  /\ reader[s] = "waiting"
  /\ child[s] = "exited"
  /\ reader' = [reader EXCEPT ![s] = "over"]
  /\ UNCHANGED <<table, listers, sessionVars, child, inq, outq, opVars>>

ReadLoop(s) == ReaderReads(s) \/ ReaderWrites(s) \/ ReaderFails(s) \/ ReaderWaits(s)

-----------------------------------------------------------------------------
(* The child.                                                               *)

\* A child reads when it likes, or never: it may sleep, and one that prints
\* before it reads cannot while its output is stuck.
ChildReads(s) ==
  /\ child[s] = "running"
  /\ inq[s] > 0
  /\ inq' = [inq EXCEPT ![s] = 0]
  /\ UNCHANGED <<table, listers, sessionVars, child, outq, reader, opVars>>

ChildPrints(s) ==
  /\ child[s] = "running"
  /\ outq[s] < OutCap
  /\ outq' = [outq EXCEPT ![s] = @ + 1]
  /\ UNCHANGED <<table, listers, sessionVars, child, inq, reader, opVars>>

ChildExits(s) ==
  /\ child[s] = "running"
  /\ child' = [child EXCEPT ![s] = "exited"]
  /\ UNCHANGED <<table, listers, sessionVars, inq, outq, reader, opVars>>

-----------------------------------------------------------------------------
Manage(o) ==
  \/ SpawnStart(o) \/ SpawnFails(o) \/ SpawnInsert(o) \/ Get(o) \/ Remove(o)
  \/ CloseAllTake(o) \/ CloseAllNext(o) \/ ListLock(o) \/ ListInfo(o)

UseSession(o) ==
  \/ SendLock(o) \/ WriteChunk(o) \/ WriteDone(o) \/ WriteFails(o) \/ Snapshot(o)
  \/ Resize(o) \/ ExitCode(o) \/ SessionClose(o) \/ Reap(o)

Running(o) == Manage(o) \/ UseSession(o)

Quiescent ==
  /\ \A o \in Ops : pc[o] = "returned"
  /\ UNCHANGED vars

Next ==
  \/ \E o \in Ops : (\E k \in Handlers[o] : Begin(o, k)) \/ Running(o)
  \/ \E s \in Sessions : ReadLoop(s) \/ ChildReads(s) \/ ChildPrints(s) \/ ChildExits(s)
  \/ Quiescent

\* Go's mutexes hand over to whoever has waited long: a handler that can go
\* on again and again does, and so do the read loops.  The children owe nothing.
Fairness ==
  /\ \A o \in Ops : SF_vars(Running(o))
  /\ \A s \in Sessions : WF_vars(ReadLoop(s))

Spec == Init /\ [][Next]_vars /\ Fairness

-----------------------------------------------------------------------------
(* Properties.                                                              *)

\* The table holds only sessions that were started and that nobody has begun
\* to close, so List and Get never hand out a session that is closed.
TableIsOpen == \A s \in table : child[s] # "none" /\ ~closed[s]

\* The operations that closed a session or are about to.
Closers(s) == {o \in Ops : \/ pc[o] \in {"close", "reap"} /\ S(o) = s
                           \/ s \in todo[o] /\ kind[o] = "close_all"}

\* Close and CloseAll hand each session to one closer, once: no two closers wait for
\* the same child twice and nobody closes a session still in the table.
HandedToOne ==
  \A s \in Sessions :
    /\ \A o, p \in Closers(s) : o = p
    /\ s \in table \/ (closed[s] /\ Free(s)) => Closers(s) = {}

\* SendInput or SendSpecialKey waits, with s.mu held, for a child that runs and
\* does not read; the read loop waits for s.mu behind it.
WriteStuck(s) ==
  /\ child[s] = "running" /\ inq[s] = 1
  /\ \E p \in Ops : At(p, "writing") /\ S(p) = s /\ left[p] > 0

\* Who a stuck write can hold up: the handlers of its own session and, once a
\* List asks for that session's Info under m.mu, whoever needs the table.
HeldUp(o) == \E s \in Sessions : WriteStuck(s) /\ (S(o) = s \/ listers # {})

\* A handler that began returns, however the handlers, read loops and children
\* interleave, unless a child that never reads its input holds it up for ever.
EveryOpReturns ==
  \A o \in Ops : <>[]HeldUp(o) \/ (pc[o] # "idle" ~> pc[o] = "returned")
=============================================================================
