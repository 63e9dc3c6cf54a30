------------------------- MODULE ShellSessionsProofs -------------------------
(***************************************************************************)
(* Theorems about ShellSessions, for any number of handlers and sessions,  *)
(* whatever the children do.                                               *)
(***************************************************************************)
EXTENDS ShellSessions, TLAPS

\* Where an operation works on a session, it has one.
Busy == {"start", "insert", "get", "write", "writing", "snapshot", "resize",
         "exitcode", "remove", "close", "reap"}

Targeted ==
  \A o \in Ops :
    /\ pc[o] \in Busy => target[o] \in Sessions
    /\ pc[o] = "get" => kind[o] \in DOMAIN AfterGet
    /\ pc[o] \in {"take", "next"} => kind[o] = "close_all"
    /\ pc[o] \in {"rlock", "info"} => kind[o] = "list"

Types == TypeOK /\ Targeted

\* Who has a session to itself: the handler that is about to put it in the
\* table, and the one that took it out to close it.
Holds(o, s) ==
  \/ pc[o] \in {"insert", "close", "reap"} /\ target[o] = s
  \/ s \in todo[o] /\ kind[o] = "close_all"

Exclusive ==
  \A s \in Sessions, o \in Ops : Holds(o, s) =>
    /\ child[s] # "none" /\ s \notin table
    /\ \A p \in Ops : Holds(p, s) => p = o
    /\ IF pc[o] = "reap" /\ target[o] = s THEN closed[s] ELSE ~closed[s]

\* A session CloseAll is closing is not left on its list.
Apart ==
  \A o \in Ops :
    /\ pc[o] \in {"insert", "close", "reap"} /\ kind[o] = "close_all" => target[o] \notin todo[o]
    /\ pc[o] \in {"idle", "take"} => todo[o] = {}

\* SendInput writes and Close reaps with s.mu held.
Locks == \A o \in Ops : pc[o] \in {"writing", "reap"} => mu[target[o]] = o

ClosedWasOpen == \A s \in Sessions : closed[s] => child[s] # "none"

Owned == Exclusive /\ Apart /\ Locks /\ TableIsOpen /\ ClosedWasOpen

\* The inductive invariant.
SInv == Types /\ Owned

-----------------------------------------------------------------------------
LEMMA InitSInv == Init => SInv
<1> SUFFICES ASSUME Init PROVE SInv
  OBVIOUS
<1> USE ShellAssumption DEF Init
<1>1. TypeOK
  BY DEF TypeOK, Steps, Kinds
<1>2. Targeted
  BY DEF Targeted, Busy
<1>3. Exclusive /\ Apart
  BY DEF Exclusive, Apart, Holds
<1>4. Locks /\ TableIsOpen /\ ClosedWasOpen
  BY DEF Locks, TableIsOpen, ClosedWasOpen
<1> QED
  BY <1>1, <1>2, <1>3, <1>4 DEF SInv, Types, Owned

\* A handler's first step, and its step once its session is found.
LEMMA FirstSteps ==
  ASSUME NEW k \in Kinds
  PROVE  /\ FirstStep[k] \in Steps \ {"insert", "write", "writing", "snapshot", "resize", "exitcode", "close", "reap"}
         /\ FirstStep[k] \in Busy => k \notin {"list", "close_all"}
         /\ FirstStep[k] = "take" => k = "close_all"
         /\ FirstStep[k] = "rlock" => k = "list"
         /\ FirstStep[k] \notin {"next", "info"}
         /\ FirstStep[k] = "get" => k \in DOMAIN AfterGet
<1>1. CASE k = "spawn"
  <2>1. FirstStep[k] = "start"
    BY <1>1 DEF FirstStep
  <2> QED
    BY <1>1, <2>1 DEF Steps
<1>2. CASE k \in {"send_input", "send_key", "get_snapshot", "resize", "close"}
  <2>1. FirstStep["send_input"] = "get" /\ FirstStep["send_key"] = "get" /\ FirstStep["get_snapshot"] = "get"
    BY DEF FirstStep
  <2>2. FirstStep["resize"] = "get" /\ FirstStep["close"] = "get"
    BY DEF FirstStep
  <2>3. FirstStep[k] = "get"
    BY <1>2, <2>1, <2>2
  <2>4. DOMAIN AfterGet = {"send_input", "send_key", "get_snapshot", "resize", "close"}
    BY DEF AfterGet
  <2> QED
    BY <1>2, <2>3, <2>4 DEF Steps
<1>3. CASE k = "list"
  <2>1. FirstStep[k] = "rlock"
    BY <1>3 DEF FirstStep
  <2> QED
    BY <1>3, <2>1 DEF Steps, Busy
<1>4. CASE k = "close_all"
  <2>1. FirstStep[k] = "take"
    BY <1>4 DEF FirstStep
  <2> QED
    BY <1>4, <2>1 DEF Steps, Busy
<1> QED
  BY <1>1, <1>2, <1>3, <1>4 DEF Kinds

LEMMA AfterGets ==
  ASSUME NEW k \in DOMAIN AfterGet
  PROVE  AfterGet[k] \in {"write", "snapshot", "resize", "exitcode"}
<1>1. DOMAIN AfterGet = {"send_input", "send_key", "get_snapshot", "resize", "close"}
  BY DEF AfterGet
<1>2. AfterGet["send_input"] = "write" /\ AfterGet["send_key"] = "write" /\ AfterGet["get_snapshot"] = "snapshot"
  BY DEF AfterGet
<1>3. AfterGet["resize"] = "resize" /\ AfterGet["close"] = "exitcode"
  BY DEF AfterGet
<1> QED
  BY <1>1, <1>2, <1>3

\* Every step keeps the types, and operations busy with a session have one.
LEMMA TypesStep ==
  ASSUME Types, [Next]_vars
  PROVE  Types'
<1> USE ShellAssumption DEF Types, TypeOK, Targeted, Busy, Steps, sessionVars, ptyVars, opVars
<1>0. ASSUME NEW o \in Ops, NEW k \in Handlers[o], Begin(o, k) PROVE Types'
  <2>1. k \in Kinds
    BY <1>0
  <2>2. /\ FirstStep[k] \in Steps
        /\ FirstStep[k] \in Busy => k \notin {"list", "close_all"}
        /\ FirstStep[k] = "get" => k \in DOMAIN AfterGet
        /\ FirstStep[k] = "take" => k = "close_all"
        /\ FirstStep[k] = "rlock" => k = "list"
        /\ FirstStep[k] \notin {"next", "info"}
    BY <2>1, FirstSteps
  <2>3. pc' = [pc EXCEPT ![o] = FirstStep[k]] /\ kind' = [kind EXCEPT ![o] = k]
    BY <1>0 DEF Begin, Go
  <2>4. /\ target' \in [Ops -> Sessions \cup {Nobody}]
        /\ \A p \in Ops \ {o} : target'[p] = target[p]
    BY <1>0 DEF Begin
  <2>5. k \notin {"list", "close_all"} => target'[o] \in Sessions
    BY <1>0 DEF Begin
  <2>6. pc' \in [Ops -> Steps] /\ kind' \in [Ops -> Kinds]
    BY <2>1, <2>2, <2>3
  <2>7. TypeOK'
    BY <1>0, <2>4, <2>6 DEF Begin
  <2>8. Targeted'
    BY <2>2, <2>3, <2>4, <2>5
  <2> QED
    BY <2>7, <2>8
<1>1. ASSUME NEW o \in Ops, SpawnStart(o) PROVE Types'
  BY <1>1 DEF SpawnStart, At, Go, S
<1>2. ASSUME NEW o \in Ops, SpawnFails(o) PROVE Types'
  BY <1>2 DEF SpawnFails, At, Go
<1>3. ASSUME NEW o \in Ops, SpawnInsert(o) PROVE Types'
  BY <1>3 DEF SpawnInsert, At, Go, S
<1>4. ASSUME NEW o \in Ops, Get(o) PROVE Types'
  <2>1. UNCHANGED <<table, listers, sessionVars, ptyVars, kind, target, todo, left>> /\ pc[o] = "get"
    BY <1>4 DEF Get, At
  <2>2. \/ pc' = [pc EXCEPT ![o] = AfterGet[kind[o]]]
        \/ pc' = [pc EXCEPT ![o] = "returned"]
    BY <1>4 DEF Get, Go
  <2>3. AfterGet[kind[o]] \in {"write", "snapshot", "resize", "exitcode"}
    BY <2>1, AfterGets
  <2>4. PICK n \in {"write", "snapshot", "resize", "exitcode", "returned"} : pc' = [pc EXCEPT ![o] = n]
    BY <2>2, <2>3
  <2> QED
    BY <2>1, <2>4
<1>5. ASSUME NEW o \in Ops, Remove(o) PROVE Types'
  BY <1>5 DEF Remove, At, Go, S
<1>6. ASSUME NEW o \in Ops, CloseAllTake(o) PROVE Types'
  BY <1>6 DEF CloseAllTake, At, Go
<1>7. ASSUME NEW o \in Ops, CloseAllNext(o) PROVE Types'
  BY <1>7 DEF CloseAllNext, At, Go
<1>8. ASSUME NEW o \in Ops, ListLock(o) PROVE Types'
  BY <1>8 DEF ListLock, At, Go
<1>9. ASSUME NEW o \in Ops, ListInfo(o) PROVE Types'
  BY <1>9 DEF ListInfo, At, Go
<1>10. ASSUME NEW o \in Ops, SendLock(o) PROVE Types'
  BY <1>10 DEF SendLock, At, Go, S, Lock, Free
<1>11. ASSUME NEW o \in Ops, WriteChunk(o) PROVE Types'
  BY <1>11 DEF WriteChunk, At, S
<1>12. ASSUME NEW o \in Ops, WriteDone(o) PROVE Types'
  <2>1. /\ pc[o] = "writing" /\ mu' = [mu EXCEPT ![target[o]] = Nobody]
        /\ \/ pc' = [pc EXCEPT ![o] = "snapshot"] /\ kind' = kind
           \/ pc' = [pc EXCEPT ![o] = "write"] /\ kind' = [kind EXCEPT ![o] = "send_key"]
    BY <1>12 DEF WriteDone, At, Go, Unlock, S
  <2>2. UNCHANGED <<table, listers, closed, ptyVars, target, todo, left>>
    BY <1>12 DEF WriteDone
  <2>3. mu' \in [Sessions -> Ops \cup Sessions \cup {Nobody}]
    BY <2>1
  <2>4. pc' \in [Ops -> Steps] /\ kind' \in [Ops -> Kinds]
    BY <2>1 DEF Kinds
  <2>5. Targeted'
    BY <2>1, <2>2
  <2> QED
    BY <2>2, <2>3, <2>4, <2>5
<1>13. ASSUME NEW o \in Ops, WriteFails(o) PROVE Types'
  BY <1>13 DEF WriteFails, At, Go, S, Unlock
<1>14. ASSUME NEW o \in Ops, Snapshot(o) PROVE Types'
  BY <1>14 DEF Snapshot, At, Go
<1>15. ASSUME NEW o \in Ops, Resize(o) PROVE Types'
  BY <1>15 DEF Resize, At, Go
<1>16. ASSUME NEW o \in Ops, ExitCode(o) PROVE Types'
  BY <1>16 DEF ExitCode, At, Go
<1>17. ASSUME NEW o \in Ops, SessionClose(o) PROVE Types'
  <2>1. UNCHANGED <<table, listers, ptyVars, kind, target, todo, left>> /\ pc[o] = "close"
    BY <1>17 DEF SessionClose, At
  <2>2. CASE closed[target[o]]
    BY <1>17, <2>1, <2>2 DEF SessionClose, Go, S, AfterClose
  <2>3. CASE ~closed[target[o]]
    <3>1. closed' = [closed EXCEPT ![target[o]] = TRUE]
      BY <1>17, <2>3 DEF SessionClose, S
    <3>2. mu' = [mu EXCEPT ![target[o]] = o] /\ pc' = [pc EXCEPT ![o] = "reap"]
      BY <1>17, <2>3 DEF SessionClose, S, Lock, Go
    <3>3. closed' \in [Sessions -> BOOLEAN]
      BY <3>1
    <3>4. mu' \in [Sessions -> Ops \cup Sessions \cup {Nobody}] /\ pc' \in [Ops -> Steps]
      BY <3>2
    <3>5. Targeted'
      BY <2>1, <3>2
    <3> QED
      BY <2>1, <3>3, <3>4, <3>5
  <2> QED
    BY <2>2, <2>3
<1>18. ASSUME NEW o \in Ops, Reap(o) PROVE Types'
  BY <1>18 DEF Reap, At, Go, S, Unlock, AfterClose
<1>19. ASSUME NEW s \in Sessions, ReaderReads(s) PROVE Types'
  BY <1>19 DEF ReaderReads
<1>20. ASSUME NEW s \in Sessions, ReaderWrites(s) PROVE Types'
  BY <1>20 DEF ReaderWrites
<1>21. ASSUME NEW s \in Sessions, ReaderFails(s) PROVE Types'
  BY <1>21 DEF ReaderFails
<1>22. ASSUME NEW s \in Sessions, ReaderWaits(s) PROVE Types'
  BY <1>22 DEF ReaderWaits
<1>23. ASSUME NEW s \in Sessions, ChildReads(s) PROVE Types'
  BY <1>23 DEF ChildReads
<1>24. ASSUME NEW s \in Sessions, ChildPrints(s) PROVE Types'
  BY <1>24 DEF ChildPrints
<1>25. ASSUME NEW s \in Sessions, ChildExits(s) PROVE Types'
  BY <1>25 DEF ChildExits
<1>26. CASE Quiescent \/ UNCHANGED vars
  BY <1>26 DEF Quiescent, vars, sessionVars, ptyVars, opVars
<1> QED
  BY <1>0, <1>1, <1>2, <1>3, <1>4, <1>5, <1>6, <1>7, <1>8, <1>9, <1>10, <1>11,
     <1>12, <1>13, <1>14, <1>15, <1>16, <1>17, <1>18, <1>19, <1>20, <1>21,
     <1>22, <1>23, <1>24, <1>25, <1>26
     DEF Next, Running, Manage, UseSession, ReadLoop

\* Every step hands a session from at most one holder to the next.
LEMMA OwnedStep ==
  ASSUME Types, Owned, [Next]_vars
  PROVE  Owned'
<1> USE ShellAssumption DEF Types, TypeOK, Targeted, Busy, Steps, Owned, Exclusive, Holds, Apart, Locks,
        TableIsOpen, ClosedWasOpen, sessionVars, ptyVars, opVars
<1>0. ASSUME NEW o \in Ops, NEW k \in Handlers[o], Begin(o, k) PROVE Owned'
  <2>1. k \in Kinds /\ pc[o] = "idle" /\ todo' = todo /\ todo[o] = {}
    BY <1>0 DEF Begin, At
  <2>2. FirstStep[k] \notin {"insert", "close", "reap", "writing"}
    BY <2>1, FirstSteps
  <2>3. pc' = [pc EXCEPT ![o] = FirstStep[k]] /\ kind' = [kind EXCEPT ![o] = k]
    BY <1>0 DEF Begin, Go
  <2>4. /\ table' = table /\ child' = child /\ closed' = closed /\ mu' = mu
        /\ \A p \in Ops \ {o} : target'[p] = target[p]
    BY <1>0 DEF Begin
  <2>5. \A s \in Sessions, p \in Ops : Holds(p, s)' <=> Holds(p, s)
    BY <2>1, <2>2, <2>3, <2>4
  <2> QED
    BY <2>1, <2>2, <2>3, <2>4, <2>5
<1>1. ASSUME NEW o \in Ops, SpawnStart(o) PROVE Owned'
  BY <1>1 DEF SpawnStart, At, Go, S
<1>2. ASSUME NEW o \in Ops, SpawnFails(o) PROVE Owned'
  BY <1>2 DEF SpawnFails, At, Go
<1>3. ASSUME NEW o \in Ops, SpawnInsert(o) PROVE Owned'
  BY <1>3 DEF SpawnInsert, At, Go, S
<1>4. ASSUME NEW o \in Ops, Get(o) PROVE Owned'
  <2>1. UNCHANGED <<table, child, closed, mu, target, todo, kind>> /\ pc[o] = "get"
    BY <1>4 DEF Get, At
  <2>2. \/ pc' = [pc EXCEPT ![o] = AfterGet[kind[o]]]
        \/ pc' = [pc EXCEPT ![o] = "returned"]
    BY <1>4 DEF Get, Go
  <2>3. AfterGet[kind[o]] \in {"write", "snapshot", "resize", "exitcode"}
    BY <2>1, AfterGets
  <2>4. PICK n \in {"write", "snapshot", "resize", "exitcode", "returned"} : pc' = [pc EXCEPT ![o] = n]
    BY <2>2, <2>3
  <2> QED
    BY <2>1, <2>4
<1>5. ASSUME NEW o \in Ops, Remove(o) PROVE Owned'
  BY <1>5 DEF Remove, At, Go, S
<1>6. ASSUME NEW o \in Ops, CloseAllTake(o) PROVE Owned'
  BY <1>6 DEF CloseAllTake, At, Go
<1>7. ASSUME NEW o \in Ops, CloseAllNext(o) PROVE Owned'
  <2>1. UNCHANGED <<table, child, closed, mu, kind>> /\ pc[o] = "next"
    BY <1>7 DEF CloseAllNext, At
  <2>2. CASE \E s \in todo[o] : /\ todo' = [todo EXCEPT ![o] = @ \ {s}]
                              /\ target' = [target EXCEPT ![o] = s]
                              /\ pc' = [pc EXCEPT ![o] = "close"]
    <3>1. PICK s \in todo[o] : /\ todo' = [todo EXCEPT ![o] = @ \ {s}]
                              /\ target' = [target EXCEPT ![o] = s]
                              /\ pc' = [pc EXCEPT ![o] = "close"]
      BY <2>2
    <3>2. kind[o] = "close_all" /\ s \in Sessions
      BY <2>1, <3>1
    <3>3. \A t \in Sessions, p \in Ops : Holds(p, t)' <=> Holds(p, t)
      BY <2>1, <3>1, <3>2
    <3>4. Exclusive'
      BY <2>1, <3>1, <3>3
    <3>5. Apart'
      BY <2>1, <3>1
    <3>6. Locks' /\ ClosedWasOpen' /\ TableIsOpen'
      BY <2>1, <3>1
    <3> QED
      BY <3>4, <3>5, <3>6
  <2>3. CASE pc' = [pc EXCEPT ![o] = "returned"] /\ UNCHANGED <<target, todo>>
    BY <2>1, <2>3
  <2> QED
    BY <1>7, <2>2, <2>3 DEF CloseAllNext, Go
<1>8. ASSUME NEW o \in Ops, ListLock(o) PROVE Owned'
  BY <1>8 DEF ListLock, At, Go
<1>9. ASSUME NEW o \in Ops, ListInfo(o) PROVE Owned'
  BY <1>9 DEF ListInfo, At, Go
<1>10. ASSUME NEW o \in Ops, SendLock(o) PROVE Owned'
  BY <1>10 DEF SendLock, At, Go, S, Lock, Free
<1>11. ASSUME NEW o \in Ops, WriteChunk(o) PROVE Owned'
  BY <1>11 DEF WriteChunk, At, S
<1>12. ASSUME NEW o \in Ops, WriteDone(o) PROVE Owned'
  BY <1>12 DEF WriteDone, At, Go, S, Unlock
<1>13. ASSUME NEW o \in Ops, WriteFails(o) PROVE Owned'
  BY <1>13 DEF WriteFails, At, Go, S, Unlock
<1>14. ASSUME NEW o \in Ops, Snapshot(o) PROVE Owned'
  BY <1>14 DEF Snapshot, At, Go
<1>15. ASSUME NEW o \in Ops, Resize(o) PROVE Owned'
  BY <1>15 DEF Resize, At, Go
<1>16. ASSUME NEW o \in Ops, ExitCode(o) PROVE Owned'
  BY <1>16 DEF ExitCode, At, Go
<1>17. ASSUME NEW o \in Ops, SessionClose(o) PROVE Owned'
  BY <1>17 DEF SessionClose, At, Go, S, Lock, Free, AfterClose
<1>18. ASSUME NEW o \in Ops, Reap(o) PROVE Owned'
  BY <1>18 DEF Reap, At, Go, S, Unlock, AfterClose
<1>19. ASSUME NEW s \in Sessions, ReaderReads(s) PROVE Owned'
  BY <1>19 DEF ReaderReads
<1>20. ASSUME NEW s \in Sessions, ReaderWrites(s) PROVE Owned'
  BY <1>20 DEF ReaderWrites
<1>21. ASSUME NEW s \in Sessions, ReaderFails(s) PROVE Owned'
  BY <1>21 DEF ReaderFails
<1>22. ASSUME NEW s \in Sessions, ReaderWaits(s) PROVE Owned'
  BY <1>22 DEF ReaderWaits
<1>23. ASSUME NEW s \in Sessions, ChildReads(s) PROVE Owned'
  BY <1>23 DEF ChildReads
<1>24. ASSUME NEW s \in Sessions, ChildPrints(s) PROVE Owned'
  BY <1>24 DEF ChildPrints
<1>25. ASSUME NEW s \in Sessions, ChildExits(s) PROVE Owned'
  BY <1>25 DEF ChildExits
<1>26. CASE Quiescent \/ UNCHANGED vars
  BY <1>26 DEF Quiescent, vars, sessionVars, ptyVars, opVars
<1> QED
  BY <1>0, <1>1, <1>2, <1>3, <1>4, <1>5, <1>6, <1>7, <1>8, <1>9, <1>10, <1>11,
     <1>12, <1>13, <1>14, <1>15, <1>16, <1>17, <1>18, <1>19, <1>20, <1>21,
     <1>22, <1>23, <1>24, <1>25, <1>26
     DEF Next, Running, Manage, UseSession, ReadLoop


-----------------------------------------------------------------------------
\* The inductive invariant holds in every reachable state.
THEOREM SessionsInvariant == Spec => []SInv
<1>1. Init => SInv
  BY InitSInv
<1>2. SInv /\ [Next]_vars => SInv'
  BY TypesStep, OwnedStep DEF SInv
<1> QED
  BY <1>1, <1>2, PTL DEF Spec

\* Every variable of the session table keeps its type.
THEOREM SessionsTypeCorrect == Spec => []TypeOK
<1>1. SInv => TypeOK
  BY DEF SInv, Types
<1> QED
  BY <1>1, SessionsInvariant, PTL

\* The table holds only sessions that run or ran and that nobody has begun to
\* close: Manager.Get and List hand out no session that Close or CloseAll has.
THEOREM TableStaysOpen == Spec => []TableIsOpen
<1>1. SInv => TableIsOpen
  BY DEF SInv, Owned
<1> QED
  BY <1>1, SessionsInvariant, PTL

\* Manager.Close and CloseAll together hand each session to one closer, once.
THEOREM OneCloser == Spec => []HandedToOne
<1>1. SInv => HandedToOne
  <2> SUFFICES ASSUME SInv, NEW s \in Sessions
               PROVE  /\ \A o, p \in Closers(s) : o = p
                      /\ s \in table \/ (closed[s] /\ Free(s)) => Closers(s) = {}
    BY DEF HandedToOne
  <2>1. \A o \in Closers(s) : o \in Ops /\ Holds(o, s)
    BY DEF Closers, Holds, S
  <2>2. \A o, p \in Closers(s) : o = p
    BY <2>1 DEF SInv, Owned, Exclusive
  <2>3. s \in table => Closers(s) = {}
    BY <2>1 DEF SInv, Owned, Exclusive
  <2>4. ASSUME closed[s], Free(s), NEW o \in Closers(s) PROVE FALSE
    <3>1. pc[o] = "reap" /\ target[o] = s
      BY <2>1, <2>4 DEF SInv, Owned, Exclusive
    <3>2. mu[s] = o
      BY <2>1, <3>1 DEF SInv, Owned, Locks
    <3> QED
      BY <2>1, <2>4, <3>2, ShellAssumption DEF Free
  <2> QED
    BY <2>2, <2>3, <2>4
<1> QED
  BY <1>1, SessionsInvariant, PTL
=============================================================================
