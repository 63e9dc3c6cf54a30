------------------------- MODULE ServerProcessProofs -------------------------
(***************************************************************************)
(* Theorems about Lifecycle and ServerProcess, for any finite set of       *)
(* connections, any number of timer callbacks and any number of users.     *)
(* All of it holds however the operations of the lifecycle overlap.        *)
(***************************************************************************)
EXTENDS ServerProcess, FiniteSetTheorems, TLAPS

\* The accept loop holds a connection from Accept to StartSession, or to the
\* refusal, and holds none elsewhere.
Holding == {"admitting", "adding", "activating", "pausing", "spawning"}

HeldIsAccepted ==
  /\ acceptor \in Holding => cur \in Conns /\ conn[cur] = "accepted"
  /\ acceptor \notin Holding => cur = NoConn
  /\ \A c \in Conns : conn[c] = "accepted" => c = cur

\* The inductive invariant: without HeldIsAccepted a connection could be
\* started twice and Counted would not follow count.
LInv == TypeOK /\ HeldIsAccepted /\ CountBounded /\ DrainedOnReturn

LEMMA InitLInv == Init => LInv
  <1> SUFFICES ASSUME Init PROVE LInv
    OBVIOUS
  <1>a. conn \in [Conns -> ConnSteps]
    BY DEF Init, ConnSteps
  <1>b. caller \in [Callers -> CallerSteps]
    BY DEF Init, CallerSteps
  <1>c. acceptor \in AcceptorSteps /\ state \in States
    BY DEF Init, AcceptorSteps, States
  <1>d. watcher \in {"off", "polling", "storing", "closing", "over"}
    BY DEF Init
  <1>e. once \in {"no", "running", "done"} /\ count \in Int /\ cur \in Conns \cup {NoConn}
    BY DEF Init
  <1>f. /\ armed \in BOOLEAN /\ shutdownDone \in BOOLEAN /\ ctxDone \in BOOLEAN /\ listening \in BOOLEAN
    BY DEF Init
  <1>0. TypeOK
    BY <1>a, <1>b, <1>c, <1>d, <1>e, <1>f DEF TypeOK
  <1>1. HeldIsAccepted /\ DrainedOnReturn
    BY DEF Init, HeldIsAccepted, DrainedOnReturn, Holding
  <1>2. Counted = {} /\ Zeroing = {}
    BY DEF Init, Counted, Zeroing
  <1>3. CountBounded
    BY <1>2, FS_EmptySet, LifecycleAssumption DEF Init, CountBounded
  <1> QED
    BY <1>0, <1>1, <1>3 DEF LInv

\* Cardinalities of the sets CountBounded speaks of.
LEMMA CountedFinite ==
         /\ IsFiniteSet(Counted) /\ Cardinality(Counted) \in Nat
         /\ IsFiniteSet(Zeroing) /\ Cardinality(Zeroing) \in Nat
  <1>1. Counted \subseteq Conns /\ Zeroing \subseteq Conns
    BY DEF Counted, Zeroing
  <1> QED
    BY <1>1, LifecycleAssumption, FS_Subset, FS_CardinalityType

-----------------------------------------------------------------------------
\* Closing the listener touches the queued connections only.
LEMMA CloseListenerType ==
  ASSUME TypeOK, HeldIsAccepted, CloseListener
  PROVE  TypeOK' /\ HeldIsAccepted'
  <1>1. conn' \in [Conns -> ConnSteps]
    BY DEF CloseListener, Refuse, TypeOK, ConnSteps
  <1>2. \A c \in Conns : conn[c] = "accepted" <=> conn'[c] = "accepted"
    BY DEF CloseListener, Refuse, TypeOK, ConnSteps
  <1>3. /\ listening' \in BOOLEAN
        /\ UNCHANGED <<state, count, armed, once, watcher, shutdownDone, ctxDone,
                       acceptor, cur, caller>>
    BY DEF CloseListener, lcVars, stopVars
  <1>4. TypeOK'
    BY <1>1, <1>3 DEF TypeOK
  <1>5. HeldIsAccepted'
    BY <1>2, <1>3 DEF HeldIsAccepted
  <1> QED
    BY <1>4, <1>5

\* Every action keeps the types and the hold of the accept loop.
LEMMA TypeStep ==
  ASSUME TypeOK, HeldIsAccepted, [Next]_vars
  PROVE  TypeOK' /\ HeldIsAccepted'
  <1> USE LifecycleAssumption DEF TypeOK, HeldIsAccepted, Holding, States, AcceptorSteps,
        ConnSteps, CallerSteps, Callers, lcVars, stopVars, netVars, GoAccept, GoConn, GoCaller
  <1>1. CASE SetReady
    BY <1>1 DEF SetReady
  <1>2. CASE StartIdleTimer
    BY <1>2 DEF StartIdleTimer
  <1>3. CASE Admit
    BY <1>3 DEF Admit
  <1>4. CASE OpenedAdd
    BY <1>4 DEF OpenedAdd
  <1>5. CASE OpenedActivate
    BY <1>5 DEF OpenedActivate
  <1>6. CASE PauseIdleTimer
    BY <1>6 DEF PauseIdleTimer
  <1>7. CASE StartSession
    BY <1>7 DEF StartSession
  <1>8. CASE Return
    BY <1>8 DEF Return, Refuse
  <1>9. CASE AcceptFails
    BY <1>9 DEF AcceptFails
  <1>10. CASE WatcherSees
    BY <1>10 DEF WatcherSees
  <1>11. CASE WatcherStops
    BY <1>11 DEF WatcherStops
  <1>12. CASE WatcherSignals
    BY <1>12 DEF WatcherSignals
  <1>13. CASE Quit
    BY <1>13 DEF Quit
  <1>14. CASE CloseListener
    BY <1>14, CloseListenerType
  <1>15. ASSUME NEW c \in Conns, Accept(c) PROVE TypeOK' /\ HeldIsAccepted'
    BY <1>15 DEF Accept
  <1>16. ASSUME NEW c \in Conns, Dial(c) PROVE TypeOK' /\ HeldIsAccepted'
    BY <1>16 DEF Dial
  <1>17. ASSUME NEW c \in Conns, SessionEnds(c) PROVE TypeOK' /\ HeldIsAccepted'
    BY <1>17 DEF SessionEnds
  <1>18. ASSUME NEW c \in Conns, ClosedAdd(c) PROVE TypeOK' /\ HeldIsAccepted'
    BY <1>18 DEF ClosedAdd
  <1>19. ASSUME NEW c \in Conns, ClosedZero(c) PROVE TypeOK' /\ HeldIsAccepted'
    BY <1>19 DEF ClosedZero
  <1>20. ASSUME NEW c \in Conns, ClosedCheck(c) PROVE TypeOK' /\ HeldIsAccepted'
    BY <1>20 DEF ClosedCheck
  <1>21. ASSUME NEW c \in Conns, ClosedReady(c) PROVE TypeOK' /\ HeldIsAccepted'
    BY <1>21 DEF ClosedReady
  <1>22. ASSUME NEW c \in Conns, ResumeIdleTimer(c) PROVE TypeOK' /\ HeldIsAccepted'
    BY <1>22 DEF ResumeIdleTimer
  <1>23. ASSUME NEW c \in Conns, SessionDone(c) PROVE TypeOK' /\ HeldIsAccepted'
    BY <1>23 DEF SessionDone
  <1>24. ASSUME NEW k \in Callbacks, TimerFires(k) PROVE TypeOK' /\ HeldIsAccepted'
    <2>1. caller' \in [Callers -> CallerSteps]
      BY <1>24 DEF TimerFires
    <2>2. armed' \in BOOLEAN
      BY <1>24 DEF TimerFires
    <2>3. UNCHANGED <<state, count, stopVars, netVars, acceptor, cur, conn>>
      BY <1>24 DEF TimerFires
    <2> QED
      BY <2>1, <2>2, <2>3
  <1>25. ASSUME NEW k \in Callbacks, CallbackReadsCount(k) PROVE TypeOK' /\ HeldIsAccepted'
    BY <1>25 DEF CallbackReadsCount
  <1>26. ASSUME NEW k \in Callbacks, CallbackReadsState(k) PROVE TypeOK' /\ HeldIsAccepted'
    BY <1>26 DEF CallbackReadsState
  <1>27. ASSUME NEW u \in Users, UserStop(u) PROVE TypeOK' /\ HeldIsAccepted'
    BY <1>27 DEF UserStop
  <1>28. ASSUME NEW k \in Callers, InitiateShutdown(k) PROVE TypeOK' /\ HeldIsAccepted'
    BY <1>28 DEF InitiateShutdown
  <1>29. ASSUME NEW k \in Callers, OnShutdown(k) PROVE TypeOK' /\ HeldIsAccepted'
    BY <1>29 DEF OnShutdown
  <1>30. ASSUME NEW k \in Callers, StartWatcher(k) PROVE TypeOK' /\ HeldIsAccepted'
    BY <1>30 DEF StartWatcher
  <1>31. CASE Terminated
    BY <1>31 DEF Terminated, vars
  <1>32. CASE UNCHANGED vars
    BY <1>32 DEF vars
  <1> QED
    BY <1>1, <1>2, <1>3, <1>4, <1>5, <1>6, <1>7, <1>8, <1>9, <1>10, <1>11, <1>12, <1>13, <1>14, <1>15, <1>16, <1>17, <1>18, <1>19, <1>20, <1>21, <1>22, <1>23, <1>24, <1>25, <1>26, <1>27, <1>28, <1>29, <1>30, <1>31, <1>32
       DEF Next, Goroutines, AcceptStep, Leave, Initiate, Callback, Watcher

\* A step that touches neither connCount nor the sets it is compared with.
SameCount == UNCHANGED <<count, Counted, Zeroing>>

\* connCount moves with the set it counts: an open adds a connection that is
\* not counted yet, a close subtracts one that is, and nothing else touches
\* the count but the zero a close may store.
LEMMA CountedStep ==
  ASSUME LInv, [Next]_vars
  PROVE  \/ /\ OpenedAdd
            /\ cur \in Conns \ Counted
            /\ Counted' = Counted \cup {cur}
            /\ Zeroing' = Zeroing
         \/ \E c \in Conns :
              /\ ClosedAdd(c)
              /\ c \in Counted \ Zeroing
              /\ Counted' = Counted \ {c}
              /\ Zeroing' = IF count' <= 0 THEN Zeroing \cup {c} ELSE Zeroing
         \/ \E c \in Zeroing :
              /\ ClosedZero(c)
              /\ Counted' = Counted
              /\ Zeroing' = Zeroing \ {c}
         \/ SameCount
  <1> USE DEF LInv, TypeOK, HeldIsAccepted, Holding, lcVars, stopVars, netVars,
              GoAccept, GoConn, GoCaller
  <1>1. ASSUME OpenedAdd
        PROVE  cur \in Conns \ Counted /\ Counted' = Counted \cup {cur} /\ Zeroing' = Zeroing
    BY <1>1 DEF OpenedAdd, Counted, Zeroing
  <1>2. ASSUME NEW c \in Conns, ClosedAdd(c)
        PROVE  /\ c \in Counted \ Zeroing
               /\ Counted' = Counted \ {c}
               /\ Zeroing' = IF count' <= 0 THEN Zeroing \cup {c} ELSE Zeroing
    <2>1. c \in Counted \ Zeroing /\ Counted' = Counted \ {c}
      BY <1>2 DEF ClosedAdd, Counted, Zeroing
    <2>2. ASSUME count' <= 0 PROVE Zeroing' = Zeroing \cup {c}
      BY <1>2, <2>2 DEF ClosedAdd, Zeroing
    <2>3. ASSUME ~(count' <= 0) PROVE Zeroing' = Zeroing
      BY <1>2, <2>3 DEF ClosedAdd, Zeroing
    <2> QED
      BY <2>1, <2>2, <2>3
  <1>3. ASSUME NEW c \in Conns, ClosedZero(c)
        PROVE  c \in Zeroing /\ Counted' = Counted /\ Zeroing' = Zeroing \ {c}
    BY <1>3 DEF ClosedZero, Counted, Zeroing
  <1>4. ASSUME SetReady PROVE SameCount
    BY <1>4 DEF SameCount, SetReady, Counted, Zeroing
  <1>5. ASSUME StartIdleTimer PROVE SameCount
    BY <1>5 DEF SameCount, StartIdleTimer, Counted, Zeroing
  <1>6. ASSUME Admit PROVE SameCount
    BY <1>6 DEF SameCount, Admit, Counted, Zeroing
  <1>7. ASSUME OpenedActivate PROVE SameCount
    BY <1>7 DEF SameCount, OpenedActivate, Counted, Zeroing
  <1>8. ASSUME PauseIdleTimer PROVE SameCount
    BY <1>8 DEF SameCount, PauseIdleTimer, Counted, Zeroing
  <1>9. ASSUME StartSession PROVE SameCount
    BY <1>9 DEF SameCount, StartSession, Counted, Zeroing
  <1>10. ASSUME Return PROVE SameCount
    BY <1>10 DEF SameCount, Return, Refuse, Counted, Zeroing
  <1>11. ASSUME AcceptFails PROVE SameCount
    BY <1>11 DEF SameCount, AcceptFails, Counted, Zeroing
  <1>12. ASSUME WatcherSees PROVE SameCount
    BY <1>12 DEF SameCount, WatcherSees, Counted, Zeroing
  <1>13. ASSUME WatcherStops PROVE SameCount
    BY <1>13 DEF SameCount, WatcherStops, Counted, Zeroing
  <1>14. ASSUME WatcherSignals PROVE SameCount
    BY <1>14 DEF SameCount, WatcherSignals, Counted, Zeroing
  <1>15. ASSUME Quit PROVE SameCount
    BY <1>15 DEF SameCount, Quit, Counted, Zeroing
  <1>16. ASSUME CloseListener PROVE SameCount
    BY <1>16 DEF SameCount, CloseListener, Refuse, Counted, Zeroing
  <1>17. ASSUME NEW c \in Conns, Accept(c) PROVE SameCount
    BY <1>17 DEF SameCount, Accept, Counted, Zeroing
  <1>18. ASSUME NEW c \in Conns, Dial(c) PROVE SameCount
    BY <1>18 DEF SameCount, Dial, Counted, Zeroing
  <1>19. ASSUME NEW c \in Conns, SessionEnds(c) PROVE SameCount
    BY <1>19 DEF SameCount, SessionEnds, Counted, Zeroing
  <1>20. ASSUME NEW c \in Conns, ClosedCheck(c) PROVE SameCount
    BY <1>20 DEF SameCount, ClosedCheck, Counted, Zeroing
  <1>21. ASSUME NEW c \in Conns, ClosedReady(c) PROVE SameCount
    BY <1>21 DEF SameCount, ClosedReady, Counted, Zeroing
  <1>22. ASSUME NEW c \in Conns, ResumeIdleTimer(c) PROVE SameCount
    BY <1>22 DEF SameCount, ResumeIdleTimer, Counted, Zeroing
  <1>23. ASSUME NEW c \in Conns, SessionDone(c) PROVE SameCount
    BY <1>23 DEF SameCount, SessionDone, Counted, Zeroing
  <1>24. ASSUME NEW k \in Callbacks, TimerFires(k) PROVE SameCount
    BY <1>24 DEF SameCount, TimerFires, Counted, Zeroing
  <1>25. ASSUME NEW k \in Callbacks, CallbackReadsCount(k) PROVE SameCount
    BY <1>25 DEF SameCount, CallbackReadsCount, Counted, Zeroing
  <1>26. ASSUME NEW k \in Callbacks, CallbackReadsState(k) PROVE SameCount
    BY <1>26 DEF SameCount, CallbackReadsState, Counted, Zeroing
  <1>27. ASSUME NEW u \in Users, UserStop(u) PROVE SameCount
    BY <1>27 DEF SameCount, UserStop, Counted, Zeroing
  <1>28. ASSUME NEW k \in Callers, InitiateShutdown(k) PROVE SameCount
    BY <1>28 DEF SameCount, InitiateShutdown, Counted, Zeroing
  <1>29. ASSUME NEW k \in Callers, OnShutdown(k) PROVE SameCount
    BY <1>29 DEF SameCount, OnShutdown, Counted, Zeroing
  <1>30. ASSUME NEW k \in Callers, StartWatcher(k) PROVE SameCount
    BY <1>30 DEF SameCount, StartWatcher, Counted, Zeroing
  <1>31. ASSUME Terminated \/ UNCHANGED vars PROVE SameCount
    BY <1>31 DEF SameCount, Terminated, vars, Counted, Zeroing
  <1> QED
    BY <1>1, <1>2, <1>3, <1>4, <1>5, <1>6, <1>7, <1>8, <1>9, <1>10, <1>11, <1>12, <1>13, <1>14, <1>15, <1>16, <1>17, <1>18, <1>19, <1>20, <1>21, <1>22, <1>23, <1>24, <1>25, <1>26, <1>27, <1>28, <1>29, <1>30, <1>31
       DEF Next, Goroutines, AcceptStep, Leave, Initiate, Callback, Watcher

\* CountBounded, from what a step does to the count and its sets.
LEMMA CountStep ==
  ASSUME LInv, [Next]_vars
  PROVE  CountBounded'
  <1> USE DEF LInv, TypeOK
  <1>1. CASE OpenedAdd /\ cur \in Conns \ Counted /\ Counted' = Counted \cup {cur} /\ Zeroing' = Zeroing
    <2>1. Cardinality(Counted') = Cardinality(Counted) + 1
      BY <1>1, CountedFinite, FS_AddElement
    <2> QED
      BY <1>1, <2>1, CountedFinite DEF OpenedAdd, CountBounded
  <1>2. ASSUME NEW c \in Conns, ClosedAdd(c), c \in Counted \ Zeroing, Counted' = Counted \ {c},
               Zeroing' = IF count' <= 0 THEN Zeroing \cup {c} ELSE Zeroing
        PROVE  CountBounded'
    <2>1. Cardinality(Counted') = Cardinality(Counted) - 1
      BY <1>2, CountedFinite, FS_RemoveElement
    <2>2. CASE count' <= 0
      <3>1. Cardinality(Zeroing') = Cardinality(Zeroing) + 1
        BY <1>2, <2>2, CountedFinite, FS_AddElement
      <3> QED
        BY <1>2, <2>1, <3>1, CountedFinite DEF ClosedAdd, CountBounded
    <2>3. CASE ~(count' <= 0)
      BY <1>2, <2>1, <2>3, CountedFinite DEF ClosedAdd, CountBounded
    <2> QED
      BY <2>2, <2>3
  <1>3. ASSUME NEW c \in Zeroing, ClosedZero(c), Counted' = Counted, Zeroing' = Zeroing \ {c}
        PROVE  CountBounded'
    <2>1. Cardinality(Zeroing') = Cardinality(Zeroing) - 1 /\ Cardinality(Zeroing') \in Nat
      BY <1>3, CountedFinite, FS_RemoveElement, FS_CardinalityType
    <2> QED
      BY <1>3, <2>1, CountedFinite DEF ClosedZero, CountBounded
  <1>4. CASE SameCount
    BY <1>4 DEF SameCount, CountBounded
  <1> QED
    BY <1>1, <1>2, <1>3, <1>4, CountedStep

-----------------------------------------------------------------------------
\* The sessions still running are the ones the wait group counts; after the
\* return no connection is accepted, so none starts.
LEMMA DrainStep ==
  ASSUME LInv, [Next]_vars
  PROVE  DrainedOnReturn'
  <1> USE DEF LInv, TypeOK, HeldIsAccepted, Holding, DrainedOnReturn, ConnSteps,
              lcVars, stopVars, netVars, GoAccept, GoConn, GoCaller
  <1>1. CASE Return
    <2>1. ASSUME NEW c \in Conns PROVE conn'[c] \in {"idle", "queued", "refused", "closed"}
      <3>1. conn[c] \notin {"serving", "leaving", "zeroing", "checking", "readying", "resuming", "ended"}
        BY <1>1 DEF Return, InWaitGroup
      <3>2. conn[c] # "accepted"
        BY <1>1, LifecycleAssumption DEF Return
      <3>3. conn[c] \in {"idle", "queued", "refused", "closed"}
        BY <3>1, <3>2
      <3> QED
        BY <1>1, <3>3 DEF Return, Refuse
    <2> QED
      BY <2>1
  <1>2. CASE AcceptStep /\ ~Return
    BY <1>2 DEF AcceptStep, SetReady, StartIdleTimer, Admit, OpenedAdd, OpenedActivate, PauseIdleTimer, StartSession
  <1>3. CASE AcceptFails \/ Quit
    BY <1>3 DEF AcceptFails, Quit
  <1>4. CASE Watcher
    BY <1>4 DEF Watcher, WatcherSees, WatcherStops, WatcherSignals
  <1>5. CASE CloseListener
    BY <1>5 DEF CloseListener, Refuse
  <1>6. ASSUME NEW c \in Conns, Accept(c) PROVE DrainedOnReturn'
    BY <1>6 DEF Accept
  <1>7. ASSUME NEW c \in Conns, Dial(c) PROVE DrainedOnReturn'
    BY <1>7 DEF Dial
  <1>8. ASSUME NEW c \in Conns, SessionEnds(c) PROVE DrainedOnReturn'
    BY <1>8 DEF SessionEnds
  <1>9. ASSUME NEW c \in Conns, Leave(c) PROVE DrainedOnReturn'
    BY <1>9 DEF Leave, ClosedAdd, ClosedZero, ClosedCheck, ClosedReady,
       ResumeIdleTimer, SessionDone
  <1>10. ASSUME NEW k \in Callbacks, TimerFires(k) \/ Callback(k) PROVE DrainedOnReturn'
    BY <1>10 DEF TimerFires, Callback, CallbackReadsCount, CallbackReadsState
  <1>11. ASSUME NEW u \in Users, UserStop(u) PROVE DrainedOnReturn'
    BY <1>11 DEF UserStop
  <1>12. ASSUME NEW k \in Callers, Initiate(k) PROVE DrainedOnReturn'
    BY <1>12 DEF Initiate, InitiateShutdown, OnShutdown, StartWatcher
  <1>13. CASE Terminated \/ UNCHANGED vars
    BY <1>13 DEF Terminated, vars
  <1> QED
    BY <1>1, <1>2, <1>3, <1>4, <1>5, <1>6, <1>7, <1>8, <1>9, <1>10, <1>11, <1>12, <1>13
       DEF Next, Goroutines

\* The inductive invariant holds in every reachable state.
THEOREM LInvariant == Spec => []LInv
  <1>1. Init => LInv
    BY InitLInv
  <1>2. LInv /\ [Next]_vars => LInv'
    BY TypeStep, CountStep, DrainStep DEF LInv
  <1> QED
    BY <1>1, <1>2, PTL DEF Spec

\* Every variable of the lifecycle keeps its type.
THEOREM TypeCorrect == Spec => []TypeOK
  <1>1. LInv => TypeOK
    BY DEF LInv
  <1> QED
    BY <1>1, LInvariant, PTL

\* However opens, closes and idle callbacks interleave, connCount never
\* exceeds the connections that were opened and not closed, and is negative
\* only while a ConnectionClosed has its zero still to store.
THEOREM CountIsBounded == Spec => []CountBounded
  <1>1. LInv => CountBounded
    BY DEF LInv
  <1> QED
    BY <1>1, LInvariant, PTL

\* runMCPServer returns only when every session goroutine is past wg.Done.
THEOREM ReturnIsDrained == Spec => []DrainedOnReturn
  <1>1. LInv => DrainedOnReturn
    BY DEF LInv
  <1> QED
    BY <1>1, LInvariant, PTL

-----------------------------------------------------------------------------
(* The state word, whatever overlaps.                                       *)

\* Until a shutdown begins nobody stores a state of the shutdown; what Return
\* closed stays closed.
StateKnown ==
  /\ once = "no" =>
       /\ watcher = "off"
       /\ \A k \in Callers : caller[k] \notin {"cancel", "watch"}
       /\ state \in {"Starting", "Ready", "Active"}
       /\ state = "Starting" => acceptor = "starting"
  /\ acceptor = "done" => ctxDone /\ ~listening

\* A server with nobody left that still says Active has a ConnectionClosed on
\* its way to say otherwise.
ActiveSettles ==
  once = "no" /\ state = "Active" /\ Counted = {} => Settling # {}

LEMMA InitStateKnown == Init => StateKnown /\ ActiveSettles
  BY DEF Init, StateKnown, ActiveSettles

LEMMA StateKnownStep ==
  ASSUME LInv, StateKnown, [Next]_vars
  PROVE  StateKnown'
<1> USE LifecycleAssumption
    DEF LInv, TypeOK, StateKnown, ConnSteps, Callers, lcVars, stopVars, netVars,
        GoAccept, GoConn, GoCaller
<1>1. CASE SetReady
  BY <1>1 DEF SetReady
<1>2. CASE StartIdleTimer
  BY <1>2 DEF StartIdleTimer
<1>3. CASE Admit
  BY <1>3 DEF Admit
<1>4. CASE OpenedAdd
  BY <1>4 DEF OpenedAdd
<1>5. CASE OpenedActivate
  BY <1>5 DEF OpenedActivate
<1>6. CASE PauseIdleTimer
  BY <1>6 DEF PauseIdleTimer
<1>7. CASE StartSession
  BY <1>7 DEF StartSession
<1>8. CASE Return
  BY <1>8 DEF Return
<1>9. CASE AcceptFails
  BY <1>9 DEF AcceptFails
<1>10. ASSUME NEW c \in Conns, Accept(c) PROVE StateKnown'
  BY <1>10 DEF Accept
<1>11. ASSUME NEW c \in Conns, Dial(c) PROVE StateKnown'
  BY <1>11 DEF Dial
<1>12. ASSUME NEW c \in Conns, SessionEnds(c) PROVE StateKnown'
  BY <1>12 DEF SessionEnds
<1>13. ASSUME NEW c \in Conns, ClosedAdd(c) PROVE StateKnown'
  BY <1>13 DEF ClosedAdd
<1>14. ASSUME NEW c \in Conns, ClosedZero(c) PROVE StateKnown'
  BY <1>14 DEF ClosedZero
<1>15. ASSUME NEW c \in Conns, ClosedCheck(c) PROVE StateKnown'
  BY <1>15 DEF ClosedCheck
<1>16. ASSUME NEW c \in Conns, ClosedReady(c) PROVE StateKnown'
  BY <1>16 DEF ClosedReady
<1>17. ASSUME NEW c \in Conns, ResumeIdleTimer(c) PROVE StateKnown'
  BY <1>17 DEF ResumeIdleTimer
<1>18. ASSUME NEW c \in Conns, SessionDone(c) PROVE StateKnown'
  BY <1>18 DEF SessionDone
<1>19. ASSUME NEW k \in Callbacks, TimerFires(k) PROVE StateKnown'
  BY <1>19 DEF TimerFires
<1>20. ASSUME NEW k \in Callbacks, CallbackReadsCount(k) PROVE StateKnown'
  BY <1>20 DEF CallbackReadsCount
<1>21. ASSUME NEW k \in Callbacks, CallbackReadsState(k) PROVE StateKnown'
  BY <1>21 DEF CallbackReadsState
<1>22. ASSUME NEW u \in Users, UserStop(u) PROVE StateKnown'
  BY <1>22 DEF UserStop
<1>23. ASSUME NEW k \in Callers, InitiateShutdown(k) PROVE StateKnown'
  BY <1>23 DEF InitiateShutdown
<1>24. ASSUME NEW k \in Callers, OnShutdown(k) PROVE StateKnown'
  BY <1>24 DEF OnShutdown
<1>25. ASSUME NEW k \in Callers, StartWatcher(k) PROVE StateKnown'
  BY <1>25 DEF StartWatcher
<1>26. CASE WatcherSees
  BY <1>26 DEF WatcherSees
<1>27. CASE WatcherStops
  BY <1>27 DEF WatcherStops
<1>28. CASE WatcherSignals
  BY <1>28 DEF WatcherSignals
<1>29. CASE CloseListener
  BY <1>29 DEF CloseListener
<1>30. CASE Quit
  BY <1>30 DEF Quit
<1>31. CASE Terminated \/ UNCHANGED vars
  BY <1>31 DEF Terminated, vars
<1> QED
  BY <1>1, <1>2, <1>3, <1>4, <1>5, <1>6, <1>7, <1>8, <1>9, <1>10,
     <1>11, <1>12, <1>13, <1>14, <1>15, <1>16, <1>17, <1>18, <1>19,
     <1>20, <1>21, <1>22, <1>23, <1>24, <1>25, <1>26, <1>27, <1>28,
     <1>29, <1>30, <1>31
     DEF Next, Goroutines, AcceptStep, Leave, Initiate, Callback, Watcher


\* The state is stored Active by an open, whose connection is counted.
LEMMA ActiveSettlesStep ==
  ASSUME LInv, StateKnown, ActiveSettles, [Next]_vars
  PROVE  ActiveSettles'
<1> DEFINE Same == Counted' = Counted /\ Settling' = Settling
<1>a. ASSUME Same, state' = state \/ state' # "Active", once' = once \/ once' # "no"
      PROVE  ActiveSettles'
  BY <1>a DEF ActiveSettles
<1>b. ASSUME NEW c \in Conns, conn'[c] \in {"zeroing", "checking", "readying"}
      PROVE  ActiveSettles'
  BY <1>b DEF ActiveSettles, Settling
<1>c. ASSUME NEW c \in Conns, c \in Counted'
      PROVE  ActiveSettles'
  BY <1>c DEF ActiveSettles
<1> USE DEF LInv, TypeOK, lcVars, stopVars, netVars, GoAccept, GoConn, GoCaller
<1>1. CASE SetReady
  <2>1. Same
    BY <1>1 DEF SetReady, Counted, Settling
  <2>2. /\ state' = state \/ state' # "Active"
        /\ once' = once \/ once' # "no"
    BY <1>1 DEF SetReady
  <2> QED
    BY <1>a, <2>1, <2>2
<1>2. CASE StartIdleTimer
  <2>1. Same
    BY <1>2 DEF StartIdleTimer, Counted, Settling
  <2>2. /\ state' = state \/ state' # "Active"
        /\ once' = once \/ once' # "no"
    BY <1>2 DEF StartIdleTimer
  <2> QED
    BY <1>a, <2>1, <2>2
<1>3. CASE Admit
  <2>1. Same
    BY <1>3 DEF Admit, Counted, Settling, HeldIsAccepted, Holding
  <2>2. /\ state' = state \/ state' # "Active"
        /\ once' = once \/ once' # "no"
    BY <1>3 DEF Admit
  <2> QED
    BY <1>a, <2>1, <2>2
<1>4. CASE OpenedAdd
  <2>1. cur \in Conns /\ cur \in Counted'
    BY <1>4 DEF OpenedAdd, Counted, HeldIsAccepted, Holding
  <2> QED
    BY <1>c, <2>1
<1>5. CASE OpenedActivate
  <2>1. cur \in Conns /\ cur \in Counted'
    BY <1>5 DEF OpenedActivate, Counted, HeldIsAccepted, Holding
  <2> QED
    BY <1>c, <2>1
<1>6. CASE PauseIdleTimer
  <2>1. Same
    BY <1>6 DEF PauseIdleTimer, Counted, Settling
  <2>2. /\ state' = state \/ state' # "Active"
        /\ once' = once \/ once' # "no"
    BY <1>6 DEF PauseIdleTimer
  <2> QED
    BY <1>a, <2>1, <2>2
<1>7. CASE StartSession
  <2>1. Same
    BY <1>7 DEF StartSession, Counted, Settling, HeldIsAccepted, Holding
  <2>2. /\ state' = state \/ state' # "Active"
        /\ once' = once \/ once' # "no"
    BY <1>7 DEF StartSession
  <2> QED
    BY <1>a, <2>1, <2>2
<1>8. CASE Return
  <2>1. Same
    BY <1>8 DEF Return, Refuse, Counted, Settling, ConnSteps
  <2>2. /\ state' = state \/ state' # "Active"
        /\ once' = once \/ once' # "no"
    BY <1>8 DEF Return, Refuse
  <2> QED
    BY <1>a, <2>1, <2>2
<1>9. CASE AcceptFails
  <2>1. Same
    BY <1>9 DEF AcceptFails, Counted, Settling
  <2>2. /\ state' = state \/ state' # "Active"
        /\ once' = once \/ once' # "no"
    BY <1>9 DEF AcceptFails
  <2> QED
    BY <1>a, <2>1, <2>2
<1>10. ASSUME NEW c \in Conns, Accept(c) PROVE ActiveSettles'
  <2>1. Same
    BY <1>10 DEF Accept, Counted, Settling, HeldIsAccepted, Holding
  <2>2. /\ state' = state \/ state' # "Active"
        /\ once' = once \/ once' # "no"
    BY <1>10 DEF Accept
  <2> QED
    BY <1>a, <2>1, <2>2
<1>11. ASSUME NEW c \in Conns, Dial(c) PROVE ActiveSettles'
  <2>1. Same
    BY <1>11 DEF Dial, Counted, Settling
  <2>2. /\ state' = state \/ state' # "Active"
        /\ once' = once \/ once' # "no"
    BY <1>11 DEF Dial
  <2> QED
    BY <1>a, <2>1, <2>2
<1>12. ASSUME NEW c \in Conns, SessionEnds(c) PROVE ActiveSettles'
  <2>1. Same
    BY <1>12 DEF SessionEnds, Counted, Settling
  <2>2. /\ state' = state \/ state' # "Active"
        /\ once' = once \/ once' # "no"
    BY <1>12 DEF SessionEnds
  <2> QED
    BY <1>a, <2>1, <2>2
<1>13. ASSUME NEW c \in Conns, ClosedAdd(c) PROVE ActiveSettles'
  <2>1. CASE count' <= 0
    <3>1. conn' = [conn EXCEPT ![c] = "zeroing"]
      BY <1>13, <2>1 DEF ClosedAdd
    <3> QED
      BY <1>b, <3>1
  <2>2. CASE ~(count' <= 0)
    <3>1. c \in Counted /\ Counted' = Counted \ {c}
      BY <1>13 DEF ClosedAdd, Counted, HeldIsAccepted, Holding
    <3>2. Counted # {c}
      <4> SUFFICES ASSUME Counted = {c} PROVE FALSE
        OBVIOUS
      <4>1. count <= 1
        BY FS_Singleton DEF CountBounded
      <4> QED
        BY <1>13, <2>2, <4>1 DEF ClosedAdd
    <3>3. PICK d \in Conns : d \in Counted'
      BY <3>1, <3>2 DEF Counted
    <3> QED
      BY <1>c, <3>3
  <2> QED
    BY <2>1, <2>2
<1>14. ASSUME NEW c \in Conns, ClosedZero(c) PROVE ActiveSettles'
  BY <1>14, <1>b DEF ClosedZero
<1>15. ASSUME NEW c \in Conns, ClosedCheck(c) PROVE ActiveSettles'
  <2>1. CASE state = "Active"
    BY <1>15, <2>1, <1>b DEF ClosedCheck
  <2>2. CASE state # "Active"
    BY <1>15, <2>2 DEF ClosedCheck, ActiveSettles
  <2> QED
    BY <2>1, <2>2
<1>16. ASSUME NEW c \in Conns, ClosedReady(c) PROVE ActiveSettles'
  BY <1>16 DEF ClosedReady, ActiveSettles
<1>17. ASSUME NEW c \in Conns, ResumeIdleTimer(c) PROVE ActiveSettles'
  <2>1. Same
    BY <1>17 DEF ResumeIdleTimer, Counted, Settling
  <2>2. /\ state' = state \/ state' # "Active"
        /\ once' = once \/ once' # "no"
    BY <1>17 DEF ResumeIdleTimer
  <2> QED
    BY <1>a, <2>1, <2>2
<1>18. ASSUME NEW c \in Conns, SessionDone(c) PROVE ActiveSettles'
  <2>1. Same
    BY <1>18 DEF SessionDone, Counted, Settling
  <2>2. /\ state' = state \/ state' # "Active"
        /\ once' = once \/ once' # "no"
    BY <1>18 DEF SessionDone
  <2> QED
    BY <1>a, <2>1, <2>2
<1>19. ASSUME NEW k \in Callbacks, TimerFires(k) PROVE ActiveSettles'
  <2>1. Same
    BY <1>19 DEF TimerFires, Counted, Settling
  <2>2. /\ state' = state \/ state' # "Active"
        /\ once' = once \/ once' # "no"
    BY <1>19 DEF TimerFires
  <2> QED
    BY <1>a, <2>1, <2>2
<1>20. ASSUME NEW k \in Callbacks, CallbackReadsCount(k) PROVE ActiveSettles'
  <2>1. Same
    BY <1>20 DEF CallbackReadsCount, Counted, Settling
  <2>2. /\ state' = state \/ state' # "Active"
        /\ once' = once \/ once' # "no"
    BY <1>20 DEF CallbackReadsCount
  <2> QED
    BY <1>a, <2>1, <2>2
<1>21. ASSUME NEW k \in Callbacks, CallbackReadsState(k) PROVE ActiveSettles'
  <2>1. Same
    BY <1>21 DEF CallbackReadsState, Counted, Settling
  <2>2. /\ state' = state \/ state' # "Active"
        /\ once' = once \/ once' # "no"
    BY <1>21 DEF CallbackReadsState
  <2> QED
    BY <1>a, <2>1, <2>2
<1>22. ASSUME NEW u \in Users, UserStop(u) PROVE ActiveSettles'
  <2>1. Same
    BY <1>22 DEF UserStop, Counted, Settling
  <2>2. /\ state' = state \/ state' # "Active"
        /\ once' = once \/ once' # "no"
    BY <1>22 DEF UserStop
  <2> QED
    BY <1>a, <2>1, <2>2
<1>23. ASSUME NEW k \in Callers, InitiateShutdown(k) PROVE ActiveSettles'
  BY <1>23 DEF InitiateShutdown, ActiveSettles, Counted, Settling
<1>24. ASSUME NEW k \in Callers, OnShutdown(k) PROVE ActiveSettles'
  <2>1. Same
    BY <1>24 DEF OnShutdown, Counted, Settling
  <2>2. /\ state' = state \/ state' # "Active"
        /\ once' = once \/ once' # "no"
    BY <1>24 DEF OnShutdown
  <2> QED
    BY <1>a, <2>1, <2>2
<1>25. ASSUME NEW k \in Callers, StartWatcher(k) PROVE ActiveSettles'
  <2>1. Same
    BY <1>25 DEF StartWatcher, Counted, Settling
  <2>2. /\ state' = state \/ state' # "Active"
        /\ once' = once \/ once' # "no"
    BY <1>25 DEF StartWatcher
  <2> QED
    BY <1>a, <2>1, <2>2
<1>26. CASE WatcherSees
  <2>1. Same
    BY <1>26 DEF WatcherSees, Counted, Settling
  <2>2. /\ state' = state \/ state' # "Active"
        /\ once' = once \/ once' # "no"
    BY <1>26 DEF WatcherSees
  <2> QED
    BY <1>a, <2>1, <2>2
<1>27. CASE WatcherStops
  <2>1. Same
    BY <1>27 DEF WatcherStops, Counted, Settling
  <2>2. /\ state' = state \/ state' # "Active"
        /\ once' = once \/ once' # "no"
    BY <1>27 DEF WatcherStops
  <2> QED
    BY <1>a, <2>1, <2>2
<1>28. CASE WatcherSignals
  <2>1. Same
    BY <1>28 DEF WatcherSignals, Counted, Settling
  <2>2. /\ state' = state \/ state' # "Active"
        /\ once' = once \/ once' # "no"
    BY <1>28 DEF WatcherSignals
  <2> QED
    BY <1>a, <2>1, <2>2
<1>29. CASE CloseListener
  <2>1. Same
    BY <1>29 DEF CloseListener, Refuse, Counted, Settling, ConnSteps
  <2>2. /\ state' = state \/ state' # "Active"
        /\ once' = once \/ once' # "no"
    BY <1>29 DEF CloseListener, Refuse
  <2> QED
    BY <1>a, <2>1, <2>2
<1>30. CASE Quit
  <2>1. Same
    BY <1>30 DEF Quit, Counted, Settling
  <2>2. /\ state' = state \/ state' # "Active"
        /\ once' = once \/ once' # "no"
    BY <1>30 DEF Quit
  <2> QED
    BY <1>a, <2>1, <2>2
<1>31. CASE Terminated \/ UNCHANGED vars
  <2>1. Same
    BY <1>31 DEF Terminated, vars, Counted, Settling
  <2>2. /\ state' = state \/ state' # "Active"
        /\ once' = once \/ once' # "no"
    BY <1>31 DEF Terminated, vars
  <2> QED
    BY <1>a, <2>1, <2>2
<1> QED
  BY <1>1, <1>2, <1>3, <1>4, <1>5, <1>6, <1>7, <1>8, <1>9, <1>10,
     <1>11, <1>12, <1>13, <1>14, <1>15, <1>16, <1>17, <1>18, <1>19,
     <1>20, <1>21, <1>22, <1>23, <1>24, <1>25, <1>26, <1>27, <1>28,
     <1>29, <1>30, <1>31
     DEF Next, Goroutines, AcceptStep, Leave, Initiate, Callback, Watcher

LEMMA LInvStep ==
  ASSUME LInv, [Next]_vars
  PROVE  LInv'
  BY TypeStep, CountStep, DrainStep DEF LInv

LEMMA SInvStep ==
  ASSUME LInv, StateKnown, ActiveSettles, [Next]_vars
  PROVE  LInv' /\ StateKnown' /\ ActiveSettles'
  BY LInvStep, StateKnownStep, ActiveSettlesStep

\* A server that everybody left, and that nobody shuts down, has count zero and
\* state Ready, however the opens and closes before it overlapped: connCount by
\* CountBounded, the state because the close that empties Counted saw a count
\* of at most zero and every store of Active came before it.
THEOREM LeftIsReady == Spec => []LeftServerIsReady
  <1>1. Init => LInv /\ StateKnown /\ ActiveSettles
    BY InitLInv, InitStateKnown
  <1>2. LInv /\ StateKnown /\ ActiveSettles /\ [Next]_vars => LInv' /\ StateKnown' /\ ActiveSettles'
    BY SInvStep
  <1>3. LInv /\ StateKnown /\ ActiveSettles => LeftServerIsReady
    <2> SUFFICES ASSUME LInv, StateKnown, ActiveSettles, Counted = {}, Settling = {}, once = "no", acceptor # "starting"
                 PROVE  count = 0 /\ state = "Ready"
      BY DEF LeftServerIsReady
    <2>1. Zeroing = {}
      BY DEF Settling, Zeroing
    <2>2. count = 0
      BY <2>1, FS_EmptySet DEF LInv, TypeOK, CountBounded
    <2> QED
      BY <2>2 DEF StateKnown, ActiveSettles
  <1> QED
    BY <1>1, <1>2, <1>3, PTL DEF Spec

-----------------------------------------------------------------------------
(* What the clients see.                                                    *)

\* The two expressions of the refinement mapping.
ClientNow == [c \in Conns |-> ClientOf(c)]
ModeNow == CASE acceptor = "done" -> "over"
             [] acceptor # "done" /\ (once # "no" \/ ctxDone) -> "stopping"
             [] acceptor = "draining" /\ once = "no" /\ ~ctxDone -> "deaf"
             [] OTHER -> "up"

LEMMA ModeCases ==
  /\ acceptor = "done" => ModeNow = "over"
  /\ acceptor # "done" /\ (once # "no" \/ ctxDone) => ModeNow = "stopping"
  /\ acceptor = "draining" /\ once = "no" /\ ~ctxDone => ModeNow = "deaf"
  /\ acceptor \notin {"draining", "done"} /\ once = "no" /\ ~ctxDone => ModeNow = "up"
  BY DEF ModeNow

\* The same of the next state.
LEMMA ModeCasesNext ==
  /\ acceptor' = "done" => ModeNow' = "over"
  /\ acceptor' # "done" /\ (once' # "no" \/ ctxDone') => ModeNow' = "stopping"
  /\ acceptor' = "draining" /\ once' = "no" /\ ~ctxDone' => ModeNow' = "deaf"
  /\ acceptor' \notin {"draining", "done"} /\ once' = "no" /\ ~ctxDone' => ModeNow' = "up"
  BY DEF ModeNow

\* A step that clients do not see: it changes nothing, or only the mode.
Unseen ==
  /\ ClientNow' = ClientNow
  /\ \/ ModeNow' = ModeNow
     \/ ModeNow = "up" /\ ModeNow' = "deaf"
     \/ ModeNow \in {"up", "deaf"} /\ ModeNow' = "stopping"

LEMMA UnseenIsStep ==
  ASSUME Unseen
  PROVE  [Clients!Next]_(Clients!vars)
  <1>1. CASE ModeNow' = ModeNow
    BY <1>1 DEF Unseen, ClientNow, ModeNow, Clients!vars
  <1>2. CASE ModeNow = "up" /\ ModeNow' = "deaf"
    <2>1. Clients!GoDeaf
      BY <1>2 DEF Unseen, ClientNow, ModeNow, Clients!GoDeaf
    <2> QED
      BY <2>1 DEF Clients!Next
  <1>3. CASE ModeNow \in {"up", "deaf"} /\ ModeNow' = "stopping"
    <2>1. Clients!Stop
      BY <1>3 DEF Unseen, ClientNow, ModeNow, Clients!Stop
    <2> QED
      BY <2>1 DEF Clients!Next
  <1> QED
    BY <1>1, <1>2, <1>3 DEF Unseen

\* The client of a connection, by what its goroutine does next.
LEMMA ClientCases ==
  ASSUME NEW c \in Conns
  PROVE  /\ conn[c] = "idle" => ClientOf(c) = "away"
         /\ conn[c] = "queued" => ClientOf(c) = "waiting"
         /\ conn[c] = "accepted" =>
              ClientOf(c) = IF acceptor = "admitting" THEN "waiting" ELSE "served"
         /\ conn[c] = "refused" => ClientOf(c) = "refused"
         /\ conn[c] = "closed" => ClientOf(c) = "gone"
         /\ conn[c] \notin {"idle", "queued", "accepted", "refused", "closed"} => ClientOf(c) = "served"
         /\ ClientOf(c) = "served" =>
              conn[c] \notin {"idle", "queued", "refused", "closed"}
         /\ ClientOf(c) = "waiting" => conn[c] \in {"queued", "accepted"}
  BY DEF ClientOf, Waiting

\* The same of the next state.
LEMMA ClientCasesNext ==
  ASSUME NEW c \in Conns
  PROVE  /\ conn'[c] = "idle" => ClientOf(c)' = "away"
         /\ conn'[c] = "queued" => ClientOf(c)' = "waiting"
         /\ conn'[c] = "accepted" =>
              ClientOf(c)' = IF acceptor' = "admitting" THEN "waiting" ELSE "served"
         /\ conn'[c] = "refused" => ClientOf(c)' = "refused"
         /\ conn'[c] = "closed" => ClientOf(c)' = "gone"
         /\ conn'[c] \notin {"idle", "queued", "accepted", "refused", "closed"} => ClientOf(c)' = "served"
  BY DEF ClientOf, Waiting

\* Every step of the lifecycle is a step its clients see, or none.
LEMMA ClientsStep ==
  ASSUME LInv, StateKnown, [Next]_vars
  PROVE  [Clients!Next]_(Clients!vars)
<1> USE ModeCases, ModeCasesNext
    DEF LInv, TypeOK, StateKnown, lcVars, stopVars, netVars, GoAccept, GoConn, GoCaller
<1>a. ASSUME \A c \in Conns : ClientOf(c)' = ClientOf(c)
      PROVE  ClientNow' = ClientNow
  BY <1>a DEF ClientNow
<1>b. ASSUME NEW c \in Conns, NEW to, ClientOf(c)' = to,
             \A d \in Conns \ {c} : ClientOf(d)' = ClientOf(d)
      PROVE  ClientNow' = [ClientNow EXCEPT ![c] = to]
  BY <1>b DEF ClientNow
<1>c. ASSUME NEW c \in Conns, conn'[c] = conn[c],
             conn[c] = "accepted" => (acceptor = "admitting" <=> acceptor' = "admitting")
      PROVE  ClientOf(c)' = ClientOf(c)
  BY <1>c DEF ClientOf, Waiting
<1>1. CASE SetReady
  <2>1. \A d \in Conns : ClientOf(d)' = ClientOf(d)
    BY <1>1, <1>c DEF SetReady
  <2>2. Unseen
    BY <1>1, <1>a, <2>1 DEF SetReady, Unseen
  <2> QED
    BY <2>2, UnseenIsStep
<1>2. CASE StartIdleTimer
  <2>1. \A d \in Conns : ClientOf(d)' = ClientOf(d)
    BY <1>2, <1>c DEF StartIdleTimer
  <2>2. Unseen
    BY <1>2, <1>a, <2>1 DEF StartIdleTimer, Unseen
  <2> QED
    BY <2>2, UnseenIsStep
<1>3. CASE Admit
  <2>a. PICK a \in Conns : a = cur
    BY <1>3 DEF Admit, HeldIsAccepted, Holding
  <2>0. conn[a] = "accepted" /\ ClientOf(a) = "waiting"
    BY <1>3, <2>a, ClientCases DEF Admit, HeldIsAccepted, Holding
  <2>1. \A d \in Conns \ {a} : conn[d] # "accepted"
    BY <2>a DEF HeldIsAccepted
  <2>2. CASE CanAcceptConnection
    <3>1. ClientOf(a)' = "served"
      BY <1>3, <2>a, <2>0, <2>2, ClientCasesNext DEF Admit
    <3>2. \A d \in Conns \ {a} : ClientOf(d)' = ClientOf(d)
      BY <1>3, <2>a, <2>1, <2>2, <1>c DEF Admit
    <3>3. ClientNow' = [ClientNow EXCEPT ![a] = "served"]
      BY <1>b, <2>0, <3>1, <3>2
    <3>4. ModeNow' = ModeNow /\ ModeNow \in {"up", "stopping"}
      BY <1>3, <2>2 DEF Admit
    <3>5. Clients!Serve(a)
      BY <2>0, <3>3, <3>4 DEF Clients!Serve, Clients!Becomes, ClientNow, ModeNow
    <3> QED
      BY <2>0, <3>5 DEF Clients!Next
  <2>3. CASE ~CanAcceptConnection
    <3>1. ClientOf(a)' = "refused"
      BY <1>3, <2>a, <2>0, <2>3, ClientCasesNext DEF Admit
    <3>2. \A d \in Conns \ {a} : ClientOf(d)' = ClientOf(d)
      BY <1>3, <2>a, <2>1, <2>3, <1>c DEF Admit
    <3>3. ClientNow' = Clients!Refused({a})
      BY <2>0, <3>1, <3>2 DEF ClientNow, Clients!Refused
    <3>4. ModeNow' = ModeNow /\ ModeNow = "stopping"
      BY <1>3, <2>3 DEF Admit, CanAcceptConnection
    <3>5. Clients!Refuse({a})
      BY <2>0, <3>3, <3>4 DEF Clients!Refuse, ClientNow, ModeNow
    <3> QED
      BY <2>0, <3>5 DEF Clients!Next
  <2> QED
    BY <2>2, <2>3
<1>4. CASE OpenedAdd
  <2>1. \A d \in Conns : ClientOf(d)' = ClientOf(d)
    BY <1>4, <1>c DEF OpenedAdd
  <2>2. Unseen
    BY <1>4, <1>a, <2>1 DEF OpenedAdd, Unseen
  <2> QED
    BY <2>2, UnseenIsStep
<1>5. CASE OpenedActivate
  <2>1. \A d \in Conns : ClientOf(d)' = ClientOf(d)
    BY <1>5, <1>c DEF OpenedActivate
  <2>2. Unseen
    BY <1>5, <1>a, <2>1 DEF OpenedActivate, Unseen
  <2> QED
    BY <2>2, UnseenIsStep
<1>6. CASE PauseIdleTimer
  <2>1. \A d \in Conns : ClientOf(d)' = ClientOf(d)
    BY <1>6, <1>c DEF PauseIdleTimer
  <2>2. Unseen
    BY <1>6, <1>a, <2>1 DEF PauseIdleTimer, Unseen
  <2> QED
    BY <2>2, UnseenIsStep
<1>7. CASE StartSession
  <2>a. PICK a \in Conns : a = cur
    BY <1>7 DEF StartSession, HeldIsAccepted, Holding
  <2>0. conn[a] = "accepted"
    BY <1>7, <2>a DEF StartSession, HeldIsAccepted, Holding
  <2>1. ClientOf(a)' = ClientOf(a)
    BY <1>7, <2>a, <2>0, ClientCases, ClientCasesNext DEF StartSession
  <2>2. \A d \in Conns \ {a} : ClientOf(d)' = ClientOf(d)
    BY <1>7, <2>a, <2>0, <1>c DEF StartSession
  <2>3. Unseen
    BY <1>7, <1>a, <2>a, <2>0, <2>1, <2>2 DEF StartSession, Unseen
  <2> QED
    BY <2>3, UnseenIsStep
<1>8. CASE Return
  <2>1. \A c \in Conns : conn[c] \in {"idle", "queued", "refused", "closed"}
    <3>1. \A c \in Conns : conn[c] # "accepted"
      BY <1>8, LifecycleAssumption DEF Return, HeldIsAccepted, Holding
    <3> QED
      BY <1>8, <3>1 DEF Return, InWaitGroup, ConnSteps
  <2>2. \A c \in Conns : conn'[c] = IF conn[c] = "queued" THEN "refused" ELSE conn[c]
    BY <1>8 DEF Return, Refuse
  <2>3. \A c \in Conns : ClientOf(c) # "served"
    BY <2>1, ClientCases
  <2>4. \A c \in Conns : ClientOf(c)' = IF ClientOf(c) = "waiting" THEN "refused" ELSE ClientOf(c)
    BY <2>1, <2>2, ClientCases, ClientCasesNext
  <2>5. ClientNow' = Clients!Refused({c \in Conns : ClientNow[c] = "waiting"})
    BY <2>4 DEF ClientNow, Clients!Refused
  <2>6. ModeNow \in {"deaf", "stopping"} /\ ModeNow' = "over"
    BY <1>8 DEF Return
  <2>7. Clients!Finish
    BY <2>3, <2>5, <2>6 DEF Clients!Finish, ClientNow, ModeNow
  <2> QED
    BY <2>7 DEF Clients!Next
<1>9. CASE AcceptFails
  <2>1. \A d \in Conns : ClientOf(d)' = ClientOf(d)
    BY <1>9, <1>c DEF AcceptFails
  <2>2. Unseen
    BY <1>9, <1>a, <2>1 DEF AcceptFails, Unseen
  <2> QED
    BY <2>2, UnseenIsStep
<1>10. ASSUME NEW c \in Conns, Accept(c) PROVE [Clients!Next]_(Clients!vars)
  <2>0. \A d \in Conns : conn[d] # "accepted"
    BY <1>10, LifecycleAssumption DEF Accept, HeldIsAccepted, Holding
  <2>1. ClientOf(c)' = ClientOf(c)
    BY <1>10, ClientCases, ClientCasesNext DEF Accept
  <2>2. \A d \in Conns \ {c} : ClientOf(d)' = ClientOf(d)
    BY <1>10, <2>0, <1>c DEF Accept
  <2>3. Unseen
    BY <1>10, <1>a, <2>1, <2>2 DEF Accept, Unseen
  <2> QED
    BY <2>3, UnseenIsStep
<1>11. ASSUME NEW c \in Conns, Dial(c) PROVE [Clients!Next]_(Clients!vars)
  <2>1. ClientOf(c) = "away" /\ ClientOf(c)' = "waiting"
    BY <1>11, ClientCases, ClientCasesNext DEF Dial
  <2>2. \A d \in Conns \ {c} : ClientOf(d)' = ClientOf(d)
    BY <1>11, <1>c DEF Dial
  <2>3. ClientNow' = [ClientNow EXCEPT ![c] = "waiting"]
    BY <1>b, <2>1, <2>2
  <2>4. ModeNow' = ModeNow /\ ModeNow # "over"
    BY <1>11 DEF Dial
  <2>5. Clients!Dial(c)
    BY <2>1, <2>3, <2>4 DEF Clients!Dial, Clients!Becomes, ClientNow, ModeNow
  <2> QED
    BY <2>5 DEF Clients!Next
<1>12. ASSUME NEW c \in Conns, SessionEnds(c) PROVE [Clients!Next]_(Clients!vars)
  <2>1. ClientOf(c)' = ClientOf(c)
    BY <1>12, ClientCases, ClientCasesNext DEF SessionEnds
  <2>2. \A d \in Conns \ {c} : ClientOf(d)' = ClientOf(d)
    BY <1>12, <1>c DEF SessionEnds
  <2>3. Unseen
    BY <1>12, <1>a, <2>1, <2>2 DEF SessionEnds, Unseen
  <2> QED
    BY <2>3, UnseenIsStep
<1>13. ASSUME NEW c \in Conns, ClosedAdd(c) PROVE [Clients!Next]_(Clients!vars)
  <2>1. ClientOf(c)' = ClientOf(c)
    BY <1>13, ClientCases, ClientCasesNext DEF ClosedAdd
  <2>2. \A d \in Conns \ {c} : ClientOf(d)' = ClientOf(d)
    BY <1>13, <1>c DEF ClosedAdd
  <2>3. Unseen
    BY <1>13, <1>a, <2>1, <2>2 DEF ClosedAdd, Unseen
  <2> QED
    BY <2>3, UnseenIsStep
<1>14. ASSUME NEW c \in Conns, ClosedZero(c) PROVE [Clients!Next]_(Clients!vars)
  <2>1. ClientOf(c)' = ClientOf(c)
    BY <1>14, ClientCases, ClientCasesNext DEF ClosedZero
  <2>2. \A d \in Conns \ {c} : ClientOf(d)' = ClientOf(d)
    BY <1>14, <1>c DEF ClosedZero
  <2>3. Unseen
    BY <1>14, <1>a, <2>1, <2>2 DEF ClosedZero, Unseen
  <2> QED
    BY <2>3, UnseenIsStep
<1>15. ASSUME NEW c \in Conns, ClosedCheck(c) PROVE [Clients!Next]_(Clients!vars)
  <2>1. ClientOf(c)' = ClientOf(c)
    BY <1>15, ClientCases, ClientCasesNext DEF ClosedCheck
  <2>2. \A d \in Conns \ {c} : ClientOf(d)' = ClientOf(d)
    BY <1>15, <1>c DEF ClosedCheck
  <2>3. Unseen
    BY <1>15, <1>a, <2>1, <2>2 DEF ClosedCheck, Unseen
  <2> QED
    BY <2>3, UnseenIsStep
<1>16. ASSUME NEW c \in Conns, ClosedReady(c) PROVE [Clients!Next]_(Clients!vars)
  <2>1. ClientOf(c)' = ClientOf(c)
    BY <1>16, ClientCases, ClientCasesNext DEF ClosedReady
  <2>2. \A d \in Conns \ {c} : ClientOf(d)' = ClientOf(d)
    BY <1>16, <1>c DEF ClosedReady
  <2>3. Unseen
    BY <1>16, <1>a, <2>1, <2>2 DEF ClosedReady, Unseen
  <2> QED
    BY <2>3, UnseenIsStep
<1>17. ASSUME NEW c \in Conns, ResumeIdleTimer(c) PROVE [Clients!Next]_(Clients!vars)
  <2>1. ClientOf(c)' = ClientOf(c)
    BY <1>17, ClientCases, ClientCasesNext DEF ResumeIdleTimer
  <2>2. \A d \in Conns \ {c} : ClientOf(d)' = ClientOf(d)
    BY <1>17, <1>c DEF ResumeIdleTimer
  <2>3. Unseen
    BY <1>17, <1>a, <2>1, <2>2 DEF ResumeIdleTimer, Unseen
  <2> QED
    BY <2>3, UnseenIsStep
<1>18. ASSUME NEW c \in Conns, SessionDone(c) PROVE [Clients!Next]_(Clients!vars)
  <2>1. ClientOf(c) = "served" /\ ClientOf(c)' = "gone"
    BY <1>18, ClientCases, ClientCasesNext DEF SessionDone
  <2>2. \A d \in Conns \ {c} : ClientOf(d)' = ClientOf(d)
    BY <1>18, <1>c DEF SessionDone
  <2>3. ClientNow' = [ClientNow EXCEPT ![c] = "gone"]
    BY <1>b, <2>1, <2>2
  <2>4. ModeNow' = ModeNow
    BY <1>18 DEF SessionDone
  <2>5. Clients!Go(c)
    BY <2>1, <2>3, <2>4 DEF Clients!Go, Clients!Becomes, ClientNow, ModeNow
  <2> QED
    BY <2>5 DEF Clients!Next
<1>19. ASSUME NEW k \in Callbacks, TimerFires(k) PROVE [Clients!Next]_(Clients!vars)
  <2>1. \A d \in Conns : ClientOf(d)' = ClientOf(d)
    BY <1>19, <1>c DEF TimerFires
  <2>2. Unseen
    BY <1>19, <1>a, <2>1 DEF TimerFires, Unseen
  <2> QED
    BY <2>2, UnseenIsStep
<1>20. ASSUME NEW k \in Callbacks, CallbackReadsCount(k) PROVE [Clients!Next]_(Clients!vars)
  <2>1. \A d \in Conns : ClientOf(d)' = ClientOf(d)
    BY <1>20, <1>c DEF CallbackReadsCount
  <2>2. Unseen
    BY <1>20, <1>a, <2>1 DEF CallbackReadsCount, Unseen
  <2> QED
    BY <2>2, UnseenIsStep
<1>21. ASSUME NEW k \in Callbacks, CallbackReadsState(k) PROVE [Clients!Next]_(Clients!vars)
  <2>1. \A d \in Conns : ClientOf(d)' = ClientOf(d)
    BY <1>21, <1>c DEF CallbackReadsState
  <2>2. Unseen
    BY <1>21, <1>a, <2>1 DEF CallbackReadsState, Unseen
  <2> QED
    BY <2>2, UnseenIsStep
<1>22. ASSUME NEW u \in Users, UserStop(u) PROVE [Clients!Next]_(Clients!vars)
  <2>1. \A d \in Conns : ClientOf(d)' = ClientOf(d)
    BY <1>22, <1>c DEF UserStop
  <2>2. Unseen
    BY <1>22, <1>a, <2>1 DEF UserStop, Unseen
  <2> QED
    BY <2>2, UnseenIsStep
<1>23. ASSUME NEW k \in Callers, InitiateShutdown(k) PROVE [Clients!Next]_(Clients!vars)
  <2>1. \A d \in Conns : ClientOf(d)' = ClientOf(d)
    BY <1>23, <1>c DEF InitiateShutdown
  <2>2. Unseen
    BY <1>23, <1>a, <2>1 DEF InitiateShutdown, Unseen
  <2> QED
    BY <2>2, UnseenIsStep
<1>24. ASSUME NEW k \in Callers, OnShutdown(k) PROVE [Clients!Next]_(Clients!vars)
  <2>1. \A d \in Conns : ClientOf(d)' = ClientOf(d)
    BY <1>24, <1>c DEF OnShutdown
  <2>2. Unseen
    BY <1>24, <1>a, <2>1 DEF OnShutdown, Unseen
  <2> QED
    BY <2>2, UnseenIsStep
<1>25. ASSUME NEW k \in Callers, StartWatcher(k) PROVE [Clients!Next]_(Clients!vars)
  <2>1. \A d \in Conns : ClientOf(d)' = ClientOf(d)
    BY <1>25, <1>c DEF StartWatcher
  <2>2. Unseen
    BY <1>25, <1>a, <2>1 DEF StartWatcher, Unseen
  <2> QED
    BY <2>2, UnseenIsStep
<1>26. CASE WatcherSees
  <2>1. \A d \in Conns : ClientOf(d)' = ClientOf(d)
    BY <1>26, <1>c DEF WatcherSees
  <2>2. Unseen
    BY <1>26, <1>a, <2>1 DEF WatcherSees, Unseen
  <2> QED
    BY <2>2, UnseenIsStep
<1>27. CASE WatcherStops
  <2>1. \A d \in Conns : ClientOf(d)' = ClientOf(d)
    BY <1>27, <1>c DEF WatcherStops
  <2>2. Unseen
    BY <1>27, <1>a, <2>1 DEF WatcherStops, Unseen
  <2> QED
    BY <2>2, UnseenIsStep
<1>28. CASE WatcherSignals
  <2>1. \A d \in Conns : ClientOf(d)' = ClientOf(d)
    BY <1>28, <1>c DEF WatcherSignals
  <2>2. Unseen
    BY <1>28, <1>a, <2>1 DEF WatcherSignals, Unseen
  <2> QED
    BY <2>2, UnseenIsStep
<1>29. CASE CloseListener
  <2>1. \A c \in Conns : conn'[c] = IF conn[c] = "queued" THEN "refused" ELSE conn[c]
    BY <1>29 DEF CloseListener, Refuse
  <2> DEFINE S == {c \in Conns : conn[c] = "queued"}
  <2>2. \A c \in S : ClientOf(c) = "waiting" /\ ClientOf(c)' = "refused"
    BY <2>1, ClientCases, ClientCasesNext
  <2>3. \A c \in Conns \ S : ClientOf(c)' = ClientOf(c)
    BY <1>29, <2>1, <1>c DEF CloseListener
  <2>4. ModeNow = "stopping" /\ ModeNow' = ModeNow
    BY <1>29 DEF CloseListener
  <2>5. S \in SUBSET Conns
    OBVIOUS
  <2> HIDE DEF S
  <2>6. ClientNow' = Clients!Refused(S)
    BY <2>2, <2>3 DEF ClientNow, Clients!Refused
  <2>7. Clients!Refuse(S)
    BY <2>2, <2>4, <2>5, <2>6 DEF Clients!Refuse, ClientNow, ModeNow
  <2> QED
    BY <2>5, <2>7 DEF Clients!Next
<1>30. CASE Quit
  <2>1. \A d \in Conns : ClientOf(d)' = ClientOf(d)
    BY <1>30, <1>c DEF Quit
  <2>2. Unseen
    BY <1>30, <1>a, <2>1 DEF Quit, Unseen
  <2> QED
    BY <2>2, UnseenIsStep
<1>31. CASE Terminated \/ UNCHANGED vars
  <2>1. \A d \in Conns : ClientOf(d)' = ClientOf(d)
    BY <1>31, <1>c DEF Terminated, vars
  <2>2. Unseen
    BY <1>31, <1>a, <2>1 DEF Terminated, vars, Unseen
  <2> QED
    BY <2>2, UnseenIsStep
<1> QED
  BY <1>1, <1>2, <1>3, <1>4, <1>5, <1>6, <1>7, <1>8, <1>9, <1>10,
     <1>11, <1>12, <1>13, <1>14, <1>15, <1>16, <1>17, <1>18, <1>19,
     <1>20, <1>21, <1>22, <1>23, <1>24, <1>25, <1>26, <1>27, <1>28,
     <1>29, <1>30, <1>31
     DEF Next, Goroutines, AcceptStep, Leave, Initiate, Callback, Watcher

\* The safety part of ServesItsClients, however the goroutines overlap, for any
\* number of connections, timer callbacks and users: only a server that is
\* stopping turns a client away, no session begins in one that is deaf or over,
\* and it is over only when nobody is served any more.
THEOREM ClientsAreServed == Spec => Clients!Init /\ [][Clients!Next]_(Clients!vars)
  <1>1. Init => LInv /\ StateKnown /\ Clients!Init
    <2> SUFFICES ASSUME Init PROVE Clients!Init
      BY InitLInv, InitStateKnown
    <2>1. \A c \in Conns : ClientOf(c) = "away"
      BY ClientCases DEF Init
    <2>2. ModeNow = "up"
      BY ModeCases DEF Init
    <2> QED
      BY <2>1, <2>2 DEF Clients!Init, ModeNow
  <1>2. LInv /\ StateKnown /\ [Next]_vars => LInv' /\ StateKnown'
    BY LInvStep, StateKnownStep
  <1>3. LInv /\ StateKnown /\ [Next]_vars => [Clients!Next]_(Clients!vars)
    BY ClientsStep
  <1> QED
    BY <1>1, <1>2, <1>3, PTL DEF Spec

-----------------------------------------------------------------------------
(* The process around the lifecycle.                                        *)

\* What the process does to the lifecycle, the lifecycle does.
LEMMA ProcStepIsStep ==
  ASSUME [ProcNext]_procVars
  PROVE  [Next]_vars
  <1>1. CASE Lives
    BY <1>1 DEF Lives, Next
  <1>2. CASE SpawnShell
    BY <1>2 DEF SpawnShell
  <1>3. CASE Server
    BY <1>3 DEF Server, ServerStep, DialInstance, RemoveStale, Listen, RunReturns, ServerCloses,
       ServerQuits, ArmSafetyNet, Unlink
  <1>4. CASE ClickQuit \/ MenuCloses \/ MenuQuits \/ MenuLeaves
    BY <1>4 DEF ClickQuit, MenuCloses, MenuQuits, MenuLeaves, MenuStep
  <1>5. CASE Signal
    BY <1>5 DEF Signal
  <1>6. CASE Cancel
    BY <1>6 DEF Cancel, Next
  <1>7. CASE OnExit \/ MainExits \/ NetExits
    BY <1>7 DEF OnExit, MainExits, NetExits
  <1>8. CASE Ended \/ UNCHANGED procVars
    BY <1>8 DEF Ended, procVars
  <1> QED
    BY <1>1, <1>2, <1>3, <1>4, <1>5, <1>6, <1>7, <1>8 DEF ProcNext

\* The process implements the lifecycle: whatever is proved of every lifecycle
\* holds of the one that main.go runs, between its signals, menu and exits.
THEOREM ProcessRunsLifecycle == ProcSpec => Init /\ [][Next]_vars
  <1>1. ProcInit => Init
    BY DEF ProcInit
  <1>2. [ProcNext]_procVars => [Next]_vars
    BY ProcStepIsStep
  <1> QED
    BY <1>1, <1>2, PTL DEF ProcSpec

-----------------------------------------------------------------------------
(* How the process ends.                                                    *)

\* Where the server goroutine stands once runMCPServer is behind it.
Ending == {"close", "quit", "arm", "unlink", "over"}

\* A server that is not serving yet has touched nothing, and one that is past
\* serving has left nothing behind; who quits, and who exits, is behind it.
Orderly ==
  /\ ~Served => Init /\ ~shells
  /\ server \in {"dial", "remove", "listen"} => ~Served
  /\ server \in {"serve", "arm", "unlink"} => Served
  /\ server \in Ending /\ Served => acceptor = "done" /\ ~shells
  /\ safetyNet => server \in {"unlink", "over"} /\ Served
  /\ main = "exit" => terminating
  /\ exit = "panic" => ClickedQuit
  /\ ~ClickedQuit =>
       /\ quitCh => server \in {"quit", "arm", "unlink", "over"}
       /\ terminating => server \in {"arm", "unlink", "over"}
       /\ exit = "clean" => server \in Ending

PInv == ProcTypeOK /\ LInv /\ Orderly

LEMMA InitPInv == ProcInit => PInv
  <1> SUFFICES ASSUME ProcInit PROVE PInv
    OBVIOUS
  <1>1. Init /\ LInv
    BY InitLInv DEF ProcInit
  <1>2. ProcTypeOK
    BY <1>1 DEF ProcInit, ProcTypeOK, LInv
  <1>3. Orderly
    BY <1>1 DEF ProcInit, Orderly, Ending, Served
  <1> QED
    BY <1>1, <1>2, <1>3 DEF PInv

\* The accept loop does not come back.
LEMMA DoneIsStable ==
  ASSUME acceptor = "done", [Next]_vars
  PROVE  acceptor' = "done"
<1> USE DEF GoAccept
<1>1. CASE SetReady
  BY <1>1 DEF SetReady
<1>2. CASE StartIdleTimer
  BY <1>2 DEF StartIdleTimer
<1>3. CASE Admit
  BY <1>3 DEF Admit
<1>4. CASE OpenedAdd
  BY <1>4 DEF OpenedAdd
<1>5. CASE OpenedActivate
  BY <1>5 DEF OpenedActivate
<1>6. CASE PauseIdleTimer
  BY <1>6 DEF PauseIdleTimer
<1>7. CASE StartSession
  BY <1>7 DEF StartSession
<1>8. CASE Return
  BY <1>8 DEF Return, Refuse
<1>9. CASE AcceptFails
  BY <1>9 DEF AcceptFails
<1>10. ASSUME NEW c \in Conns, Accept(c) PROVE acceptor' = "done"
  BY <1>10 DEF Accept
<1>11. ASSUME NEW c \in Conns, Dial(c) PROVE acceptor' = "done"
  BY <1>11 DEF Dial
<1>12. ASSUME NEW c \in Conns, SessionEnds(c) PROVE acceptor' = "done"
  BY <1>12 DEF SessionEnds
<1>13. ASSUME NEW c \in Conns, ClosedAdd(c) PROVE acceptor' = "done"
  BY <1>13 DEF ClosedAdd
<1>14. ASSUME NEW c \in Conns, ClosedZero(c) PROVE acceptor' = "done"
  BY <1>14 DEF ClosedZero
<1>15. ASSUME NEW c \in Conns, ClosedCheck(c) PROVE acceptor' = "done"
  BY <1>15 DEF ClosedCheck
<1>16. ASSUME NEW c \in Conns, ClosedReady(c) PROVE acceptor' = "done"
  BY <1>16 DEF ClosedReady
<1>17. ASSUME NEW c \in Conns, ResumeIdleTimer(c) PROVE acceptor' = "done"
  BY <1>17 DEF ResumeIdleTimer
<1>18. ASSUME NEW c \in Conns, SessionDone(c) PROVE acceptor' = "done"
  BY <1>18 DEF SessionDone
<1>19. ASSUME NEW k \in Callbacks, TimerFires(k) PROVE acceptor' = "done"
  BY <1>19 DEF TimerFires
<1>20. ASSUME NEW k \in Callbacks, CallbackReadsCount(k) PROVE acceptor' = "done"
  BY <1>20 DEF CallbackReadsCount
<1>21. ASSUME NEW k \in Callbacks, CallbackReadsState(k) PROVE acceptor' = "done"
  BY <1>21 DEF CallbackReadsState
<1>22. ASSUME NEW u \in Users, UserStop(u) PROVE acceptor' = "done"
  BY <1>22 DEF UserStop
<1>23. ASSUME NEW k \in Callers, InitiateShutdown(k) PROVE acceptor' = "done"
  BY <1>23 DEF InitiateShutdown
<1>24. ASSUME NEW k \in Callers, OnShutdown(k) PROVE acceptor' = "done"
  BY <1>24 DEF OnShutdown
<1>25. ASSUME NEW k \in Callers, StartWatcher(k) PROVE acceptor' = "done"
  BY <1>25 DEF StartWatcher
<1>26. CASE WatcherSees
  BY <1>26 DEF WatcherSees
<1>27. CASE WatcherStops
  BY <1>27 DEF WatcherStops
<1>28. CASE WatcherSignals
  BY <1>28 DEF WatcherSignals
<1>29. CASE CloseListener
  BY <1>29 DEF CloseListener, Refuse
<1>30. CASE Quit
  BY <1>30 DEF Quit
<1>31. CASE Terminated \/ UNCHANGED vars
  BY <1>31 DEF Terminated, vars
<1> QED
  BY <1>1, <1>2, <1>3, <1>4, <1>5, <1>6, <1>7, <1>8, <1>9, <1>10, <1>11,
     <1>12, <1>13, <1>14, <1>15, <1>16, <1>17, <1>18, <1>19, <1>20, <1>21,
     <1>22, <1>23, <1>24, <1>25, <1>26, <1>27, <1>28, <1>29, <1>30, <1>31
     DEF Next, Goroutines, AcceptStep, Leave, Initiate, Callback, Watcher

\* Every step keeps the types of the process.
LEMMA ProcTypeStep ==
  ASSUME PInv, [ProcNext]_procVars
  PROVE  ProcTypeOK'
<1>0. TypeOK'
  BY ProcStepIsStep, LInvStep DEF PInv, LInv
<1> USE <1>0 DEF PInv, ProcTypeOK, goVars, endVars
<1>1. CASE DialInstance
  BY <1>1 DEF DialInstance, ServerStep
<1>2. CASE RemoveStale
  BY <1>2 DEF RemoveStale, ServerStep
<1>3. CASE Listen
  BY <1>3 DEF Listen, ServerStep
<1>4. CASE RunReturns
  BY <1>4 DEF RunReturns, ServerStep
<1>5. CASE ServerCloses
  BY <1>5 DEF ServerCloses, ServerStep, CloseQuit
<1>6. CASE ServerQuits
  BY <1>6 DEF ServerQuits, ServerStep
<1>7. CASE ArmSafetyNet
  BY <1>7 DEF ArmSafetyNet, ServerStep
<1>8. CASE Unlink
  BY <1>8 DEF Unlink, ServerStep
<1>9. CASE ClickQuit
  BY <1>9 DEF ClickQuit, MenuStep
<1>10. CASE MenuCloses
  BY <1>10 DEF MenuCloses, MenuStep, CloseQuit
<1>11. CASE MenuQuits
  BY <1>11 DEF MenuQuits, MenuStep
<1>12. CASE MenuLeaves
  BY <1>12 DEF MenuLeaves, MenuStep
<1>13. CASE Signal
  BY <1>13 DEF Signal
<1>14. CASE Cancel
  BY <1>14 DEF Cancel
<1>15. CASE OnExit
  BY <1>15 DEF OnExit
<1>16. CASE MainExits
  BY <1>16 DEF MainExits
<1>17. CASE NetExits
  BY <1>17 DEF NetExits
<1>18. CASE SpawnShell
  BY <1>18 DEF SpawnShell
<1>19. CASE Lives
  BY <1>19 DEF Lives
<1>20. CASE Ended \/ UNCHANGED procVars
  BY <1>20 DEF Ended, procVars
<1> QED
  BY <1>1, <1>2, <1>3, <1>4, <1>5, <1>6, <1>7, <1>8, <1>9, <1>10, <1>11,
     <1>12, <1>13, <1>14, <1>15, <1>16, <1>17, <1>18, <1>19, <1>20
     DEF ProcNext, Server

\* A process that has not served keeps its lifecycle as it was made.
LEMMA InitKept ==
  ASSUME Init, UNCHANGED vars
  PROVE  Init'
  BY DEF Init, vars, lcVars, stopVars, netVars

\* Every step keeps the end in order.
LEMMA OrderlyStep ==
  ASSUME PInv, [ProcNext]_procVars
  PROVE  Orderly'
<1>0. acceptor = "done" => acceptor' = "done"
  BY DoneIsStable, ProcStepIsStep
<1>a. ProcTypeOK' /\ LInv'
  BY ProcTypeStep, LInvStep, ProcStepIsStep DEF PInv
<1>b. acceptor = "done" => \A c \in Conns : conn[c] # "serving"
  BY DEF PInv, LInv, DrainedOnReturn
<1>c. UNCHANGED vars => (Init => Init') /\ acceptor' = acceptor
  BY InitKept DEF vars
<1> USE <1>0, <1>b, <1>c DEF PInv, Orderly, Ending, Served, Up, ClickedQuit, ProcTypeOK, goVars, endVars
<1>1. CASE DialInstance
  BY <1>1 DEF DialInstance, ServerStep
<1>2. CASE RemoveStale
  BY <1>2 DEF RemoveStale, ServerStep
<1>3. CASE Listen
  BY <1>3 DEF Listen, ServerStep
<1>4. CASE RunReturns
  BY <1>4 DEF RunReturns, ServerStep
<1>5. CASE ServerCloses
  BY <1>5 DEF ServerCloses, ServerStep, CloseQuit
<1>6. CASE ServerQuits
  BY <1>6 DEF ServerQuits, ServerStep
<1>7. CASE ArmSafetyNet
  BY <1>7 DEF ArmSafetyNet, ServerStep
<1>8. CASE Unlink
  BY <1>8 DEF Unlink, ServerStep
<1>9. CASE ClickQuit
  BY <1>9 DEF ClickQuit, MenuStep
<1>10. CASE MenuCloses
  BY <1>10 DEF MenuCloses, MenuStep, CloseQuit
<1>11. CASE MenuQuits
  BY <1>11 DEF MenuQuits, MenuStep
<1>12. CASE MenuLeaves
  BY <1>12 DEF MenuLeaves, MenuStep
<1>13. CASE Signal
  BY <1>13 DEF Signal
<1>14. CASE Cancel
  BY <1>14 DEF Cancel
<1>15. CASE OnExit
  BY <1>15 DEF OnExit
<1>16. CASE MainExits
  BY <1>16 DEF MainExits
<1>17. CASE NetExits
  BY <1>17 DEF NetExits
<1>18. CASE SpawnShell
  BY <1>18 DEF SpawnShell
<1>19. CASE Lives
  BY <1>19 DEF Lives
<1>20. CASE Ended \/ UNCHANGED procVars
  BY <1>20 DEF Ended, procVars
<1> QED
  BY <1>1, <1>2, <1>3, <1>4, <1>5, <1>6, <1>7, <1>8, <1>9, <1>10, <1>11,
     <1>12, <1>13, <1>14, <1>15, <1>16, <1>17, <1>18, <1>19, <1>20
     DEF ProcNext, Server

LEMMA PInvStep ==
  ASSUME PInv, [ProcNext]_procVars
  PROVE  PInv'
  BY ProcTypeStep, OrderlyStep, LInvStep, ProcStepIsStep DEF PInv

LEMMA OrderlyExits == PInv => OrderlyExit
  <1> SUFFICES ASSUME PInv, ~ClickedQuit, ~Up, exit # "killed"
               PROVE  /\ exit = "clean"
                      /\ ~shells
                      /\ \A c \in Conns : conn[c] \in {"idle", "queued", "refused", "closed"}
    BY DEF OrderlyExit
  <1>1. exit = "clean" /\ server \in Ending
    BY DEF PInv, ProcTypeOK, Orderly, Up
  <1>2. CASE Served
    BY <1>1, <1>2 DEF PInv, Orderly, LInv, DrainedOnReturn
  <1>3. CASE ~Served
    BY <1>1, <1>3 DEF PInv, Orderly, Init
  <1> QED
    BY <1>1, <1>2, <1>3

\* Every variable of the process keeps its type.
THEOREM ProcTypeCorrect == ProcSpec => []ProcTypeOK
  <1>1. ProcInit => PInv
    BY InitPInv
  <1>2. PInv /\ [ProcNext]_procVars => PInv'
    BY PInvStep
  <1>3. PInv => ProcTypeOK
    BY DEF PInv
  <1> QED
    BY <1>1, <1>2, <1>3, PTL DEF ProcSpec

\* Unless the user quits from the menu or a signal kills the process before it
\* serves, the process ends without a panic, with every session over and every
\* shell closed, whichever of the event loop and the safety net exits first
\* and however the operations of the lifecycle overlap.
THEOREM ExitIsOrderly == ProcSpec => []OrderlyExit
  <1>1. ProcInit => PInv
    BY InitPInv
  <1>2. PInv /\ [ProcNext]_procVars => PInv'
    BY PInvStep
  <1>3. PInv => OrderlyExit
    BY OrderlyExits
  <1> QED
    BY <1>1, <1>2, <1>3, PTL DEF ProcSpec
=============================================================================
