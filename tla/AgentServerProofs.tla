-------------------------- MODULE AgentServerProofs --------------------------
(***************************************************************************)
(* Theorems about the protocol server and the agent server that owns it,   *)
(* for any finite set of connections, any size of the socket buffers and   *)
(* whatever the clients and the owner do.                                  *)
(***************************************************************************)
EXTENDS AgentServer, FiniteSetTheorems, TLAPS

\* The type invariant but for the sign of the two counters.
Shape ==
  /\ stopCh \in BOOLEAN
  /\ listening \in BOOLEAN
  /\ sock \in [Conns -> {"none", "backlog", "open", "closed"}]
  /\ hung \in SUBSET Conns
  /\ inbox \in [Conns -> {0, 1}]
  /\ outbox \in [Conns -> 0..OutCap]
  /\ conns \in SUBSET Conns
  /\ connCount \in Int
  /\ wg \in Int
  /\ accept \in {"accept", "failed", "store", "add", "go", "returned"}
  /\ fresh \in Conns \cup {NoConn}
  /\ pc \in [Conns -> HandlerSteps \cup {"off", "returned"}]
  /\ stop \in {"idle", "listener", "range", "wait", "returned"}
  /\ toClose \in SUBSET Conns
  /\ cast \in {"idle", "range"}
  /\ toTell \in SUBSET Conns
  /\ telling \in Conns \cup {NoConn}
  /\ told \in SUBSET Conns

\* The accept loop holds fresh, which has no handler yet.
Holds(c) == accept \in {"store", "add", "go"} /\ c = fresh

\* A connection has a handler from AcceptSpawns on, the handler closes it
\* before it leaves, and an open connection is held by somebody.
SocketsHeld ==
  /\ accept \in {"store", "add", "go"} => fresh \in Conns
  /\ \A c \in Conns :
       /\ Holds(c) => pc[c] = "off" /\ sock[c] \in {"open", "closed"}
       /\ pc[c] # "off" => sock[c] \in {"open", "closed"}
       /\ pc[c] \in {"delete", "uncount", "done", "returned"} => sock[c] = "closed"
       /\ pc[c] = "off" /\ sock[c] = "open" => Holds(c)

\* What a stop has done by each of its steps.
StopDone ==
  /\ stop \in {"range", "wait", "returned"} => ~listening /\ \A c \in Conns : sock[c] # "backlog"
  /\ stop = "returned" => wg = 0

\* The handlers that run, and the connections that the map and the count have.
Running == {c \in Conns : pc[c] \in HandlerSteps}
Tracked == {c \in Conns : pc[c] \in HandlerSteps \ {"uncount", "done"}
                          \/ (accept \in {"add", "go"} /\ c = fresh)}
Counted == {c \in Conns : pc[c] \in HandlerSteps \ {"done"} \/ (accept = "go" /\ c = fresh)}

Looping == IF accept = "returned" THEN 0 ELSE 1

\* The wait group, the map and the count follow the goroutines.
Tally ==
  /\ wg = Cardinality(Running) + Looping
  /\ conns = Tracked
  /\ connCount = Cardinality(Counted)

\* The inductive invariant: StoppedIsQuiet follows from what the wait group
\* counts, which only the socket's and the accept loop's steps explain.
PInv == Shape /\ SocketsHeld /\ StopDone /\ Tally

-----------------------------------------------------------------------------
LEMMA SetsFinite ==
  /\ IsFiniteSet(Running) /\ Cardinality(Running) \in Nat
  /\ IsFiniteSet(Counted) /\ Cardinality(Counted) \in Nat
<1>1. Running \subseteq Conns /\ Counted \subseteq Conns
  BY DEF Running, Counted
<1> QED
  BY <1>1, ProtocolServerAssumption, FS_Subset, FS_CardinalityType

LEMMA InitPInv == Init => PInv
<1> SUFFICES ASSUME Init PROVE PInv
  OBVIOUS
<1>1. Shape
  <2>1. /\ sock \in [Conns -> {"none", "backlog", "open", "closed"}]
        /\ inbox \in [Conns -> {0, 1}] /\ outbox \in [Conns -> 0..OutCap]
        /\ pc \in [Conns -> HandlerSteps \cup {"off", "returned"}]
    BY ProtocolServerAssumption DEF Init
  <2>2. /\ stopCh = FALSE /\ listening = TRUE /\ hung = {} /\ conns = {} /\ connCount = 0 /\ wg = 1
        /\ accept = "accept" /\ fresh = NoConn /\ stop = "idle" /\ toClose = {}
        /\ cast = "idle" /\ toTell = {} /\ telling = NoConn /\ told = {}
    BY DEF Init
  <2>3. stopCh \in BOOLEAN /\ listening \in BOOLEAN
    BY <2>2
  <2>4. /\ hung \in SUBSET Conns /\ conns \in SUBSET Conns /\ toClose \in SUBSET Conns
        /\ toTell \in SUBSET Conns /\ told \in SUBSET Conns
    BY <2>2
  <2>5. /\ connCount \in Int /\ wg \in Int
        /\ accept \in {"accept", "failed", "store", "add", "go", "returned"}
        /\ fresh \in Conns \cup {NoConn} /\ telling \in Conns \cup {NoConn}
        /\ stop \in {"idle", "listener", "range", "wait", "returned"} /\ cast \in {"idle", "range"}
    BY <2>2
  <2> QED
    BY <2>1, <2>3, <2>4, <2>5 DEF Shape
<1>4. SocketsHeld /\ StopDone
  BY DEF Init, SocketsHeld, StopDone, Holds
<1>2. Running = {} /\ Tracked = {} /\ Counted = {}
  BY DEF Init, Running, Tracked, Counted, HandlerSteps
<1>3. Tally
  BY <1>2, FS_EmptySet DEF Init, Tally, Looping
<1> QED
  BY <1>1, <1>3, <1>4 DEF PInv

\* Every step keeps the types.
LEMMA ShapeStep ==
  ASSUME Shape, accept \in {"store", "add", "go"} => fresh \in Conns, [Next]_vars
  PROVE  Shape'
<1> USE ProtocolServerAssumption DEF Shape, HandlerSteps, netVars, acceptVars, stopVars, castVars, bookVars
<1>1. CASE AcceptFails
  BY <1>1 DEF AcceptFails
<1>2. CASE AcceptAgain
  BY <1>2 DEF AcceptAgain
<1>3. CASE AcceptReturns
  BY <1>3 DEF AcceptReturns
<1>4. CASE AcceptStores
  BY <1>4 DEF AcceptStores
<1>5. CASE AcceptCounts
  BY <1>5 DEF AcceptCounts
<1>6. CASE AcceptSpawns
  BY <1>6 DEF AcceptSpawns
<1>7. CASE StopBegins
  BY <1>7 DEF StopBegins
<1>8. CASE StopListener
  <2>1. sock' \in [Conns -> {"none", "backlog", "open", "closed"}]
    BY <1>8 DEF StopListener
  <2>2. /\ listening' = FALSE /\ stop' = "range" /\ toClose' = conns
        /\ UNCHANGED <<hung, inbox, outbox, acceptVars, stopCh, castVars, bookVars, pc>>
    BY <1>8 DEF StopListener
  <2> QED
    BY <2>1, <2>2
<1>9. CASE StopRanged
  BY <1>9 DEF StopRanged
<1>10. CASE StopWaited
  BY <1>10 DEF StopWaited
<1>11. CASE CastBegins
  BY <1>11 DEF CastBegins
<1>12. CASE CastWrites
  BY <1>12 DEF CastWrites, Written, WriteGoes, WriteBreaks
<1>13. CASE CastEnds
  BY <1>13 DEF CastEnds
<1>14. ASSUME NEW c \in Conns, Dial(c) PROVE Shape'
  BY <1>14 DEF Dial
<1>15. ASSUME NEW c \in Conns, ClientSends(c) PROVE Shape'
  BY <1>15 DEF ClientSends
<1>16. ASSUME NEW c \in Conns, ClientReads(c) PROVE Shape'
  BY <1>16 DEF ClientReads
<1>17. ASSUME NEW c \in Conns, HangsUp(c) PROVE Shape'
  BY <1>17 DEF HangsUp
<1>18. ASSUME NEW c \in Conns, Accept(c) PROVE Shape'
  BY <1>18 DEF Accept
<1>19. ASSUME NEW c \in Conns, Check(c) PROVE Shape'
  BY <1>19 DEF Check, Step
<1>20. ASSUME NEW c \in Conns, ReadRequest(c) PROVE Shape'
  BY <1>20 DEF ReadRequest, Step
<1>21. ASSUME NEW c \in Conns, ReadFails(c) PROVE Shape'
  BY <1>21 DEF ReadFails, Step
<1>22. ASSUME NEW c \in Conns, Encode(c) PROVE Shape'
  BY <1>22 DEF Encode, Step, Written, WriteGoes, WriteBreaks
<1>23. ASSUME NEW c \in Conns, Complain(c) PROVE Shape'
  BY <1>23 DEF Complain, Step, Written, WriteGoes, WriteBreaks
<1>24. ASSUME NEW c \in Conns, CloseConn(c) PROVE Shape'
  BY <1>24 DEF CloseConn, Step
<1>25. ASSUME NEW c \in Conns, DeleteConn(c) PROVE Shape'
  BY <1>25 DEF DeleteConn, Step
<1>26. ASSUME NEW c \in Conns, Uncount(c) PROVE Shape'
  BY <1>26 DEF Uncount, Step
<1>27. ASSUME NEW c \in Conns, Done(c) PROVE Shape'
  BY <1>27 DEF Done, Step
<1>28. ASSUME NEW c \in Conns, StopCloses(c) PROVE Shape'
  BY <1>28 DEF StopCloses
<1>29. ASSUME NEW c \in Conns, CastPicks(c) PROVE Shape'
  BY <1>29 DEF CastPicks
<1>30. CASE Quiescent \/ UNCHANGED vars
  BY <1>30 DEF Quiescent, vars
<1> QED
  BY <1>1, <1>2, <1>3, <1>4, <1>5, <1>6, <1>7, <1>8, <1>9, <1>10, <1>11, <1>12, <1>13, <1>14, <1>15, <1>16, <1>17, <1>18, <1>19, <1>20, <1>21, <1>22, <1>23, <1>24, <1>25, <1>26, <1>27, <1>28, <1>29, <1>30
     DEF Next, Clients, AcceptLoop, HandleConnection, Stop, Cast

\* Every step keeps the connections with those who hold them.
LEMMA HeldStep ==
  ASSUME Shape, SocketsHeld, [Next]_vars
  PROVE  SocketsHeld'
<1> USE ProtocolServerAssumption DEF Shape, SocketsHeld, Holds, HandlerSteps, netVars, acceptVars, stopVars, castVars, bookVars
<1>1. CASE AcceptFails
  BY <1>1 DEF AcceptFails
<1>2. CASE AcceptAgain
  BY <1>2 DEF AcceptAgain
<1>3. CASE AcceptReturns
  BY <1>3 DEF AcceptReturns
<1>4. CASE AcceptStores
  BY <1>4 DEF AcceptStores
<1>5. CASE AcceptCounts
  BY <1>5 DEF AcceptCounts
<1>6. CASE AcceptSpawns
  BY <1>6 DEF AcceptSpawns
<1>7. CASE StopBegins
  BY <1>7 DEF StopBegins
<1>8. CASE StopListener
  BY <1>8 DEF StopListener
<1>9. CASE StopRanged
  BY <1>9 DEF StopRanged
<1>10. CASE StopWaited
  BY <1>10 DEF StopWaited
<1>11. CASE CastBegins
  BY <1>11 DEF CastBegins
<1>12. CASE CastWrites
  BY <1>12 DEF CastWrites, Written, WriteGoes, WriteBreaks
<1>13. CASE CastEnds
  BY <1>13 DEF CastEnds
<1>14. ASSUME NEW c \in Conns, Dial(c) PROVE SocketsHeld'
  BY <1>14 DEF Dial
<1>15. ASSUME NEW c \in Conns, ClientSends(c) PROVE SocketsHeld'
  BY <1>15 DEF ClientSends
<1>16. ASSUME NEW c \in Conns, ClientReads(c) PROVE SocketsHeld'
  BY <1>16 DEF ClientReads
<1>17. ASSUME NEW c \in Conns, HangsUp(c) PROVE SocketsHeld'
  BY <1>17 DEF HangsUp
<1>18. ASSUME NEW c \in Conns, Accept(c) PROVE SocketsHeld'
  BY <1>18 DEF Accept
<1>19. ASSUME NEW c \in Conns, Check(c) PROVE SocketsHeld'
  BY <1>19 DEF Check, Step
<1>20. ASSUME NEW c \in Conns, ReadRequest(c) PROVE SocketsHeld'
  BY <1>20 DEF ReadRequest, Step
<1>21. ASSUME NEW c \in Conns, ReadFails(c) PROVE SocketsHeld'
  BY <1>21 DEF ReadFails, Step
<1>22. ASSUME NEW c \in Conns, Encode(c) PROVE SocketsHeld'
  BY <1>22 DEF Encode, Step, Written, WriteGoes, WriteBreaks
<1>23. ASSUME NEW c \in Conns, Complain(c) PROVE SocketsHeld'
  BY <1>23 DEF Complain, Step, Written, WriteGoes, WriteBreaks
<1>24. ASSUME NEW c \in Conns, CloseConn(c) PROVE SocketsHeld'
  BY <1>24 DEF CloseConn, Step
<1>25. ASSUME NEW c \in Conns, DeleteConn(c) PROVE SocketsHeld'
  BY <1>25 DEF DeleteConn, Step
<1>26. ASSUME NEW c \in Conns, Uncount(c) PROVE SocketsHeld'
  BY <1>26 DEF Uncount, Step
<1>27. ASSUME NEW c \in Conns, Done(c) PROVE SocketsHeld'
  BY <1>27 DEF Done, Step
<1>28. ASSUME NEW c \in Conns, StopCloses(c) PROVE SocketsHeld'
  BY <1>28 DEF StopCloses
<1>29. ASSUME NEW c \in Conns, CastPicks(c) PROVE SocketsHeld'
  BY <1>29 DEF CastPicks
<1>30. CASE Quiescent \/ UNCHANGED vars
  BY <1>30 DEF Quiescent, vars
<1> QED
  BY <1>1, <1>2, <1>3, <1>4, <1>5, <1>6, <1>7, <1>8, <1>9, <1>10, <1>11, <1>12, <1>13, <1>14, <1>15, <1>16, <1>17, <1>18, <1>19, <1>20, <1>21, <1>22, <1>23, <1>24, <1>25, <1>26, <1>27, <1>28, <1>29, <1>30
     DEF Next, Clients, AcceptLoop, HandleConnection, Stop, Cast

\* No step takes back what a stop has done: once the wait group is empty
\* nobody is left who would touch it.
LEMMA StopStep ==
  ASSUME PInv, [Next]_vars
  PROVE  StopDone'
<1>0. stop = "returned" => accept = "returned" /\ \A c \in Conns : pc[c] \notin HandlerSteps
  <2> SUFFICES ASSUME stop = "returned" PROVE accept = "returned" /\ Running = {}
    BY DEF Running
  <2>1. Cardinality(Running) + Looping = 0
    BY DEF PInv, StopDone, Tally
  <2>2. Cardinality(Running) = 0 /\ Looping = 0
    BY <2>1, SetsFinite DEF Looping
  <2> QED
    BY <2>2, SetsFinite, FS_EmptySet DEF Looping
<1>a. Shape /\ SocketsHeld /\ StopDone
  BY DEF PInv
<1> USE <1>0, <1>a DEF Shape, SocketsHeld, Holds, StopDone, HandlerSteps, netVars, acceptVars, stopVars, castVars, bookVars
<1>1. CASE AcceptFails
  BY <1>1 DEF AcceptFails
<1>2. CASE AcceptAgain
  BY <1>2 DEF AcceptAgain
<1>3. CASE AcceptReturns
  BY <1>3 DEF AcceptReturns
<1>4. CASE AcceptStores
  BY <1>4 DEF AcceptStores
<1>5. CASE AcceptCounts
  BY <1>5 DEF AcceptCounts
<1>6. CASE AcceptSpawns
  BY <1>6 DEF AcceptSpawns
<1>7. CASE StopBegins
  BY <1>7 DEF StopBegins
<1>8. CASE StopListener
  BY <1>8 DEF StopListener
<1>9. CASE StopRanged
  BY <1>9 DEF StopRanged
<1>10. CASE StopWaited
  BY <1>10 DEF StopWaited
<1>11. CASE CastBegins
  BY <1>11 DEF CastBegins
<1>12. CASE CastWrites
  BY <1>12 DEF CastWrites, Written, WriteGoes, WriteBreaks
<1>13. CASE CastEnds
  BY <1>13 DEF CastEnds
<1>14. ASSUME NEW c \in Conns, Dial(c) PROVE StopDone'
  BY <1>14 DEF Dial
<1>15. ASSUME NEW c \in Conns, ClientSends(c) PROVE StopDone'
  BY <1>15 DEF ClientSends
<1>16. ASSUME NEW c \in Conns, ClientReads(c) PROVE StopDone'
  BY <1>16 DEF ClientReads
<1>17. ASSUME NEW c \in Conns, HangsUp(c) PROVE StopDone'
  BY <1>17 DEF HangsUp
<1>18. ASSUME NEW c \in Conns, Accept(c) PROVE StopDone'
  BY <1>18 DEF Accept
<1>19. ASSUME NEW c \in Conns, Check(c) PROVE StopDone'
  BY <1>19 DEF Check, Step
<1>20. ASSUME NEW c \in Conns, ReadRequest(c) PROVE StopDone'
  BY <1>20 DEF ReadRequest, Step
<1>21. ASSUME NEW c \in Conns, ReadFails(c) PROVE StopDone'
  BY <1>21 DEF ReadFails, Step
<1>22. ASSUME NEW c \in Conns, Encode(c) PROVE StopDone'
  BY <1>22 DEF Encode, Step, Written, WriteGoes, WriteBreaks
<1>23. ASSUME NEW c \in Conns, Complain(c) PROVE StopDone'
  BY <1>23 DEF Complain, Step, Written, WriteGoes, WriteBreaks
<1>24. ASSUME NEW c \in Conns, CloseConn(c) PROVE StopDone'
  BY <1>24 DEF CloseConn, Step
<1>25. ASSUME NEW c \in Conns, DeleteConn(c) PROVE StopDone'
  BY <1>25 DEF DeleteConn, Step
<1>26. ASSUME NEW c \in Conns, Uncount(c) PROVE StopDone'
  BY <1>26 DEF Uncount, Step
<1>27. ASSUME NEW c \in Conns, Done(c) PROVE StopDone'
  BY <1>27 DEF Done, Step
<1>28. ASSUME NEW c \in Conns, StopCloses(c) PROVE StopDone'
  BY <1>28 DEF StopCloses
<1>29. ASSUME NEW c \in Conns, CastPicks(c) PROVE StopDone'
  BY <1>29 DEF CastPicks
<1>30. CASE Quiescent \/ UNCHANGED vars
  BY <1>30 DEF Quiescent, vars
<1> QED
  BY <1>1, <1>2, <1>3, <1>4, <1>5, <1>6, <1>7, <1>8, <1>9, <1>10, <1>11, <1>12, <1>13, <1>14, <1>15, <1>16, <1>17, <1>18, <1>19, <1>20, <1>21, <1>22, <1>23, <1>24, <1>25, <1>26, <1>27, <1>28, <1>29, <1>30
     DEF Next, Clients, AcceptLoop, HandleConnection, Stop, Cast

\* A step that moves none of what the tally compares.
LEMMA SameTally ==
  ASSUME Tally, UNCHANGED <<wg, conns, connCount>>,
         Running' = Running, Tracked' = Tracked, Counted' = Counted, Looping' = Looping
  PROVE  Tally'
BY DEF Tally

\* The counters and the map move with the goroutines.
LEMMA TallyStep ==
  ASSUME PInv, [Next]_vars
  PROVE  Tally'
<1> DEFINE Same == /\ UNCHANGED <<wg, conns, connCount>>
                  /\ Running' = Running /\ Tracked' = Tracked /\ Counted' = Counted /\ Looping' = Looping
<1>a. Shape /\ SocketsHeld /\ StopDone /\ Tally
  BY DEF PInv
<1>b. Same => Tally'
  BY <1>a, SameTally
<1> HIDE DEF Same
<1> USE DEF HandlerSteps, netVars, acceptVars, stopVars, castVars, bookVars
<1>1. CASE AcceptFails
  <2>1. Same
    BY <1>a, <1>1 DEF Same, Shape, SocketsHeld, Holds, Running, Tracked, Counted, Looping, AcceptFails
  <2> QED
    BY <2>1, <1>b
<1>2. CASE AcceptAgain
  <2>1. Same
    BY <1>a, <1>2 DEF Same, Shape, SocketsHeld, Holds, Running, Tracked, Counted, Looping, AcceptAgain
  <2> QED
    BY <2>1, <1>b
<1>3. CASE AcceptReturns
  <2>1. Running' = Running /\ Tracked' = Tracked /\ Counted' = Counted /\ Looping = 1 /\ Looping' = 0
    BY <1>a, <1>3 DEF Shape, SocketsHeld, Holds, Running, Tracked, Counted, Looping, AcceptReturns
  <2>2. wg' = wg - 1 /\ UNCHANGED <<conns, connCount>>
    BY <1>3 DEF AcceptReturns
  <2> QED
    BY <1>a, <2>1, <2>2, SetsFinite DEF Tally
<1>4. CASE AcceptStores
  <2>1. Running' = Running /\ Tracked' = Tracked \cup {fresh} /\ Counted' = Counted /\ Looping' = Looping
    BY <1>a, <1>4 DEF Shape, SocketsHeld, Holds, Running, Tracked, Counted, Looping, AcceptStores
  <2>2. conns' = conns \cup {fresh} /\ UNCHANGED <<wg, connCount>>
    BY <1>4 DEF AcceptStores
  <2> QED
    BY <1>a, <2>1, <2>2 DEF Tally
<1>5. CASE AcceptCounts
  <2>1. Running' = Running /\ Tracked' = Tracked /\ Looping' = Looping
    BY <1>a, <1>5 DEF Shape, SocketsHeld, Holds, Running, Tracked, Counted, Looping, AcceptCounts
  <2>2. fresh \in Conns /\ fresh \notin Counted /\ Counted' = Counted \cup {fresh}
    BY <1>a, <1>5 DEF Shape, SocketsHeld, Holds, Running, Tracked, Counted, Looping, AcceptCounts
  <2>3. connCount' = connCount + 1 /\ UNCHANGED <<conns, wg>>
    BY <1>5 DEF AcceptCounts
  <2>4. Cardinality(Counted') = Cardinality(Counted) + 1
    BY <2>2, SetsFinite, FS_AddElement
  <2> QED
    BY <1>a, <2>1, <2>3, <2>4 DEF Tally
<1>6. CASE AcceptSpawns
  <2>1. Tracked' = Tracked /\ Counted' = Counted /\ Looping' = Looping
    BY <1>a, <1>6 DEF Shape, SocketsHeld, Holds, Running, Tracked, Counted, Looping, AcceptSpawns
  <2>2. fresh \in Conns /\ fresh \notin Running /\ Running' = Running \cup {fresh}
    BY <1>a, <1>6 DEF Shape, SocketsHeld, Holds, Running, Tracked, Counted, Looping, AcceptSpawns
  <2>3. wg' = wg + 1 /\ UNCHANGED <<conns, connCount>>
    BY <1>6 DEF AcceptSpawns
  <2>4. Cardinality(Running') = Cardinality(Running) + 1
    BY <2>2, SetsFinite, FS_AddElement
  <2> QED
    BY <1>a, <2>1, <2>3, <2>4, SetsFinite DEF Tally, Looping
<1>7. CASE StopBegins
  <2>1. Same
    BY <1>a, <1>7 DEF Same, Shape, SocketsHeld, Holds, Running, Tracked, Counted, Looping, StopBegins
  <2> QED
    BY <2>1, <1>b
<1>8. CASE StopListener
  <2>1. Same
    BY <1>a, <1>8 DEF Same, Shape, SocketsHeld, Holds, Running, Tracked, Counted, Looping, StopListener
  <2> QED
    BY <2>1, <1>b
<1>9. CASE StopRanged
  <2>1. Same
    BY <1>a, <1>9 DEF Same, Shape, SocketsHeld, Holds, Running, Tracked, Counted, Looping, StopRanged
  <2> QED
    BY <2>1, <1>b
<1>10. CASE StopWaited
  <2>1. Same
    BY <1>a, <1>10 DEF Same, Shape, SocketsHeld, Holds, Running, Tracked, Counted, Looping, StopWaited
  <2> QED
    BY <2>1, <1>b
<1>11. CASE CastBegins
  <2>1. Same
    BY <1>a, <1>11 DEF Same, Shape, SocketsHeld, Holds, Running, Tracked, Counted, Looping, CastBegins
  <2> QED
    BY <2>1, <1>b
<1>12. CASE CastWrites
  <2>1. Same
    BY <1>a, <1>12 DEF Same, Shape, SocketsHeld, Holds, Running, Tracked, Counted, Looping, CastWrites, Written, WriteGoes, WriteBreaks
  <2> QED
    BY <2>1, <1>b
<1>13. CASE CastEnds
  <2>1. Same
    BY <1>a, <1>13 DEF Same, Shape, SocketsHeld, Holds, Running, Tracked, Counted, Looping, CastEnds
  <2> QED
    BY <2>1, <1>b
<1>14. ASSUME NEW c \in Conns, Dial(c) PROVE Tally'
  <2>1. Same
    BY <1>a, <1>14 DEF Same, Shape, SocketsHeld, Holds, Running, Tracked, Counted, Looping, Dial
  <2> QED
    BY <2>1, <1>b
<1>15. ASSUME NEW c \in Conns, ClientSends(c) PROVE Tally'
  <2>1. Same
    BY <1>a, <1>15 DEF Same, Shape, SocketsHeld, Holds, Running, Tracked, Counted, Looping, ClientSends
  <2> QED
    BY <2>1, <1>b
<1>16. ASSUME NEW c \in Conns, ClientReads(c) PROVE Tally'
  <2>1. Same
    BY <1>a, <1>16 DEF Same, Shape, SocketsHeld, Holds, Running, Tracked, Counted, Looping, ClientReads
  <2> QED
    BY <2>1, <1>b
<1>17. ASSUME NEW c \in Conns, HangsUp(c) PROVE Tally'
  <2>1. Same
    BY <1>a, <1>17 DEF Same, Shape, SocketsHeld, Holds, Running, Tracked, Counted, Looping, HangsUp
  <2> QED
    BY <2>1, <1>b
<1>18. ASSUME NEW c \in Conns, Accept(c) PROVE Tally'
  <2>1. Same
    BY <1>a, <1>18 DEF Same, Shape, SocketsHeld, Holds, Running, Tracked, Counted, Looping, Accept
  <2> QED
    BY <2>1, <1>b
<1>19. ASSUME NEW c \in Conns, Check(c) PROVE Tally'
  <2>1. Same
    BY <1>a, <1>19 DEF Same, Shape, SocketsHeld, Holds, Running, Tracked, Counted, Looping, Check, Step
  <2> QED
    BY <2>1, <1>b
<1>20. ASSUME NEW c \in Conns, ReadRequest(c) PROVE Tally'
  <2>1. Same
    BY <1>a, <1>20 DEF Same, Shape, SocketsHeld, Holds, Running, Tracked, Counted, Looping, ReadRequest, Step
  <2> QED
    BY <2>1, <1>b
<1>21. ASSUME NEW c \in Conns, ReadFails(c) PROVE Tally'
  <2>1. Same
    BY <1>a, <1>21 DEF Same, Shape, SocketsHeld, Holds, Running, Tracked, Counted, Looping, ReadFails, Step
  <2> QED
    BY <2>1, <1>b
<1>22. ASSUME NEW c \in Conns, Encode(c) PROVE Tally'
  <2>1. Same
    BY <1>a, <1>22 DEF Same, Shape, SocketsHeld, Holds, Running, Tracked, Counted, Looping, Encode, Step, Written, WriteGoes, WriteBreaks
  <2> QED
    BY <2>1, <1>b
<1>23. ASSUME NEW c \in Conns, Complain(c) PROVE Tally'
  <2>1. Same
    BY <1>a, <1>23 DEF Same, Shape, SocketsHeld, Holds, Running, Tracked, Counted, Looping, Complain, Step, Written, WriteGoes, WriteBreaks
  <2> QED
    BY <2>1, <1>b
<1>24. ASSUME NEW c \in Conns, CloseConn(c) PROVE Tally'
  <2>1. Same
    BY <1>a, <1>24 DEF Same, Shape, SocketsHeld, Holds, Running, Tracked, Counted, Looping, CloseConn, Step
  <2> QED
    BY <2>1, <1>b
<1>25. ASSUME NEW c \in Conns, DeleteConn(c) PROVE Tally'
  <2>1. Running' = Running /\ Tracked' = Tracked \ {c} /\ Counted' = Counted /\ Looping' = Looping
    BY <1>a, <1>25 DEF Shape, SocketsHeld, Holds, Running, Tracked, Counted, Looping, DeleteConn, Step
  <2>2. conns' = conns \ {c} /\ UNCHANGED <<wg, connCount>>
    BY <1>25 DEF DeleteConn
  <2> QED
    BY <1>a, <2>1, <2>2 DEF Tally
<1>26. ASSUME NEW c \in Conns, Uncount(c) PROVE Tally'
  <2>0. /\ c \in DOMAIN pc /\ pc[c] = "uncount" /\ pc' = [pc EXCEPT ![c] = "done"]
        /\ UNCHANGED <<accept, fresh>>
    BY <1>a, <1>26 DEF Shape, Uncount, Step
  <2>a. Running' = Running
    BY <2>0 DEF Running
  <2>b. Tracked' = Tracked
    BY <2>0 DEF Tracked
  <2>1. Running' = Running /\ Tracked' = Tracked /\ Looping' = Looping
    BY <2>0, <2>a, <2>b DEF Looping
  <2>2. c \in Counted /\ Counted' = Counted \ {c}
    <3>0. pc[c] = "uncount" /\ pc[c] # "off"
      BY <2>0
    <3>a. ~(accept = "go" /\ c = fresh)
      BY <1>a, <3>0 DEF SocketsHeld, Holds
    <3>1. c \in Counted /\ ~(accept = "go" /\ c = fresh)
      BY <3>0, <3>a DEF Counted
    <3>2. c \notin Counted'
      BY <2>0, <3>1 DEF Counted
    <3>3. \A d \in Conns \ {c} : d \in Counted' <=> d \in Counted
      BY <2>0 DEF Counted
    <3>4. Counted \subseteq Conns /\ Counted' \subseteq Conns
      BY DEF Counted
    <3> QED
      BY <3>1, <3>2, <3>3, <3>4
  <2>3. connCount' = connCount - 1 /\ UNCHANGED <<conns, wg>>
    BY <1>26 DEF Uncount
  <2>4. Cardinality(Counted') = Cardinality(Counted) - 1
    BY <2>2, SetsFinite, FS_RemoveElement
  <2> QED
    BY <1>a, <2>1, <2>3, <2>4 DEF Tally
<1>27. ASSUME NEW c \in Conns, Done(c) PROVE Tally'
  <2>1. Tracked' = Tracked /\ Counted' = Counted /\ Looping' = Looping
    BY <1>a, <1>27 DEF Shape, SocketsHeld, Holds, Running, Tracked, Counted, Looping, Done, Step
  <2>2. c \in Running /\ Running' = Running \ {c}
    BY <1>a, <1>27 DEF Shape, SocketsHeld, Holds, Running, Tracked, Counted, Looping, Done, Step
  <2>3. wg' = wg - 1 /\ UNCHANGED <<conns, connCount>>
    BY <1>27 DEF Done
  <2>4. Cardinality(Running') = Cardinality(Running) - 1
    BY <2>2, SetsFinite, FS_RemoveElement
  <2> QED
    BY <1>a, <2>1, <2>3, <2>4, SetsFinite DEF Tally, Looping
<1>28. ASSUME NEW c \in Conns, StopCloses(c) PROVE Tally'
  <2>1. Same
    BY <1>a, <1>28 DEF Same, Shape, SocketsHeld, Holds, Running, Tracked, Counted, Looping, StopCloses
  <2> QED
    BY <2>1, <1>b
<1>29. ASSUME NEW c \in Conns, CastPicks(c) PROVE Tally'
  <2>1. Same
    BY <1>a, <1>29 DEF Same, Shape, SocketsHeld, Holds, Running, Tracked, Counted, Looping, CastPicks
  <2> QED
    BY <2>1, <1>b
<1>30. CASE Quiescent \/ UNCHANGED vars
  <2>1. Same
    BY <1>30 DEF Same, Running, Tracked, Counted, Looping, Quiescent, vars
  <2> QED
    BY <2>1, <1>b
<1> QED
  BY <1>1, <1>2, <1>3, <1>4, <1>5, <1>6, <1>7, <1>8, <1>9, <1>10, <1>11, <1>12, <1>13, <1>14, <1>15, <1>16, <1>17, <1>18, <1>19, <1>20, <1>21, <1>22, <1>23, <1>24, <1>25, <1>26, <1>27, <1>28, <1>29, <1>30
     DEF Next, Clients, AcceptLoop, HandleConnection, Stop, Cast

\* The inductive invariant is kept by every step.
LEMMA PStep == PInv /\ [Next]_vars => PInv'
<1> SUFFICES ASSUME PInv, [Next]_vars PROVE PInv'
  OBVIOUS
<1>1. Shape' /\ SocketsHeld'
  BY ShapeStep, HeldStep DEF PInv, SocketsHeld
<1>2. StopDone' /\ Tally'
  BY StopStep, TallyStep
<1> QED
  BY <1>1, <1>2 DEF PInv

\* The invariant types the counters too, and leaves nothing to a server that
\* was stopped.
LEMMA PInvGives == PInv => TypeOK /\ StoppedIsQuiet
<1> SUFFICES ASSUME PInv PROVE TypeOK /\ StoppedIsQuiet
  OBVIOUS
<1>1. wg \in Nat /\ connCount \in Nat
  BY SetsFinite DEF PInv, Tally, Looping
<1>2. TypeOK
  BY <1>1 DEF PInv, Shape, TypeOK
<1>3. ASSUME stop = "returned" PROVE accept = "returned" /\ Running = {}
  <2>1. Cardinality(Running) + Looping = 0
    BY <1>3 DEF PInv, StopDone, Tally
  <2>2. Cardinality(Running) = 0 /\ Looping = 0
    BY <2>1, SetsFinite DEF Looping
  <2> QED
    BY <2>2, SetsFinite, FS_EmptySet DEF Looping
<1>4. ASSUME stop = "returned" PROVE Tracked = {} /\ Counted = {}
  BY <1>3, <1>4 DEF Running, Tracked, Counted
<1>5. ASSUME stop = "returned" PROVE conns = {} /\ connCount = 0
  BY <1>4, <1>5, FS_EmptySet DEF PInv, Tally
<1>6. ASSUME stop = "returned", NEW c \in Conns
      PROVE  pc[c] \in {"off", "returned"} /\ sock[c] \in {"none", "closed"}
  <2>1. pc[c] \in {"off", "returned"}
    BY <1>3, <1>6 DEF PInv, Shape, Running
  <2>2. sock[c] # "backlog" /\ sock[c] # "open"
    BY <1>3, <1>6, <2>1 DEF PInv, SocketsHeld, StopDone, Holds
  <2> QED
    BY <2>1, <2>2, <1>6 DEF PInv, Shape
<1> QED
  BY <1>2, <1>3, <1>5, <1>6 DEF StoppedIsQuiet

\* Every variable of the protocol server keeps its type: the count and the
\* wait group are never negative.
THEOREM TypeCorrect == Spec => []TypeOK
<1>1. Init => PInv
  BY InitPInv
<1>2. PInv /\ [Next]_vars => PInv'
  BY PStep
<1>3. PInv => TypeOK
  BY PInvGives
<1> QED
  BY <1>1, <1>2, <1>3, PTL DEF Spec

\* When Stop returns, for any number of connections and whatever they were
\* doing, no goroutine runs and nothing is open, tracked or counted.
THEOREM StopIsQuiet == Spec => []StoppedIsQuiet
<1>1. Init => PInv
  BY InitPInv
<1>2. PInv /\ [Next]_vars => PInv'
  BY PStep
<1>3. PInv => StoppedIsQuiet
  BY PInvGives
<1> QED
  BY <1>1, <1>2, <1>3, PTL DEF Spec

-----------------------------------------------------------------------------
(* The agent server.                                                        *)

\* What the owner of the protocol server has done by each of its steps.
Owned ==
  /\ start \in {"pid", "ready", "arm", "up", "undo", "failed"}
  /\ leave # "no" => start = "up"
  /\ leave \in {"stop", "left"} => ~pidFile
  /\ leave = "left" \/ start = "failed" => stop = "returned"

AInv == PInv /\ Owned

\* Every step of the agent server is a step of the protocol server or leaves
\* it alone.
LEMMA AgentStep ==
  ASSUME [AgentNext]_agentVars
  PROVE  [Next]_vars
<1>1. CASE Starting \/ IdleFires \/ ShutdownAsked \/ Watcher \/ StopAgent \/ Stopping
  BY <1>1 DEF Starting, WritePIDFile, StartFails, SetReady, StartIdleTimer, IdleFires, ShutdownAsked,
              Watcher, WatcherStops, WatcherSignals, StopAgent, Stopping, StopInitiates,
              RemovePIDFile, StopLeaves
<1>2. CASE Serves
  BY <1>2 DEF Serves, ProtoStop, BroadcastStopping, Handles, Next, HandleConnection
<1>3. ASSUME NEW c \in Conns, Dispatch(c) PROVE Next
  BY <1>3 DEF Dispatch, Next, HandleConnection
<1>4. CASE Left \/ UNCHANGED agentVars
  BY <1>4 DEF Left, agentVars
<1> QED
  BY <1>1, <1>2, <1>3, <1>4 DEF AgentNext

\* A protocol server that has stopped stays stopped.
LEMMA StoppedStays ==
  ASSUME [Next]_vars, stop = "returned"
  PROVE  stop' = "returned"
<1> USE DEF netVars, acceptVars, stopVars, castVars, bookVars
<1>1. CASE Clients
  BY <1>1 DEF Clients, Dial, ClientSends, ClientReads, HangsUp
<1>2. CASE AcceptLoop
  BY <1>2 DEF AcceptLoop, Accept, AcceptFails, AcceptAgain, AcceptReturns, AcceptStores, AcceptCounts, AcceptSpawns
<1>3. ASSUME NEW c \in Conns, HandleConnection(c) PROVE stop' = stop
  BY <1>3 DEF HandleConnection, Check, ReadRequest, ReadFails, Encode, Complain, CloseConn, DeleteConn, Uncount, Done
<1>4. CASE Stop
  BY <1>4 DEF Stop, StopBegins, StopListener, StopCloses, StopRanged, StopWaited
<1>5. CASE CastBegins \/ Cast
  BY <1>5 DEF CastBegins, Cast, CastPicks, CastWrites, CastEnds
<1>6. CASE Quiescent \/ UNCHANGED vars
  BY <1>6 DEF Quiescent, vars
<1> QED
  BY <1>1, <1>2, <1>3, <1>4, <1>5, <1>6 DEF Next

\* The agent server implements the protocol server, whose theorems so hold of
\* it: Start, Stop, the lifecycle and the PID file change no connection but
\* through ProtocolServer's own steps.
THEOREM AgentRunsServer == AgentSpec => Init /\ [][Next]_vars
<1>1. AgentInit => Init
  BY DEF AgentInit
<1>2. [AgentNext]_agentVars => [Next]_vars
  BY AgentStep
<1> QED
  BY <1>1, <1>2, PTL DEF AgentSpec

LEMMA OwnedStep ==
  ASSUME Owned, [AgentNext]_agentVars
  PROVE  Owned'
<1>1. stop = "returned" => stop' = "returned"
  BY AgentStep, StoppedStays
<1> USE <1>1 DEF Owned, lifeVars
<1>2. CASE Starting
  BY <1>2 DEF Starting, WritePIDFile, StartFails, SetReady, StartIdleTimer
<1>3. CASE IdleFires \/ ShutdownAsked \/ Watcher
  BY <1>3 DEF IdleFires, ShutdownAsked, Watcher, WatcherStops, WatcherSignals
<1>4. CASE StopAgent \/ Stopping
  BY <1>4 DEF StopAgent, Stopping, StopInitiates, RemovePIDFile, StopLeaves
<1>5. CASE Serves
  BY <1>5 DEF Serves
<1>6. ASSUME NEW c \in Conns, Dispatch(c) PROVE Owned'
  BY <1>6 DEF Dispatch
<1>7. CASE Left \/ UNCHANGED agentVars
  BY <1>7 DEF Left, agentVars
<1> QED
  BY <1>2, <1>3, <1>4, <1>5, <1>6, <1>7 DEF AgentNext

\* The variables of the lifecycle and of the owner.
AgentTypes ==
  /\ start \in {"pid", "ready", "arm", "up", "undo", "failed"}
  /\ leave \in {"no", "initiate", "remove", "stop", "left"}
  /\ pidFile \in BOOLEAN
  /\ lcState \in {"Starting", "Ready", "ShuttingDown", "Stopped"}
  /\ once \in {"no", "polling", "closing", "over"}
  /\ asked \in BOOLEAN

LEMMA AgentTypesStep ==
  ASSUME AgentTypes, [AgentNext]_agentVars
  PROVE  AgentTypes'
<1> USE DEF AgentTypes, lifeVars
<1>1. CASE Starting
  BY <1>1 DEF Starting, WritePIDFile, StartFails, SetReady, StartIdleTimer
<1>2. CASE IdleFires \/ ShutdownAsked
  BY <1>2 DEF IdleFires, ShutdownAsked, InitiateShutdown
<1>3. CASE Watcher
  BY <1>3 DEF Watcher, WatcherStops, WatcherSignals
<1>4. CASE StopAgent \/ Stopping
  BY <1>4 DEF StopAgent, Stopping, StopInitiates, InitiateShutdown, RemovePIDFile, StopLeaves
<1>5. CASE Serves
  BY <1>5 DEF Serves
<1>6. ASSUME NEW c \in Conns, Dispatch(c) PROVE AgentTypes'
  BY <1>6 DEF Dispatch
<1>7. CASE Left \/ UNCHANGED agentVars
  BY <1>7 DEF Left, agentVars
<1> QED
  BY <1>1, <1>2, <1>3, <1>4, <1>5, <1>6, <1>7 DEF AgentNext

\* Every variable of the agent server keeps its type.
THEOREM AgentTypeCorrect == AgentSpec => []AgentTypeOK
<1>1. AgentInit => PInv /\ AgentTypes
  BY InitPInv DEF AgentInit, AgentTypes
<1>2. PInv /\ AgentTypes /\ [AgentNext]_agentVars => PInv' /\ AgentTypes'
  BY AgentStep, PStep, AgentTypesStep
<1>3. PInv /\ AgentTypes => AgentTypeOK
  BY PInvGives DEF AgentTypes, AgentTypeOK
<1> QED
  BY <1>1, <1>2, <1>3, PTL DEF AgentSpec

\* A server that was stopped, or whose start failed after its protocol server
\* was up, has left no goroutine and no connection, and one that was stopped no
\* PID file; for any number of connections.
THEOREM AgentLeavesNothing == AgentSpec => []LeavesNothing
<1>1. AgentInit => AInv
  BY InitPInv DEF AgentInit, AInv, Owned
<1>2. AInv /\ [AgentNext]_agentVars => AInv'
  BY AgentStep, PStep, OwnedStep DEF AInv
<1>3. AInv => LeavesNothing
  <2> SUFFICES ASSUME AInv PROVE LeavesNothing
    OBVIOUS
  <2>1. StoppedIsQuiet
    BY PInvGives DEF AInv
  <2>2. stop = "returned" => ~listening
    BY DEF AInv, PInv, StopDone
  <2> QED
    BY <2>1, <2>2 DEF AInv, Owned, LeavesNothing
<1> QED
  BY <1>1, <1>2, <1>3, PTL DEF AgentSpec
=============================================================================
