----------------------------- MODULE BridgeProofs -----------------------------
(***************************************************************************)
(* Theorems about the bridge: about LazyProxy, for any number of           *)
(* concurrent tool calls and of failures, whatever the server does; and,   *)
(* in an instance of ServerInstances, about the socket that any number of  *)
(* bridges and servers share.                                              *)
(***************************************************************************)
EXTENDS LazyProxy, ServerInstances, FiniteSetTheorems, TLAPS

\* The type invariant but for the bound of execs.
Shape ==
  /\ lock \in Calls \cup {NoCall}
  /\ connected \in BOOLEAN
  /\ dialled \in Nat
  /\ client \in 0..dialled
  /\ open \subseteq 1..dialled
  /\ process \in {"running", "panicked", "exited"}
  /\ pc \in [Calls -> Steps]
  /\ attempt \in [Calls -> {1, 2}]
  /\ used \in [Calls -> [{1, 2} -> 0..dialled]]
  /\ held \in [Calls -> 0..dialled]
  /\ result \in [Calls -> {"none", "ok", "failed"}]
  /\ server \in {"none", "live", "mute"}
  /\ inbox \subseteq Calls \X {1, 2}
  /\ execs \in [Calls -> Nat]
  /\ launches \in Nat
  /\ faults \in 0..MaxFaults

\* What a call does while it holds p.mu, and while it has a new connection.
Locked == {"dialing", "reusing", "launching", "waiting", "shaking"}
Shaking == {"reusing", "shaking"}

LockHeld == \A k \in Calls : pc[k] \in Locked <=> lock = k

ClientSet ==
  /\ connected <=> client # Nil
  /\ \A k \in Calls : pc[k] \in Shaking => held[k] # Nil

\* A second attempt comes after a reset that nobody's launch overlapped: the
\* client it finds, and one that is being made, are newer than the lost one.
Newer ==
  \A k \in Calls : attempt[k] = 2 =>
    /\ client # Nil => client > used[k][1]
    /\ \A j \in Calls : pc[j] \in Shaking => held[j] > used[k][1]
    /\ used[k][2] # Nil => used[k][2] > used[k][1]

\* Each attempt is sent once.
Unsent == {"idle", "ensure", "calling"} \cup Locked

SentOnce ==
  \A k \in Calls :
    /\ attempt[k] = 1 => used[k][2] = Nil
    /\ pc[k] = "resetting" => attempt[k] = 1
    /\ pc[k] \in Unsent => used[k][attempt[k]] = Nil
    /\ \A a \in {1, 2} : <<k, a>> \in inbox => used[k][a] # Nil

\* A request that was sent waits or was executed at most once.
Sent(k, a) == IF used[k][a] # Nil THEN 1 ELSE 0
Waits(k, a) == IF <<k, a>> \in inbox THEN 1 ELSE 0

Executed ==
  \A k \in Calls :
    /\ execs[k] + Waits(k, 1) + Waits(k, 2) <= Sent(k, 1) + Sent(k, 2)
    /\ result[k] = "ok" => execs[k] >= 1

\* The inductive invariant: mutual exclusion orders dials and resets, and the
\* order of the dials is what tells a retry's connection from the lost one.
PInv == Shape /\ LockHeld /\ ClientSet /\ Newer /\ SentOnce /\ Executed

-----------------------------------------------------------------------------
LEMMA InitPInv == Init => PInv
<1> SUFFICES ASSUME Init PROVE PInv
  OBVIOUS
<1>1. Shape
  <2>1. /\ pc \in [Calls -> Steps] /\ attempt \in [Calls -> {1, 2}]
        /\ result \in [Calls -> {"none", "ok", "failed"}] /\ execs \in [Calls -> Nat]
    BY DEF Init, Steps
  <2>2. used \in [Calls -> [{1, 2} -> 0..dialled]] /\ held \in [Calls -> 0..dialled]
    BY DEF Init, Nil
  <2>3. lock \in Calls \cup {NoCall} /\ connected \in BOOLEAN
    BY DEF Init
  <2>a. dialled \in Nat /\ client \in 0..dialled
    BY DEF Init, Nil
  <2>b. open \subseteq 1..dialled
    BY DEF Init
  <2>4. /\ process \in {"running", "panicked", "exited"} /\ server \in {"none", "live", "mute"}
        /\ inbox \subseteq Calls \X {1, 2} /\ launches \in Nat /\ faults \in 0..MaxFaults
    BY LazyProxyAssumption DEF Init
  <2> QED
    BY <2>1, <2>2, <2>3, <2>a, <2>b, <2>4 DEF Shape
<1>2. LockHeld /\ ClientSet /\ Newer
  BY LazyProxyAssumption DEF Init, LockHeld, ClientSet, Newer, Locked, Shaking
<1>3. SentOnce
  BY DEF Init, SentOnce, Unsent
<1>4. Executed
  BY DEF Init, Executed, Sent, Waits
<1> QED
  BY <1>1, <1>2, <1>3, <1>4 DEF PInv

\* A reset leaves no client and takes one connection away.
LEMMA TearDownShape ==
  ASSUME Shape, TearDown, dialled' = dialled
  PROVE  client' \in 0..dialled' /\ open' \subseteq 1..dialled' /\ connected' \in BOOLEAN
<1>1. open' \subseteq open
  BY DEF TearDown
<1>2. open \subseteq 1..dialled /\ dialled \in Nat
  BY DEF Shape
<1>3. client' \in 0..dialled'
  BY <1>2 DEF TearDown, Nil
<1>4. connected' \in BOOLEAN
  BY DEF TearDown
<1> QED
  BY <1>1, <1>2, <1>3, <1>4

\* Every step keeps the types.
LEMMA ShapeStep ==
  ASSUME Shape, [Next]_vars
  PROVE  Shape'
<1> USE LazyProxyAssumption DEF Shape, Steps, Nil, proxyVars, callVars, envVars
<1>1. ASSUME NEW k \in Calls, Begin(k) PROVE Shape'
  BY <1>1 DEF Begin, At, Go
<1>2. ASSUME NEW k \in Calls, EnsureConnected(k) PROVE Shape'
  BY <1>2 DEF EnsureConnected, At, Go
<1>3. ASSUME NEW k \in Calls, EnsureLaunch(k) PROVE Shape'
  BY <1>3 DEF EnsureLaunch, At, Go
<1>4. ASSUME NEW k \in Calls, DialExisting(k) PROVE Shape'
  BY <1>4 DEF DialExisting, At, Go, Connect
<1>5. ASSUME NEW k \in Calls, DialNobody(k) PROVE Shape'
  BY <1>5 DEF DialNobody, At, Go
<1>6. ASSUME NEW k \in Calls, HandshakeOk(k) PROVE Shape'
  BY <1>6 DEF HandshakeOk, At, Go, Publish, Unlock
<1>7. ASSUME NEW k \in Calls, StaleSocket(k) PROVE Shape'
  <2>1. open' \subseteq 1..dialled
    BY <1>7 DEF StaleSocket
  <2>2. faults' \in 0..MaxFaults
    BY <1>7 DEF StaleSocket, HandshakeFails, Fault
  <2>3. /\ server' = "none" /\ pc' = [pc EXCEPT ![k] = "launching"]
        /\ UNCHANGED <<proxyVars, dialled, process, attempt, used, held, result, inbox, execs, launches>>
    BY <1>7 DEF StaleSocket, Go
  <2> QED
    BY <2>1, <2>2, <2>3
<1>8. ASSUME NEW k \in Calls, Launch(k) PROVE Shape'
  BY <1>8 DEF Launch, At, Go, Fault
<1>9. ASSUME NEW k \in Calls, LaunchFails(k) PROVE Shape'
  BY <1>9 DEF LaunchFails, At, Go, Fault, Abandon, Unlock, Return
<1>10. ASSUME NEW k \in Calls, SocketAppears(k) PROVE Shape'
  BY <1>10 DEF SocketAppears, At, Go, Connect
<1>11. ASSUME NEW k \in Calls, WaitTimesOut(k) PROVE Shape'
  BY <1>11 DEF WaitTimesOut, At, Go, Abandon, Unlock, Return
<1>12. ASSUME NEW k \in Calls, FreshHandshakeFails(k) PROVE Shape'
  BY <1>12 DEF FreshHandshakeFails, At, Go, HandshakeFails, Fault, Abandon, Unlock, Return
<1>13. ASSUME NEW k \in Calls, Send(k) PROVE Shape'
  BY <1>13 DEF Send, At, Go, Deliver
<1>14. ASSUME NEW k \in Calls, SendOnDead(k) PROVE Shape'
  BY <1>14 DEF SendOnDead, At, Go, ConnectionLost, Return
<1>15. ASSUME NEW k \in Calls, SendOnNil(k) PROVE Shape'
  BY <1>15 DEF SendOnNil, At
<1>16. ASSUME NEW k \in Calls, Lost(k) PROVE Shape'
  BY <1>16 DEF Lost, At, Go, ConnectionLost, Return
<1>17. ASSUME NEW k \in Calls, TimesOut(k) PROVE Shape'
  BY <1>17 DEF TimesOut, At, Go, Fault
<1>18. ASSUME NEW k \in Calls, ResetAndRetry(k) PROVE Shape'
  <2>1. client' \in 0..dialled' /\ open' \subseteq 1..dialled' /\ connected' \in BOOLEAN
    BY <1>18, TearDownShape DEF ResetAndRetry
  <2>2. /\ attempt' = [attempt EXCEPT ![k] = 2] /\ pc' = [pc EXCEPT ![k] = "ensure"]
        /\ UNCHANGED <<lock, dialled, process, used, held, result, envVars>>
    BY <1>18 DEF ResetAndRetry, Go
  <2> QED
    BY <2>1, <2>2
<1>19. ASSUME NEW k \in Calls, ResetAndGiveUp(k) PROVE Shape'
  <2>1. client' \in 0..dialled' /\ open' \subseteq 1..dialled' /\ connected' \in BOOLEAN
    BY <1>19, TearDownShape DEF ResetAndGiveUp
  <2>2. /\ pc' = [pc EXCEPT ![k] = "returned"] /\ result' = [result EXCEPT ![k] = "failed"]
        /\ UNCHANGED <<lock, dialled, process, attempt, used, held, envVars>>
    BY <1>19 DEF ResetAndGiveUp, Go, Return
  <2> QED
    BY <2>1, <2>2
<1>20. ASSUME NEW k \in Calls, NEW a \in {1, 2}, Execute(k, a) PROVE Shape'
  BY <1>20 DEF Execute, At, Go, Return
<1>21. CASE Close
  <2>1. client' \in 0..dialled' /\ open' \subseteq 1..dialled' /\ connected' \in BOOLEAN
    BY <1>21, TearDownShape DEF Close
  <2>2. process' = "exited" /\ UNCHANGED <<lock, dialled, callVars, envVars>>
    BY <1>21 DEF Close
  <2> QED
    BY <2>1, <2>2
<1>22. CASE Crash
  BY <1>22 DEF Crash, Fault
<1>23. CASE Hang
  BY <1>23 DEF Hang, Fault
<1>24. CASE Ended \/ UNCHANGED vars
  BY <1>24 DEF Ended, vars
<1> QED
  BY <1>1, <1>2, <1>3, <1>4, <1>5, <1>6, <1>7, <1>8, <1>9, <1>10, <1>11,
     <1>12, <1>13, <1>14, <1>15, <1>16, <1>17, <1>18, <1>19, <1>20, <1>21,
     <1>22, <1>23, <1>24
     DEF Next, Running, Ensure, CallTool, Reset

\* p.mu is held by the one call that launches.
LEMMA LockStep ==
  ASSUME Shape, LockHeld, [Next]_vars
  PROVE  LockHeld'
<1> USE LazyProxyAssumption DEF Shape, LockHeld, Locked, Steps, proxyVars, callVars, envVars
<1>1. ASSUME NEW k \in Calls, Begin(k) PROVE LockHeld'
  BY <1>1 DEF Begin, At, Go
<1>2. ASSUME NEW k \in Calls, EnsureConnected(k) PROVE LockHeld'
  BY <1>2 DEF EnsureConnected, At, Go
<1>3. ASSUME NEW k \in Calls, EnsureLaunch(k) PROVE LockHeld'
  BY <1>3 DEF EnsureLaunch, At, Go
<1>4. ASSUME NEW k \in Calls, DialExisting(k) PROVE LockHeld'
  BY <1>4 DEF DialExisting, At, Go, Connect
<1>5. ASSUME NEW k \in Calls, DialNobody(k) PROVE LockHeld'
  BY <1>5 DEF DialNobody, At, Go
<1>6. ASSUME NEW k \in Calls, HandshakeOk(k) PROVE LockHeld'
  BY <1>6 DEF HandshakeOk, At, Go, Publish, Unlock
<1>7. ASSUME NEW k \in Calls, StaleSocket(k) PROVE LockHeld'
  BY <1>7 DEF StaleSocket, At, Go, HandshakeFails, Fault
<1>8. ASSUME NEW k \in Calls, Launch(k) PROVE LockHeld'
  BY <1>8 DEF Launch, At, Go, Fault
<1>9. ASSUME NEW k \in Calls, LaunchFails(k) PROVE LockHeld'
  BY <1>9 DEF LaunchFails, At, Go, Fault, Abandon, Unlock, Return
<1>10. ASSUME NEW k \in Calls, SocketAppears(k) PROVE LockHeld'
  BY <1>10 DEF SocketAppears, At, Go, Connect
<1>11. ASSUME NEW k \in Calls, WaitTimesOut(k) PROVE LockHeld'
  BY <1>11 DEF WaitTimesOut, At, Go, Abandon, Unlock, Return
<1>12. ASSUME NEW k \in Calls, FreshHandshakeFails(k) PROVE LockHeld'
  BY <1>12 DEF FreshHandshakeFails, At, Go, HandshakeFails, Fault, Abandon, Unlock, Return
<1>13. ASSUME NEW k \in Calls, Send(k) PROVE LockHeld'
  BY <1>13 DEF Send, At, Go, Deliver
<1>14. ASSUME NEW k \in Calls, SendOnDead(k) PROVE LockHeld'
  BY <1>14 DEF SendOnDead, At, Go, ConnectionLost, Return
<1>15. ASSUME NEW k \in Calls, SendOnNil(k) PROVE LockHeld'
  BY <1>15 DEF SendOnNil, At
<1>16. ASSUME NEW k \in Calls, Lost(k) PROVE LockHeld'
  BY <1>16 DEF Lost, At, Go, ConnectionLost, Return
<1>17. ASSUME NEW k \in Calls, TimesOut(k) PROVE LockHeld'
  BY <1>17 DEF TimesOut, At, Go, Fault
<1>18. ASSUME NEW k \in Calls, ResetAndRetry(k) PROVE LockHeld'
  BY <1>18 DEF ResetAndRetry, At, Go, TearDown
<1>19. ASSUME NEW k \in Calls, ResetAndGiveUp(k) PROVE LockHeld'
  BY <1>19 DEF ResetAndGiveUp, At, Go, TearDown, Return
<1>20. ASSUME NEW k \in Calls, NEW a \in {1, 2}, Execute(k, a) PROVE LockHeld'
  BY <1>20 DEF Execute, At, Go, Return
<1>21. CASE Close
  BY <1>21 DEF Close, TearDown
<1>22. CASE Crash
  BY <1>22 DEF Crash, Fault
<1>23. CASE Hang
  BY <1>23 DEF Hang, Fault
<1>24. CASE Ended \/ UNCHANGED vars
  BY <1>24 DEF Ended, vars
<1> QED
  BY <1>1, <1>2, <1>3, <1>4, <1>5, <1>6, <1>7, <1>8, <1>9, <1>10, <1>11,
     <1>12, <1>13, <1>14, <1>15, <1>16, <1>17, <1>18, <1>19, <1>20, <1>21,
     <1>22, <1>23, <1>24
     DEF Next, Running, Ensure, CallTool, Reset

\* The flag and the client are set and cleared together.
LEMMA ClientStep ==
  ASSUME Shape, LockHeld, ClientSet, [Next]_vars
  PROVE  ClientSet'
<1> USE LazyProxyAssumption DEF Shape, ClientSet, Shaking, Nil, proxyVars, callVars, envVars
<1>1. ASSUME NEW k \in Calls, Begin(k) PROVE ClientSet'
  BY <1>1 DEF Begin, At, Go
<1>2. ASSUME NEW k \in Calls, EnsureConnected(k) PROVE ClientSet'
  BY <1>2 DEF EnsureConnected, At, Go
<1>3. ASSUME NEW k \in Calls, EnsureLaunch(k) PROVE ClientSet'
  BY <1>3 DEF EnsureLaunch, At, Go
<1>4. ASSUME NEW k \in Calls, DialExisting(k) PROVE ClientSet'
  BY <1>4 DEF DialExisting, At, Go, Connect
<1>5. ASSUME NEW k \in Calls, DialNobody(k) PROVE ClientSet'
  BY <1>5 DEF DialNobody, At, Go
<1>6. ASSUME NEW k \in Calls, HandshakeOk(k) PROVE ClientSet'
  BY <1>6 DEF HandshakeOk, At, Go, Publish, Unlock
<1>7. ASSUME NEW k \in Calls, StaleSocket(k) PROVE ClientSet'
  BY <1>7 DEF StaleSocket, At, Go, HandshakeFails, Fault
<1>8. ASSUME NEW k \in Calls, Launch(k) PROVE ClientSet'
  BY <1>8 DEF Launch, At, Go, Fault
<1>9. ASSUME NEW k \in Calls, LaunchFails(k) PROVE ClientSet'
  BY <1>9 DEF LaunchFails, At, Go, Fault, Abandon, Unlock, Return
<1>10. ASSUME NEW k \in Calls, SocketAppears(k) PROVE ClientSet'
  BY <1>10 DEF SocketAppears, At, Go, Connect
<1>11. ASSUME NEW k \in Calls, WaitTimesOut(k) PROVE ClientSet'
  BY <1>11 DEF WaitTimesOut, At, Go, Abandon, Unlock, Return
<1>12. ASSUME NEW k \in Calls, FreshHandshakeFails(k) PROVE ClientSet'
  BY <1>12 DEF FreshHandshakeFails, At, Go, HandshakeFails, Fault, Abandon, Unlock, Return
<1>13. ASSUME NEW k \in Calls, Send(k) PROVE ClientSet'
  BY <1>13 DEF Send, At, Go, Deliver
<1>14. ASSUME NEW k \in Calls, SendOnDead(k) PROVE ClientSet'
  BY <1>14 DEF SendOnDead, At, Go, ConnectionLost, Return
<1>15. ASSUME NEW k \in Calls, SendOnNil(k) PROVE ClientSet'
  BY <1>15 DEF SendOnNil, At
<1>16. ASSUME NEW k \in Calls, Lost(k) PROVE ClientSet'
  BY <1>16 DEF Lost, At, Go, ConnectionLost, Return
<1>17. ASSUME NEW k \in Calls, TimesOut(k) PROVE ClientSet'
  BY <1>17 DEF TimesOut, At, Go, Fault
<1>18. ASSUME NEW k \in Calls, ResetAndRetry(k) PROVE ClientSet'
  BY <1>18 DEF ResetAndRetry, At, Go, TearDown
<1>19. ASSUME NEW k \in Calls, ResetAndGiveUp(k) PROVE ClientSet'
  BY <1>19 DEF ResetAndGiveUp, At, Go, TearDown, Return
<1>20. ASSUME NEW k \in Calls, NEW a \in {1, 2}, Execute(k, a) PROVE ClientSet'
  BY <1>20 DEF Execute, At, Go, Return
<1>21. CASE Close
  BY <1>21 DEF Close, TearDown
<1>22. CASE Crash
  BY <1>22 DEF Crash, Fault
<1>23. CASE Hang
  BY <1>23 DEF Hang, Fault
<1>24. CASE Ended \/ UNCHANGED vars
  BY <1>24 DEF Ended, vars
<1> QED
  BY <1>1, <1>2, <1>3, <1>4, <1>5, <1>6, <1>7, <1>8, <1>9, <1>10, <1>11,
     <1>12, <1>13, <1>14, <1>15, <1>16, <1>17, <1>18, <1>19, <1>20, <1>21,
     <1>22, <1>23, <1>24
     DEF Next, Running, Ensure, CallTool, Reset

\* Connections made after a reset are newer than those it tore down.
LEMMA NewerStep ==
  ASSUME Shape, LockHeld, ClientSet, Newer, SentOnce, [Next]_vars
  PROVE  Newer'
<1> USE LazyProxyAssumption DEF Shape, Newer, Shaking, Nil, proxyVars, callVars, envVars
<1>1. ASSUME NEW k \in Calls, Begin(k) PROVE Newer'
  BY <1>1 DEF Begin, At, Go
<1>2. ASSUME NEW k \in Calls, EnsureConnected(k) PROVE Newer'
  BY <1>2 DEF EnsureConnected, At, Go
<1>3. ASSUME NEW k \in Calls, EnsureLaunch(k) PROVE Newer'
  BY <1>3 DEF EnsureLaunch, At, Go
<1>4. ASSUME NEW k \in Calls, DialExisting(k) PROVE Newer'
  BY <1>4 DEF DialExisting, At, Go, Connect
<1>5. ASSUME NEW k \in Calls, DialNobody(k) PROVE Newer'
  BY <1>5 DEF DialNobody, At, Go
<1>6. ASSUME NEW k \in Calls, HandshakeOk(k) PROVE Newer'
  BY <1>6 DEF HandshakeOk, At, Go, Publish, Unlock
<1>7. ASSUME NEW k \in Calls, StaleSocket(k) PROVE Newer'
  BY <1>7 DEF StaleSocket, At, Go, HandshakeFails, Fault
<1>8. ASSUME NEW k \in Calls, Launch(k) PROVE Newer'
  BY <1>8 DEF Launch, At, Go, Fault
<1>9. ASSUME NEW k \in Calls, LaunchFails(k) PROVE Newer'
  BY <1>9 DEF LaunchFails, At, Go, Fault, Abandon, Unlock, Return
<1>10. ASSUME NEW k \in Calls, SocketAppears(k) PROVE Newer'
  BY <1>10 DEF SocketAppears, At, Go, Connect
<1>11. ASSUME NEW k \in Calls, WaitTimesOut(k) PROVE Newer'
  BY <1>11 DEF WaitTimesOut, At, Go, Abandon, Unlock, Return
<1>12. ASSUME NEW k \in Calls, FreshHandshakeFails(k) PROVE Newer'
  BY <1>12 DEF FreshHandshakeFails, At, Go, HandshakeFails, Fault, Abandon, Unlock, Return
<1>13. ASSUME NEW k \in Calls, Send(k) PROVE Newer'
  BY <1>13 DEF Send, At, Go, Deliver
<1>14. ASSUME NEW k \in Calls, SendOnDead(k) PROVE Newer'
  BY <1>14 DEF SendOnDead, At, Go, ConnectionLost, Return
<1>15. ASSUME NEW k \in Calls, SendOnNil(k) PROVE Newer'
  BY <1>15 DEF SendOnNil, At
<1>16. ASSUME NEW k \in Calls, Lost(k) PROVE Newer'
  BY <1>16 DEF Lost, At, Go, ConnectionLost, Return
<1>17. ASSUME NEW k \in Calls, TimesOut(k) PROVE Newer'
  BY <1>17 DEF TimesOut, At, Go, Fault
<1>18. ASSUME NEW k \in Calls, ResetAndRetry(k) PROVE Newer'
  <2>1. client' = Nil /\ UNCHANGED <<dialled, used, held>>
    BY <1>18 DEF ResetAndRetry, TearDown
  <2>2. \A j \in Calls : pc[j] \notin Shaking /\ pc'[j] \notin Shaking
    BY <1>18 DEF ResetAndRetry, At, Go, TearDown, LockHeld, Locked
  <2>3. attempt[k] = 1 /\ attempt' = [attempt EXCEPT ![k] = 2]
    BY <1>18 DEF ResetAndRetry, At, SentOnce
  <2>4. used[k][2] = Nil
    BY <2>3 DEF SentOnce
  <2>5. ASSUME NEW i \in Calls, attempt'[i] = 2
        PROVE  used'[i][2] # Nil => used'[i][2] > used'[i][1]
    BY <2>1, <2>3, <2>4, <2>5
  <2> QED
    BY <2>1, <2>2, <2>5
<1>19. ASSUME NEW k \in Calls, ResetAndGiveUp(k) PROVE Newer'
  BY <1>19 DEF ResetAndGiveUp, At, Go, TearDown, Return
<1>20. ASSUME NEW k \in Calls, NEW a \in {1, 2}, Execute(k, a) PROVE Newer'
  BY <1>20 DEF Execute, At, Go, Return
<1>21. CASE Close
  BY <1>21 DEF Close, TearDown
<1>22. CASE Crash
  BY <1>22 DEF Crash, Fault
<1>23. CASE Hang
  BY <1>23 DEF Hang, Fault
<1>24. CASE Ended \/ UNCHANGED vars
  BY <1>24 DEF Ended, vars
<1> QED
  BY <1>1, <1>2, <1>3, <1>4, <1>5, <1>6, <1>7, <1>8, <1>9, <1>10, <1>11,
     <1>12, <1>13, <1>14, <1>15, <1>16, <1>17, <1>18, <1>19, <1>20, <1>21,
     <1>22, <1>23, <1>24
     DEF Next, Running, Ensure, CallTool, Reset

\* Both ways to send: attempt a of call k goes out on a client that is there,
\* and was not sent before.
Sends(k) ==
  /\ attempt[k] \in {1, 2} /\ used[k][attempt[k]] = Nil /\ client # Nil
  /\ used'[k] = [used[k] EXCEPT ![attempt[k]] = client]
  /\ \A j \in Calls \ {k} : used'[j] = used[j]
  /\ UNCHANGED <<attempt, execs>>

LEMMA SendSends ==
  ASSUME Shape, SentOnce, NEW k \in Calls, Send(k) \/ SendOnDead(k)
  PROVE  Sends(k)
<1>1. pc[k] = "calling" /\ used' = [used EXCEPT ![k][attempt[k]] = client]
      /\ UNCHANGED <<attempt, execs>>
  BY DEF Send, SendOnDead, At, envVars
<1>2. used[k][attempt[k]] = Nil
  BY <1>1 DEF SentOnce, Unsent
<1>3. client # Nil
  BY DEF Send, SendOnDead, Shape, Nil
<1> QED
  BY <1>1, <1>2, <1>3 DEF Sends, Shape

\* Each attempt is sent once.
LEMMA SentStep ==
  ASSUME Shape, SentOnce, [Next]_vars
  PROVE  SentOnce'
<1> USE LazyProxyAssumption DEF Shape, SentOnce, Unsent, Locked, Nil, proxyVars, callVars, envVars
<1>1. ASSUME NEW k \in Calls, Begin(k) PROVE SentOnce'
  BY <1>1 DEF Begin, At, Go
<1>2. ASSUME NEW k \in Calls, EnsureConnected(k) PROVE SentOnce'
  BY <1>2 DEF EnsureConnected, At, Go
<1>3. ASSUME NEW k \in Calls, EnsureLaunch(k) PROVE SentOnce'
  BY <1>3 DEF EnsureLaunch, At, Go
<1>4. ASSUME NEW k \in Calls, DialExisting(k) PROVE SentOnce'
  BY <1>4 DEF DialExisting, At, Go, Connect
<1>5. ASSUME NEW k \in Calls, DialNobody(k) PROVE SentOnce'
  BY <1>5 DEF DialNobody, At, Go
<1>6. ASSUME NEW k \in Calls, HandshakeOk(k) PROVE SentOnce'
  BY <1>6 DEF HandshakeOk, At, Go, Publish, Unlock
<1>7. ASSUME NEW k \in Calls, StaleSocket(k) PROVE SentOnce'
  BY <1>7 DEF StaleSocket, At, Go, HandshakeFails, Fault
<1>8. ASSUME NEW k \in Calls, Launch(k) PROVE SentOnce'
  BY <1>8 DEF Launch, At, Go, Fault
<1>9. ASSUME NEW k \in Calls, LaunchFails(k) PROVE SentOnce'
  BY <1>9 DEF LaunchFails, At, Go, Fault, Abandon, Unlock, Return
<1>10. ASSUME NEW k \in Calls, SocketAppears(k) PROVE SentOnce'
  BY <1>10 DEF SocketAppears, At, Go, Connect
<1>11. ASSUME NEW k \in Calls, WaitTimesOut(k) PROVE SentOnce'
  BY <1>11 DEF WaitTimesOut, At, Go, Abandon, Unlock, Return
<1>12. ASSUME NEW k \in Calls, FreshHandshakeFails(k) PROVE SentOnce'
  BY <1>12 DEF FreshHandshakeFails, At, Go, HandshakeFails, Fault, Abandon, Unlock, Return
<1>13. ASSUME NEW k \in Calls, Send(k) PROVE SentOnce'
  <2>1. Sends(k)
    BY <1>13, SendSends
  <2>2. /\ pc' = [pc EXCEPT ![k] = "pending"] /\ inbox' = inbox \cup {<<k, attempt[k]>>}
        /\ pc[k] = "calling"
    BY <1>13 DEF Send, At, Go, Deliver
  <2>3. attempt[k] \in {1, 2} /\ attempt' = attempt /\ used \in [Calls -> [{1, 2} -> 0..dialled]]
    BY <2>1 DEF Sends
  <2>4. \A i \in Calls \ {k} : /\ used'[i] = used[i] /\ pc'[i] = pc[i]
                               /\ \A a \in {1, 2} : <<i, a>> \in inbox' <=> <<i, a>> \in inbox
    BY <2>1, <2>2 DEF Sends
  <2>5. ASSUME NEW i \in Calls \ {k}
        PROVE  /\ attempt'[i] = 1 => used'[i][2] = Nil
               /\ pc'[i] = "resetting" => attempt'[i] = 1
               /\ pc'[i] \in Unsent => used'[i][attempt'[i]] = Nil
               /\ \A a \in {1, 2} : <<i, a>> \in inbox' => used'[i][a] # Nil
    <3>1. /\ used'[i] = used[i] /\ pc'[i] = pc[i] /\ attempt'[i] = attempt[i]
          /\ \A a \in {1, 2} : <<i, a>> \in inbox' <=> <<i, a>> \in inbox
      BY <2>4, <2>3
    <3>2. /\ attempt[i] = 1 => used[i][2] = Nil
          /\ pc[i] = "resetting" => attempt[i] = 1
          /\ pc[i] \in Unsent => used[i][attempt[i]] = Nil
          /\ \A a \in {1, 2} : <<i, a>> \in inbox => used[i][a] # Nil
      BY DEF SentOnce
    <3> HIDE DEF Shape, SentOnce
    <3> QED
      BY <3>1, <3>2
  <2>6. used'[k][attempt[k]] # Nil /\ \A a \in {1, 2} \ {attempt[k]} : used'[k][a] = used[k][a]
    BY <2>1 DEF Sends
  <2>7. pc'[k] = "pending"
    BY <2>2
  <2>8. ASSUME attempt'[k] = 1 PROVE used'[k][2] = Nil
    <3>1. attempt[k] = 1
      BY <2>3, <2>8
    <3>2. used[k][2] = Nil
      BY <3>1 DEF SentOnce
    <3> HIDE DEF Shape, SentOnce
    <3>3. used'[k][2] = used[k][2]
      BY <2>6, <3>1
    <3> QED
      BY <3>2, <3>3
  <2>9. \A a \in {1, 2} : <<k, a>> \in inbox' => used'[k][a] # Nil
    BY <2>2, <2>6
  <2> QED
    BY <2>5, <2>7, <2>8, <2>9
<1>14. ASSUME NEW k \in Calls, SendOnDead(k) PROVE SentOnce'
  <2>1. Sends(k)
    BY <1>14, SendSends
  <2>2. /\ \/ attempt[k] = 1 /\ pc' = [pc EXCEPT ![k] = "resetting"]
           \/ attempt[k] # 1 /\ pc' = [pc EXCEPT ![k] = "returned"]
        /\ inbox' = inbox
    BY <1>14 DEF SendOnDead, Go, ConnectionLost, Return
  <2>3. attempt[k] \in {1, 2} /\ attempt' = attempt /\ used \in [Calls -> [{1, 2} -> 0..dialled]]
    BY <2>1 DEF Sends
  <2>4. \A i \in Calls \ {k} : used'[i] = used[i] /\ pc'[i] = pc[i]
    BY <2>1, <2>2 DEF Sends
  <2>5. ASSUME NEW i \in Calls \ {k}
        PROVE  /\ attempt'[i] = 1 => used'[i][2] = Nil
               /\ pc'[i] = "resetting" => attempt'[i] = 1
               /\ pc'[i] \in Unsent => used'[i][attempt'[i]] = Nil
               /\ \A a \in {1, 2} : <<i, a>> \in inbox' => used'[i][a] # Nil
    <3>1. /\ used'[i] = used[i] /\ pc'[i] = pc[i] /\ attempt'[i] = attempt[i]
          /\ \A a \in {1, 2} : <<i, a>> \in inbox' <=> <<i, a>> \in inbox
      BY <2>2, <2>4, <2>3
    <3>2. /\ attempt[i] = 1 => used[i][2] = Nil
          /\ pc[i] = "resetting" => attempt[i] = 1
          /\ pc[i] \in Unsent => used[i][attempt[i]] = Nil
          /\ \A a \in {1, 2} : <<i, a>> \in inbox => used[i][a] # Nil
      BY DEF SentOnce
    <3> HIDE DEF Shape, SentOnce
    <3> QED
      BY <3>1, <3>2
  <2>6. used'[k][attempt[k]] # Nil /\ \A a \in {1, 2} \ {attempt[k]} : used'[k][a] = used[k][a]
    BY <2>1 DEF Sends
  <2>7. pc'[k] \in {"resetting", "returned"} /\ (pc'[k] = "resetting" => attempt'[k] = 1)
    BY <2>2, <2>3
  <2>8. ASSUME attempt'[k] = 1 PROVE used'[k][2] = Nil
    <3>1. attempt[k] = 1
      BY <2>3, <2>8
    <3>2. used[k][2] = Nil
      BY <3>1 DEF SentOnce
    <3> HIDE DEF Shape, SentOnce
    <3>3. used'[k][2] = used[k][2]
      BY <2>6, <3>1
    <3> QED
      BY <3>2, <3>3
  <2>9. \A a \in {1, 2} : <<k, a>> \in inbox' => used'[k][a] # Nil
    BY <2>2, <2>6
  <2> QED
    BY <2>5, <2>7, <2>8, <2>9
<1>15. ASSUME NEW k \in Calls, SendOnNil(k) PROVE SentOnce'
  BY <1>15 DEF SendOnNil, At
<1>16. ASSUME NEW k \in Calls, Lost(k) PROVE SentOnce'
  BY <1>16 DEF Lost, At, Go, ConnectionLost, Return
<1>17. ASSUME NEW k \in Calls, TimesOut(k) PROVE SentOnce'
  BY <1>17 DEF TimesOut, At, Go, Fault
<1>18. ASSUME NEW k \in Calls, ResetAndRetry(k) PROVE SentOnce'
  BY <1>18 DEF ResetAndRetry, At, Go, TearDown
<1>19. ASSUME NEW k \in Calls, ResetAndGiveUp(k) PROVE SentOnce'
  BY <1>19 DEF ResetAndGiveUp, At, Go, TearDown, Return
<1>20. ASSUME NEW k \in Calls, NEW a \in {1, 2}, Execute(k, a) PROVE SentOnce'
  BY <1>20 DEF Execute, At, Go, Return
<1>21. CASE Close
  BY <1>21 DEF Close, TearDown
<1>22. CASE Crash
  BY <1>22 DEF Crash, Fault
<1>23. CASE Hang
  BY <1>23 DEF Hang, Fault
<1>24. CASE Ended \/ UNCHANGED vars
  <2>1. UNCHANGED <<pc, attempt, used, inbox>>
    BY <1>24 DEF Ended, vars
  <2> QED
    BY <2>1
<1> QED
  BY <1>1, <1>2, <1>3, <1>4, <1>5, <1>6, <1>7, <1>8, <1>9, <1>10, <1>11,
     <1>12, <1>13, <1>14, <1>15, <1>16, <1>17, <1>18, <1>19, <1>20, <1>21,
     <1>22, <1>23, <1>24
     DEF Next, Running, Ensure, CallTool, Reset

\* A request is executed at most once for each time it was sent.
LEMMA ExecutedStep ==
  ASSUME Shape, SentOnce, Executed, [Next]_vars
  PROVE  Executed'
<1> USE LazyProxyAssumption DEF Shape, Executed, Sent, Waits, Nil, proxyVars, callVars, envVars
<1>1. ASSUME NEW k \in Calls, Begin(k) PROVE Executed'
  BY <1>1 DEF Begin, At, Go
<1>2. ASSUME NEW k \in Calls, EnsureConnected(k) PROVE Executed'
  BY <1>2 DEF EnsureConnected, At, Go
<1>3. ASSUME NEW k \in Calls, EnsureLaunch(k) PROVE Executed'
  BY <1>3 DEF EnsureLaunch, At, Go
<1>4. ASSUME NEW k \in Calls, DialExisting(k) PROVE Executed'
  BY <1>4 DEF DialExisting, At, Go, Connect
<1>5. ASSUME NEW k \in Calls, DialNobody(k) PROVE Executed'
  BY <1>5 DEF DialNobody, At, Go
<1>6. ASSUME NEW k \in Calls, HandshakeOk(k) PROVE Executed'
  BY <1>6 DEF HandshakeOk, At, Go, Publish, Unlock
<1>7. ASSUME NEW k \in Calls, StaleSocket(k) PROVE Executed'
  BY <1>7 DEF StaleSocket, At, Go, HandshakeFails, Fault
<1>8. ASSUME NEW k \in Calls, Launch(k) PROVE Executed'
  BY <1>8 DEF Launch, At, Go, Fault
<1>9. ASSUME NEW k \in Calls, LaunchFails(k) PROVE Executed'
  BY <1>9 DEF LaunchFails, At, Go, Fault, Abandon, Unlock, Return
<1>10. ASSUME NEW k \in Calls, SocketAppears(k) PROVE Executed'
  BY <1>10 DEF SocketAppears, At, Go, Connect
<1>11. ASSUME NEW k \in Calls, WaitTimesOut(k) PROVE Executed'
  BY <1>11 DEF WaitTimesOut, At, Go, Abandon, Unlock, Return
<1>12. ASSUME NEW k \in Calls, FreshHandshakeFails(k) PROVE Executed'
  BY <1>12 DEF FreshHandshakeFails, At, Go, HandshakeFails, Fault, Abandon, Unlock, Return
<1>13. ASSUME NEW k \in Calls, Send(k) PROVE Executed'
  <2>1. Sends(k)
    BY <1>13, SendSends
  <2>2. inbox' = inbox \cup {<<k, attempt[k]>>} /\ result' = result
    BY <1>13 DEF Send, Deliver
  <2>3. \A i \in Calls \ {k} : /\ used'[i] = used[i] /\ execs'[i] = execs[i] /\ result'[i] = result[i]
                               /\ \A a \in {1, 2} : <<i, a>> \in inbox' <=> <<i, a>> \in inbox
    BY <2>1, <2>2 DEF Sends
  <2>4. <<k, attempt[k]>> \notin inbox
    BY <2>1 DEF Sends, SentOnce
  <2>5. \A a \in {1, 2} \ {attempt[k]} : used'[k][a] = used[k][a] /\ (<<k, a>> \in inbox' <=> <<k, a>> \in inbox)
    BY <2>1, <2>2 DEF Sends
  <2>6. used'[k][attempt[k]] # Nil /\ <<k, attempt[k]>> \in inbox' /\ execs'[k] = execs[k] /\ result'[k] = result[k]
    BY <2>1, <2>2 DEF Sends
  <2>7. used[k][attempt[k]] = Nil /\ attempt[k] \in {1, 2}
    BY <2>1 DEF Sends
  <2>8. /\ execs'[k] + Waits(k, 1)' + Waits(k, 2)' <= Sent(k, 1)' + Sent(k, 2)'
        /\ result'[k] = "ok" => execs'[k] >= 1
    BY <2>4, <2>5, <2>6, <2>7
  <2>9. \A i \in Calls \ {k} :
          /\ execs'[i] + Waits(i, 1)' + Waits(i, 2)' <= Sent(i, 1)' + Sent(i, 2)'
          /\ result'[i] = "ok" => execs'[i] >= 1
    BY <2>3
  <2> QED
    BY <2>8, <2>9
<1>14. ASSUME NEW k \in Calls, SendOnDead(k) PROVE Executed'
  <2>1. Sends(k)
    BY <1>14, SendSends
  <2>2. /\ inbox' = inbox
        /\ result' = result \/ result' = [result EXCEPT ![k] = "failed"]
    BY <1>14 DEF SendOnDead, ConnectionLost, Return, envVars
  <2>3. \A i \in Calls \ {k} : used'[i] = used[i] /\ execs'[i] = execs[i] /\ result'[i] = result[i]
    BY <2>1, <2>2 DEF Sends
  <2>4. \A a \in {1, 2} : used[k][a] # Nil => used'[k][a] # Nil
    BY <2>1 DEF Sends
  <2>5. execs'[k] = execs[k] /\ (result'[k] = "ok" => result[k] = "ok")
    BY <2>1, <2>2 DEF Sends
  <2>6. /\ execs'[k] + Waits(k, 1)' + Waits(k, 2)' <= Sent(k, 1)' + Sent(k, 2)'
        /\ result'[k] = "ok" => execs'[k] >= 1
    BY <2>2, <2>4, <2>5
  <2>7. ASSUME NEW i \in Calls \ {k}
        PROVE  /\ execs'[i] + Waits(i, 1)' + Waits(i, 2)' <= Sent(i, 1)' + Sent(i, 2)'
               /\ result'[i] = "ok" => execs'[i] >= 1
    <3>1. /\ used'[i] = used[i] /\ execs'[i] = execs[i] /\ result'[i] = result[i]
          /\ \A a \in {1, 2} : <<i, a>> \in inbox' <=> <<i, a>> \in inbox
      BY <2>2, <2>3
    <3>2. /\ execs[i] + Waits(i, 1) + Waits(i, 2) <= Sent(i, 1) + Sent(i, 2)
          /\ result[i] = "ok" => execs[i] >= 1
      BY DEF Executed
    <3>3. /\ Waits(i, 1)' = Waits(i, 1) /\ Waits(i, 2)' = Waits(i, 2)
          /\ Sent(i, 1)' = Sent(i, 1) /\ Sent(i, 2)' = Sent(i, 2)
      BY <3>1
    <3> HIDE DEF Shape, Executed, Waits, Sent
    <3> QED
      BY <3>1, <3>2, <3>3
  <2> QED
    BY <2>6, <2>7
<1>15. ASSUME NEW k \in Calls, SendOnNil(k) PROVE Executed'
  BY <1>15 DEF SendOnNil, At
<1>16. ASSUME NEW k \in Calls, Lost(k) PROVE Executed'
  BY <1>16 DEF Lost, At, Go, ConnectionLost, Return
<1>17. ASSUME NEW k \in Calls, TimesOut(k) PROVE Executed'
  BY <1>17 DEF TimesOut, At, Go, Fault
<1>18. ASSUME NEW k \in Calls, ResetAndRetry(k) PROVE Executed'
  BY <1>18 DEF ResetAndRetry, At, Go, TearDown
<1>19. ASSUME NEW k \in Calls, ResetAndGiveUp(k) PROVE Executed'
  BY <1>19 DEF ResetAndGiveUp, At, Go, TearDown, Return
<1>20. ASSUME NEW k \in Calls, NEW a \in {1, 2}, Execute(k, a) PROVE Executed'
  <2>1. /\ <<k, a>> \in inbox /\ inbox' = inbox \ {<<k, a>>}
        /\ execs' = [execs EXCEPT ![k] = @ + 1] /\ used' = used
        /\ \A i \in Calls \ {k} : result'[i] = result[i]
    BY <1>20 DEF Execute, Return
  <2>2. \A i \in Calls \ {k} : /\ execs'[i] = execs[i]
                               /\ \A b \in {1, 2} : <<i, b>> \in inbox' <=> <<i, b>> \in inbox
    BY <2>1
  <2>3. execs'[k] = execs[k] + 1 /\ execs[k] \in Nat
    BY <2>1
  <2>4. /\ <<k, a>> \in inbox /\ <<k, a>> \notin inbox'
        /\ \A b \in {1, 2} \ {a} : <<k, b>> \in inbox' <=> <<k, b>> \in inbox
    BY <2>1
  <2>5. /\ execs'[k] + Waits(k, 1)' + Waits(k, 2)' <= Sent(k, 1)' + Sent(k, 2)'
        /\ result'[k] = "ok" => execs'[k] >= 1
    BY <2>1, <2>3, <2>4
  <2> QED
    BY <2>1, <2>2, <2>5
<1>21. CASE Close
  BY <1>21 DEF Close, TearDown
<1>22. CASE Crash
  <2>1. inbox' = {} /\ execs' = execs /\ result' = result /\ used' = used
    BY <1>22 DEF Crash
  <2>2. ASSUME NEW i \in Calls
        PROVE  /\ execs'[i] + Waits(i, 1)' + Waits(i, 2)' <= Sent(i, 1)' + Sent(i, 2)'
               /\ result'[i] = "ok" => execs'[i] >= 1
    <3>1. execs'[i] = execs[i] /\ execs[i] \in Nat /\ Waits(i, 1)' = 0 /\ Waits(i, 2)' = 0
      BY <2>1
    <3>2. Sent(i, 1)' = Sent(i, 1) /\ Sent(i, 2)' = Sent(i, 2)
      BY <2>1
    <3>3. execs[i] + Waits(i, 1) + Waits(i, 2) <= Sent(i, 1) + Sent(i, 2)
      BY DEF Executed
    <3>4. result'[i] = "ok" => execs'[i] >= 1
      BY <2>1, <3>1
    <3> HIDE DEF Executed, Shape, Nil
    <3>5. Waits(i, 1) \in {0, 1} /\ Waits(i, 2) \in {0, 1} /\ Sent(i, 1) \in {0, 1} /\ Sent(i, 2) \in {0, 1}
      OBVIOUS
    <3> HIDE DEF Waits, Sent
    <3>6. execs'[i] + Waits(i, 1)' + Waits(i, 2)' <= Sent(i, 1)' + Sent(i, 2)'
      BY <3>1, <3>2, <3>3, <3>5
    <3> QED
      BY <3>4, <3>6
  <2> QED
    BY <2>2
<1>23. CASE Hang
  BY <1>23 DEF Hang, Fault
<1>24. CASE Ended \/ UNCHANGED vars
  <2>1. UNCHANGED <<execs, used, inbox, result>>
    BY <1>24 DEF Ended, vars
  <2> QED
    BY <2>1
<1> QED
  BY <1>1, <1>2, <1>3, <1>4, <1>5, <1>6, <1>7, <1>8, <1>9, <1>10, <1>11,
     <1>12, <1>13, <1>14, <1>15, <1>16, <1>17, <1>18, <1>19, <1>20, <1>21,
     <1>22, <1>23, <1>24
     DEF Next, Running, Ensure, CallTool, Reset

LEMMA PStep == PInv /\ [Next]_vars => PInv'
<1> SUFFICES ASSUME PInv, [Next]_vars PROVE PInv'
  OBVIOUS
<1>1. Shape' /\ LockHeld' /\ ClientSet'
  BY ShapeStep, LockStep, ClientStep DEF PInv
<1>2. Newer' /\ SentOnce' /\ Executed'
  BY NewerStep, SentStep, ExecutedStep DEF PInv
<1> QED
  BY <1>1, <1>2 DEF PInv

\* The attempts of a call that were sent are on different connections.
LEMMA PInvRetries == PInv => RetryElsewhere
<1> SUFFICES ASSUME PInv, NEW k \in Calls
             PROVE  /\ used[k][2] # Nil => used[k][2] > used[k][1]
                    /\ execs[k] <= Cardinality({used[k][1], used[k][2]} \ {Nil})
                    /\ result[k] = "ok" => execs[k] >= 1
  BY DEF RetryElsewhere
<1> DEFINE u == used[k][1]   v == used[k][2]
<1>1. u \in Nat /\ v \in Nat /\ execs[k] \in Nat /\ attempt[k] \in {1, 2}
  BY DEF PInv, Shape
<1>2. v # Nil => v > u
  BY <1>1 DEF PInv, Newer, SentOnce
<1>3. execs[k] <= Sent(k, 1) + Sent(k, 2)
  <2>1. execs[k] + Waits(k, 1) + Waits(k, 2) <= Sent(k, 1) + Sent(k, 2)
    BY DEF PInv, Executed
  <2>2. /\ Waits(k, 1) \in {0, 1} /\ Waits(k, 2) \in {0, 1}
        /\ Sent(k, 1) \in {0, 1} /\ Sent(k, 2) \in {0, 1}
    BY DEF Waits, Sent
  <2> QED
    BY <1>1, <2>1, <2>2
<1>4. Sent(k, 1) + Sent(k, 2) = Cardinality({u, v} \ {Nil})
  <2>1. /\ Sent(k, 1) = IF u # Nil THEN 1 ELSE 0
        /\ Sent(k, 2) = IF v # Nil THEN 1 ELSE 0
    BY DEF Sent
  <2> HIDE DEF u, v
  <2>2. CASE u = Nil /\ v = Nil
    <3>1. {u, v} \ {Nil} = {}
      BY <2>2
    <3> QED
      BY <2>1, <2>2, <3>1, FS_EmptySet
  <2>3. CASE u # Nil /\ v = Nil
    <3>1. {u, v} \ {Nil} = {u}
      BY <2>3
    <3>2. Cardinality({u}) = 1
      BY FS_Singleton
    <3> QED
      BY <2>1, <2>3, <3>1, <3>2
  <2>4. CASE u = Nil /\ v # Nil
    <3>1. {u, v} \ {Nil} = {v}
      BY <2>4
    <3>2. Cardinality({v}) = 1
      BY FS_Singleton
    <3> QED
      BY <2>1, <2>4, <3>1, <3>2
  <2>5. CASE u # Nil /\ v # Nil
    <3>1. {u, v} \ {Nil} = {u} \cup {v} /\ v \notin {u}
      BY <1>1, <1>2, <2>5
    <3>2. IsFiniteSet({u}) /\ Cardinality({u}) = 1
      BY FS_Singleton
    <3>3. Cardinality({u} \cup {v}) = 2
      BY <3>1, <3>2, FS_AddElement
    <3> QED
      BY <2>1, <2>5, <3>1, <3>3
  <2> QED
    BY <2>2, <2>3, <2>4, <2>5
<1>5. result[k] = "ok" => execs[k] >= 1
  BY DEF PInv, Executed
<1> QED
  BY <1>2, <1>3, <1>4, <1>5

\* Launches are paid for: a server that is not there was never launched, or
\* its loss was a failure.  Nobody closes a connection that is being made.
Credit == IF server = "live" THEN 0 ELSE 1

Paid ==
  /\ launches + Credit <= faults + 1
  /\ \A k \in Calls :
       /\ pc[k] = "launching" => server = "none"
       /\ pc[k] = "reusing" /\ held[k] \notin open => server # "live"

LEMMA PaidStep ==
  ASSUME Shape, LockHeld, Paid, [Next]_vars
  PROVE  Paid'
<1> USE LazyProxyAssumption DEF Shape, LockHeld, Locked, Paid, Credit, Nil, proxyVars, callVars,
    envVars
<1>1. ASSUME NEW k \in Calls, Begin(k) PROVE Paid'
  BY <1>1 DEF Begin, At, Go
<1>2. ASSUME NEW k \in Calls, EnsureConnected(k) PROVE Paid'
  BY <1>2 DEF EnsureConnected, At, Go
<1>3. ASSUME NEW k \in Calls, EnsureLaunch(k) PROVE Paid'
  BY <1>3 DEF EnsureLaunch, At, Go
<1>4. ASSUME NEW k \in Calls, DialExisting(k) PROVE Paid'
  BY <1>4 DEF DialExisting, At, Go, Connect
<1>5. ASSUME NEW k \in Calls, DialNobody(k) PROVE Paid'
  BY <1>5 DEF DialNobody, At, Go
<1>6. ASSUME NEW k \in Calls, HandshakeOk(k) PROVE Paid'
  BY <1>6 DEF HandshakeOk, At, Go, Publish, Unlock
<1>7. ASSUME NEW k \in Calls, StaleSocket(k) PROVE Paid'
  BY <1>7 DEF StaleSocket, At, Go, HandshakeFails, Fault
<1>8. ASSUME NEW k \in Calls, Launch(k) PROVE Paid'
  BY <1>8 DEF Launch, At, Go, Fault
<1>9. ASSUME NEW k \in Calls, LaunchFails(k) PROVE Paid'
  BY <1>9 DEF LaunchFails, At, Go, Fault, Abandon, Unlock, Return
<1>10. ASSUME NEW k \in Calls, SocketAppears(k) PROVE Paid'
  BY <1>10 DEF SocketAppears, At, Go, Connect
<1>11. ASSUME NEW k \in Calls, WaitTimesOut(k) PROVE Paid'
  BY <1>11 DEF WaitTimesOut, At, Go, Abandon, Unlock, Return
<1>12. ASSUME NEW k \in Calls, FreshHandshakeFails(k) PROVE Paid'
  BY <1>12 DEF FreshHandshakeFails, At, Go, HandshakeFails, Fault, Abandon, Unlock, Return
<1>13. ASSUME NEW k \in Calls, Send(k) PROVE Paid'
  BY <1>13 DEF Send, At, Go, Deliver
<1>14. ASSUME NEW k \in Calls, SendOnDead(k) PROVE Paid'
  BY <1>14 DEF SendOnDead, At, Go, ConnectionLost, Return
<1>15. ASSUME NEW k \in Calls, SendOnNil(k) PROVE Paid'
  BY <1>15 DEF SendOnNil, At
<1>16. ASSUME NEW k \in Calls, Lost(k) PROVE Paid'
  BY <1>16 DEF Lost, At, Go, ConnectionLost, Return
<1>17. ASSUME NEW k \in Calls, TimesOut(k) PROVE Paid'
  BY <1>17 DEF TimesOut, At, Go, Fault
<1>18. ASSUME NEW k \in Calls, ResetAndRetry(k) PROVE Paid'
  BY <1>18 DEF ResetAndRetry, At, Go, TearDown
<1>19. ASSUME NEW k \in Calls, ResetAndGiveUp(k) PROVE Paid'
  BY <1>19 DEF ResetAndGiveUp, At, Go, TearDown, Return
<1>20. ASSUME NEW k \in Calls, NEW a \in {1, 2}, Execute(k, a) PROVE Paid'
  BY <1>20 DEF Execute, At, Go, Return
<1>21. CASE Close
  BY <1>21 DEF Close, TearDown
<1>22. CASE Crash
  BY <1>22 DEF Crash, Fault
<1>23. CASE Hang
  BY <1>23 DEF Hang, Fault
<1>24. CASE Ended \/ UNCHANGED vars
  <2>1. UNCHANGED <<lock, pc, held, open, server, launches, faults>>
    BY <1>24 DEF Ended, vars
  <2> QED
    BY <2>1
<1> QED
  BY <1>1, <1>2, <1>3, <1>4, <1>5, <1>6, <1>7, <1>8, <1>9, <1>10, <1>11,
     <1>12, <1>13, <1>14, <1>15, <1>16, <1>17, <1>18, <1>19, <1>20, <1>21,
     <1>22, <1>23, <1>24
     DEF Next, Running, Ensure, CallTool, Reset

LEMMA PInvTypes == PInv => TypeOK
<1> SUFFICES ASSUME PInv PROVE TypeOK
  OBVIOUS
<1>1. ASSUME NEW k \in Calls PROVE execs[k] \in 0..2
  <2>1. execs[k] \in Nat /\ execs[k] + Waits(k, 1) + Waits(k, 2) <= Sent(k, 1) + Sent(k, 2)
    BY DEF PInv, Shape, Executed
  <2> QED
    BY <2>1 DEF Sent, Waits
<1>2. execs \in [Calls -> 0..2]
  BY <1>1 DEF PInv, Shape
<1> QED
  BY <1>2 DEF PInv, Shape, TypeOK

-----------------------------------------------------------------------------
\* The inductive invariant holds in every reachable state.
THEOREM ProxyInvariant == Spec => []PInv
<1>1. Init => PInv
  BY InitPInv
<1>2. PInv /\ [Next]_vars => PInv'
  BY PStep
<1> QED
  BY <1>1, <1>2, PTL DEF Spec

\* Every variable of the proxy keeps its type: whatever fails and however often
\* calls are retried, no tool runs more than twice for one call.
THEOREM ProxyTypeCorrect == Spec => []TypeOK
<1>1. PInv => TypeOK
  BY PInvTypes
<1> QED
  BY <1>1, ProxyInvariant, PTL

\* Outside p.mu, and under it too, connected says whether there is a client.
THEOREM ConnectedHasClient == Spec => []ConnectedMeansClient
<1>1. PInv => ConnectedMeansClient
  BY DEF PInv, ClientSet, ConnectedMeansClient
<1> QED
  BY <1>1, ProxyInvariant, PTL

\* A retry is sent on a newer connection than the one it lost, a tool runs at
\* most once for each connection its call was sent on, and a success comes
\* from a run; for any number of calls that reset each other's connections.
THEOREM RetriesElsewhere == Spec => []RetryElsewhere
<1>1. PInv => RetryElsewhere
  BY PInvRetries
<1> QED
  BY <1>1, ProxyInvariant, PTL

\* However calls, resets and launches interleave, the launcher runs once, and
\* once more for each failure.
THEOREM LaunchesArePaid == Spec => []LaunchedOncePerFault
<1>1. Init => Paid
  BY LazyProxyAssumption DEF Init, Paid, Credit
<1>2. PInv /\ Paid /\ [Next]_vars => Paid'
  BY PaidStep DEF PInv
<1>3. PInv /\ Paid => LaunchedOncePerFault
  BY DEF PInv, Shape, Paid, Credit, LaunchedOncePerFault
<1> QED
  BY <1>1, <1>2, <1>3, ProxyInvariant, PTL DEF Spec

-----------------------------------------------------------------------------
(* The socket that bridges and servers share.                               *)

NobodyServes == \A s \in Servers : ~Live(s)

\* As long as launches and exits came one after the other: one bridge looks for
\* a server and one server starts at a time, nothing else goes on while one
\* closes, and whoever unlinks or binds the path does so with nobody serving.
InstancesOrderly ==
  ~raced =>
    /\ \A s \in Servers : Live(s) => path = s
    /\ \A b, c \in Busy : b = c
    /\ \A s, t \in Starting : s = t
    /\ Closing # {} => Starting = {} /\ Busy = {} /\ \A s \in Servers : instance[s] # "serving"
    /\ \A s, t \in Closing : s = t
    /\ \A b \in Bridges :
         /\ bridge[b] \in {"shaking", "remove", "launch"} => Starting = {}
         /\ bridge[b] \in {"remove", "launch"} => NobodyServes
         /\ bridge[b] = "shaking" => conn[b] = path
    /\ \A s \in Servers : instance[s] \in {"remove", "listen"} => NobodyServes

LEMMA InstancesTypeStep ==
  ASSUME InstancesTypeOK, [InstancesNext]_instanceVars
  PROVE  InstancesTypeOK'
<1> USE ServerInstancesAssumption DEF InstancesTypeOK, BridgeGoes, ServerGoes,
        Connects, Disconnects, Reachable, Live, Begins, Event, Launched, Unused, Unanswered
<1>1. ASSUME NEW b \in Bridges, BridgeDials(b) PROVE InstancesTypeOK'
  BY <1>1 DEF BridgeDials
<1>2. ASSUME NEW b \in Bridges, BridgeShakesHands(b) PROVE InstancesTypeOK'
  BY <1>2 DEF BridgeShakesHands
<1>3. ASSUME NEW b \in Bridges, BridgeFindsStale(b) PROVE InstancesTypeOK'
  <2>1. UNCHANGED <<path, instance>> /\ clamped' \in SUBSET Servers
    <3>1. {s \in {conn[b]} : Live(s)} \subseteq Servers
      BY DEF Live
    <3> QED
      BY <1>3, <3>1 DEF BridgeFindsStale, Ends
  <2>2. raced' \in BOOLEAN /\ events' \in 0..MaxEvents
    <3>1. CASE UNCHANGED <<raced, events>>
      BY <3>1
    <3>2. CASE raced' = TRUE /\ events < MaxEvents /\ events' = events + 1
      <4>1. events' \in 0..MaxEvents
        BY <3>2
      <4> QED
        BY <3>2, <4>1
    <3> QED
      BY <1>3, <3>1, <3>2 DEF BridgeFindsStale
  <2>3. bridge' \in [Bridges -> {"idle", "shaking", "remove", "launch", "waiting", "fresh", "connected", "left"}]
    BY <1>3 DEF BridgeFindsStale
  <2>4. conn' \in [Bridges -> Servers \cup {NoServer}] /\ leaked' \in [Bridges -> SUBSET Servers]
    BY <1>3 DEF BridgeFindsStale
  <2>5. \A c \in Bridges : conn'[c] \in Servers <=> bridge'[c] \in {"shaking", "fresh", "connected"}
    BY <1>3 DEF BridgeFindsStale
  <2> QED
    BY ONLY <2>1, <2>2, <2>3, <2>4, <2>5, InstancesTypeOK DEF InstancesTypeOK
<1>4. ASSUME NEW b \in Bridges, BridgeRemoves(b) PROVE InstancesTypeOK'
  BY <1>4 DEF BridgeRemoves
<1>5. ASSUME NEW b \in Bridges, BridgeLaunches(b) PROVE InstancesTypeOK'
  BY <1>5 DEF BridgeLaunches
<1>6. ASSUME NEW b \in Bridges, WaitConnects(b) PROVE InstancesTypeOK'
  BY <1>6 DEF WaitConnects
<1>7. ASSUME NEW b \in Bridges, BridgeWaitsTooLong(b) PROVE InstancesTypeOK'
  <2>1. UNCHANGED <<path, instance, clamped>>
    BY <1>7 DEF BridgeWaitsTooLong
  <2>2. raced' \in BOOLEAN /\ events' \in 0..MaxEvents
    <3>1. CASE UNCHANGED <<raced, events>>
      BY <3>1
    <3>2. CASE raced' = TRUE /\ events < MaxEvents /\ events' = events + 1
      <4>1. events' \in 0..MaxEvents
        BY <3>2
      <4> QED
        BY <3>2, <4>1
    <3> QED
      BY <1>7, <3>1, <3>2 DEF BridgeWaitsTooLong
  <2>3. bridge' \in [Bridges -> {"idle", "shaking", "remove", "launch", "waiting", "fresh", "connected", "left"}]
    BY <1>7 DEF BridgeWaitsTooLong
  <2>4. conn' \in [Bridges -> Servers \cup {NoServer}] /\ leaked' \in [Bridges -> SUBSET Servers]
    BY <1>7 DEF BridgeWaitsTooLong
  <2>5. \A c \in Bridges : conn'[c] \in Servers <=> bridge'[c] \in {"shaking", "fresh", "connected"}
    BY <1>7 DEF BridgeWaitsTooLong
  <2> QED
    BY ONLY <2>1, <2>2, <2>3, <2>4, <2>5, InstancesTypeOK DEF InstancesTypeOK
<1>8. ASSUME NEW b \in Bridges, BridgeGivesUp(b) PROVE InstancesTypeOK'
  <2>1. UNCHANGED <<path, instance, clamped>>
    BY <1>8 DEF BridgeGivesUp
  <2>2. raced' \in BOOLEAN /\ events' \in 0..MaxEvents
    <3>1. CASE UNCHANGED <<raced, events>>
      BY <3>1
    <3>2. CASE raced' = TRUE /\ events < MaxEvents /\ events' = events + 1
      <4>1. events' \in 0..MaxEvents
        BY <3>2
      <4> QED
        BY <3>2, <4>1
    <3> QED
      BY <1>8, <3>1, <3>2 DEF BridgeGivesUp
  <2>3. bridge' \in [Bridges -> {"idle", "shaking", "remove", "launch", "waiting", "fresh", "connected", "left"}]
    BY <1>8 DEF BridgeGivesUp
  <2>4. conn' \in [Bridges -> Servers \cup {NoServer}] /\ leaked' \in [Bridges -> SUBSET Servers]
    BY <1>8 DEF BridgeGivesUp
  <2>5. \A c \in Bridges : conn'[c] \in Servers <=> bridge'[c] \in {"shaking", "fresh", "connected"}
    BY <1>8 DEF BridgeGivesUp
  <2> QED
    BY ONLY <2>1, <2>2, <2>3, <2>4, <2>5, InstancesTypeOK DEF InstancesTypeOK
<1>9. ASSUME NEW b \in Bridges, BridgeLoses(b) PROVE InstancesTypeOK'
  BY <1>9 DEF BridgeLoses
<1>10. ASSUME NEW b \in Bridges, BridgeLeaves(b) PROVE InstancesTypeOK'
  BY <1>10 DEF BridgeLeaves, Ends
<1>11. ASSUME NEW s \in Servers, ServerDials(s) PROVE InstancesTypeOK'
  BY <1>11 DEF ServerDials
<1>12. ASSUME NEW s \in Servers, ServerRemoves(s) PROVE InstancesTypeOK'
  BY <1>12 DEF ServerRemoves
<1>13. ASSUME NEW s \in Servers, ServerListens(s) PROVE InstancesTypeOK'
  BY <1>13 DEF ServerListens
<1>14. ASSUME NEW s \in Servers, ServerExits(s) PROVE InstancesTypeOK'
  BY <1>14 DEF ServerExits
<1>15. ASSUME NEW s \in Servers, ServerTimesOut(s) PROVE InstancesTypeOK'
  BY <1>15 DEF ServerTimesOut
<1>19. ASSUME NEW s \in Servers, ServerCloses(s) PROVE InstancesTypeOK'
  BY <1>19 DEF ServerCloses
<1>16. ASSUME NEW s \in Servers, ServerCrashes(s) PROVE InstancesTypeOK'
  BY <1>16 DEF ServerCrashes
<1>17. ASSUME NEW s \in Servers, UserLaunches(s) PROVE InstancesTypeOK'
  BY <1>17 DEF UserLaunches
<1>18. CASE UNCHANGED instanceVars
  BY <1>18 DEF instanceVars
<1> QED
  BY <1>1, <1>2, <1>3, <1>4, <1>5, <1>6, <1>7, <1>8, <1>9, <1>10, <1>11,
     <1>12, <1>13, <1>14, <1>15, <1>16, <1>17, <1>18, <1>19
     DEF InstancesNext, BridgeSteps, ServerSteps

LEMMA InstancesOrderlyStep ==
  ASSUME InstancesTypeOK, InstancesOrderly, [InstancesNext]_instanceVars
  PROVE  InstancesOrderly'
<1> USE ServerInstancesAssumption DEF InstancesTypeOK, InstancesOrderly, NobodyServes,
    Busy, Starting, Closing,
        BridgeGoes, ServerGoes, Connects, Disconnects,
            Reachable, Live, Begins,
            Unanswered
<1>1. ASSUME NEW b \in Bridges, BridgeDials(b) PROVE InstancesOrderly'
  <2>1. UNCHANGED <<path, instance>> /\ Starting' = Starting /\ Closing' = Closing
    BY <1>1 DEF BridgeDials
  <2>2. ~raced' => Starting = {} /\ Closing = {} /\ Busy = {} /\ ~raced
    BY <1>1 DEF BridgeDials
  <2>3. Busy = {} => Busy' \subseteq {b}
    BY <1>1 DEF BridgeDials
  <2>4. \A c \in Bridges : bridge'[c] # bridge[c] => c = b
    BY <1>1 DEF BridgeDials
  <2>5. /\ bridge'[b] = "launch" => ~Reachable
        /\ bridge'[b] = "shaking" => conn'[b] = path
        /\ bridge'[b] \in {"launch", "shaking"}
    BY <1>1 DEF BridgeDials
  <2>6. \A c \in Bridges \ {b} : conn'[c] = conn[c]
    BY <1>1 DEF BridgeDials
  <2> QED
    BY <2>1, <2>2, <2>3, <2>4, <2>5, <2>6
<1>2. ASSUME NEW b \in Bridges, BridgeShakesHands(b) PROVE InstancesOrderly'
  BY <1>2 DEF BridgeShakesHands
<1>3. ASSUME NEW b \in Bridges, BridgeFindsStale(b) PROVE InstancesOrderly'
  BY <1>3 DEF BridgeFindsStale
<1>4. ASSUME NEW b \in Bridges, BridgeRemoves(b) PROVE InstancesOrderly'
  BY <1>4 DEF BridgeRemoves
<1>5. ASSUME NEW b \in Bridges, BridgeLaunches(b) PROVE InstancesOrderly'
  <2>1. PICK s \in Servers : ServerGoes(s, "off", "dial")
    BY <1>5 DEF BridgeLaunches, Launched
  <2>2. bridge[b] = "launch" /\ bridge' = [bridge EXCEPT ![b] = "waiting"]
        /\ UNCHANGED <<path, conn, raced>>
    BY <1>5 DEF BridgeLaunches
  <2>3. Closing' = Closing /\ Starting' = Starting \cup {s} /\ Busy' = Busy
    BY <2>1, <2>2
  <2>4. ~raced => Starting = {} /\ NobodyServes /\ \A c \in Busy : c = b
    BY <2>2
  <2>5. \A t \in Servers : (Live(t)' <=> Live(t)) /\ (instance'[t] = "serving" <=> instance[t] = "serving")
                         /\ (instance'[t] \in {"remove", "listen"} <=> instance[t] \in {"remove", "listen"})
    BY <2>1
  <2>6. \A c \in Bridges : c = b \/ bridge'[c] = bridge[c]
    BY <2>2
  <2>7. bridge'[b] = "waiting"
    BY <2>2
  <2> QED
    BY <2>2, <2>3, <2>4, <2>5, <2>6, <2>7
<1>6. ASSUME NEW b \in Bridges, WaitConnects(b) PROVE InstancesOrderly'
  BY <1>6 DEF WaitConnects
<1>7. ASSUME NEW b \in Bridges, BridgeWaitsTooLong(b) PROVE InstancesOrderly'
  BY <1>7 DEF BridgeWaitsTooLong
<1>8. ASSUME NEW b \in Bridges, BridgeGivesUp(b) PROVE InstancesOrderly'
  BY <1>8 DEF BridgeGivesUp
<1>9. ASSUME NEW b \in Bridges, BridgeLoses(b) PROVE InstancesOrderly'
  BY <1>9 DEF BridgeLoses
<1>10. ASSUME NEW b \in Bridges, BridgeLeaves(b) PROVE InstancesOrderly'
  BY <1>10 DEF BridgeLeaves
<1>11. ASSUME NEW s \in Servers, ServerDials(s) PROVE InstancesOrderly'
  BY <1>11 DEF ServerDials
<1>12. ASSUME NEW s \in Servers, ServerRemoves(s) PROVE InstancesOrderly'
  BY <1>12 DEF ServerRemoves
<1>13. ASSUME NEW s \in Servers, ServerListens(s) PROVE InstancesOrderly'
  BY <1>13 DEF ServerListens
<1>14. ASSUME NEW s \in Servers, ServerExits(s) PROVE InstancesOrderly'
  BY <1>14 DEF ServerExits
<1>15. ASSUME NEW s \in Servers, ServerTimesOut(s) PROVE InstancesOrderly'
  <2>1. ServerGoes(s, "serving", "expiring") /\ UNCHANGED <<path, bridge, conn>>
        /\ (~raced' => ~raced /\ Starting = {} /\ Closing = {} /\ Busy = {})
    BY <1>15 DEF ServerTimesOut
  <2>2. Busy' = Busy /\ Starting' = Starting /\ Closing' = Closing \cup {s}
    BY <2>1
  <2>3. \A t \in Servers : Live(t)' <=> Live(t)
    BY <2>1
  <2>4. ~raced => \A t \in Servers : Live(t) => t = s
    BY <2>1
  <2>5. instance'[s] # "serving"
    BY <2>1
  <2>6. \A c \in Bridges : Busy = {} => bridge[c] \notin {"shaking", "remove", "launch"}
    OBVIOUS
  <2>7. Starting' = {} => \A t \in Servers : instance'[t] \notin {"remove", "listen"}
    OBVIOUS
  <2> QED
    BY <2>1, <2>2, <2>3, <2>4, <2>5, <2>6, <2>7
<1>19. ASSUME NEW s \in Servers, ServerCloses(s) PROVE InstancesOrderly'
  BY <1>19 DEF ServerCloses
<1>16. ASSUME NEW s \in Servers, ServerCrashes(s) PROVE InstancesOrderly'
  BY <1>16 DEF ServerCrashes
<1>17. ASSUME NEW s \in Servers, UserLaunches(s) PROVE InstancesOrderly'
  <2>1. ServerGoes(s, "off", "dial") /\ UNCHANGED <<path, bridge, conn>>
        /\ (~raced' => ~raced /\ Starting = {} /\ Closing = {} /\ Busy = {})
    BY <1>17 DEF UserLaunches, Launched
  <2>2. Busy' = Busy /\ Starting' = Starting \cup {s} /\ Closing' = Closing
    BY <2>1
  <2>3. \A t \in Servers : (Live(t)' <=> Live(t))
                         /\ (instance'[t] \in {"remove", "listen"} <=> instance[t] \in {"remove", "listen"})
    BY <2>1
  <2>4. \A c \in Bridges : Busy = {} => bridge[c] \notin {"shaking", "remove", "launch"}
    OBVIOUS
  <2> QED
    BY <2>1, <2>2, <2>3, <2>4
<1>18. CASE UNCHANGED instanceVars
  BY <1>18 DEF instanceVars
<1> QED
  BY <1>1, <1>2, <1>3, <1>4, <1>5, <1>6, <1>7, <1>8, <1>9, <1>10, <1>11,
     <1>12, <1>13, <1>14, <1>15, <1>16, <1>17, <1>18, <1>19
     DEF InstancesNext, BridgeSteps, ServerSteps

LEMMA InstancesBegin ==
  ASSUME InstancesInit
  PROVE  InstancesTypeOK /\ InstancesOrderly
<1>0. events \in 0..MaxEvents
  BY ServerInstancesAssumption DEF InstancesInit
<1>1. path \in Servers \cup {NoServer} /\ raced \in BOOLEAN
  BY DEF InstancesInit
<1>2. instance \in [Servers -> {"off", "dial", "remove", "listen", "serving",
                               "expiring", "closing"}]
  BY DEF InstancesInit
<1>3. /\ bridge \in [Bridges -> {"idle", "shaking", "remove", "launch", "waiting", "fresh",
                             "connected", "left"}]
      /\ conn \in [Bridges -> Servers \cup {NoServer}]
      /\ leaked \in [Bridges -> SUBSET Servers]
  BY DEF InstancesInit
<1>4. \A b \in Bridges : conn[b] \in Servers <=> bridge[b] \in {"shaking", "fresh", "connected"}
  BY ServerInstancesAssumption DEF InstancesInit
<1>5. InstancesOrderly
  BY DEF InstancesInit, InstancesOrderly, NobodyServes, Live, Busy, Starting, Closing
<1>6. clamped \in SUBSET Servers
  BY DEF InstancesInit
<1> QED
  BY <1>0, <1>1, <1>2, <1>3, <1>4, <1>5, <1>6 DEF InstancesTypeOK

\* Every variable of the processes keeps its type; a bridge has a connection
\* exactly while it shakes hands or is connected.
THEOREM InstancesTypeCorrect == InstancesSpec => []InstancesTypeOK
<1>1. InstancesInit => InstancesTypeOK
  BY InstancesBegin
<1>2. InstancesTypeOK /\ [InstancesNext]_instanceVars => InstancesTypeOK'
  BY InstancesTypeStep
<1> QED
  BY <1>1, <1>2, PTL DEF InstancesSpec

\* "A single .app instance serves all bridges via this socket": for any number
\* of bridges, servers, crashes and idle exits, the one server that serves is
\* the one found at the path, until a launch or an exit overlaps another or a
\* live server answers too late.
THEOREM ServerIsReachable == InstancesSpec => []ServingIsReachable
<1>1. InstancesInit => InstancesTypeOK /\ InstancesOrderly
  BY InstancesBegin
<1>2. InstancesTypeOK /\ InstancesOrderly /\ [InstancesNext]_instanceVars => InstancesTypeOK' /\ InstancesOrderly'
  BY InstancesTypeStep, InstancesOrderlyStep
<1>3. InstancesOrderly => ServingIsReachable
  BY DEF InstancesOrderly, ServingIsReachable
<1> QED
  BY <1>1, <1>2, <1>3, PTL DEF InstancesSpec
=============================================================================
