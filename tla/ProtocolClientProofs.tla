------------------------- MODULE ProtocolClientProofs -------------------------
(***************************************************************************)
(* Theorems about ProtocolClient, for any number of callers, of calls and  *)
(* of notifications, whatever the server does.                             *)
(***************************************************************************)
EXTENDS ProtocolClient, FiniteSetTheorems, TLAPS

\* The requests that are numbered and those that are about to be.
Waiting == {j \in Callers : pc[j] = "call"}

Types ==
  /\ mu \in Callers \cup {Nobody}
  /\ connected \in BOOLEAN
  /\ broken \in BOOLEAN
  /\ alive \in BOOLEAN
  /\ nextID \in Nat
  /\ requests \in Seq(1..MaxCalls)
  /\ lines \in Seq(Lines)
  /\ notes \in 0..MaxNotes
  /\ pc \in [Callers -> {"idle", "call", "send", "receive", "connect", "close"}]
  /\ id \in [Callers -> 0..MaxCalls]
  /\ got \in [Callers -> Lines \cup {Nothing}]
  /\ desynced \in BOOLEAN
  /\ \A k \in Callers : pc[k] \in {"send", "receive"} => id[k] \in 1..MaxCalls

Numbered == nextID + Cardinality(Waiting) <= MaxCalls

\* c.mu is held from the request to the end of the call, and only the answer to
\* the request of the call that holds it is on the way.
InOrder ==
  /\ \A k \in Callers : pc[k] \in {"send", "receive"} <=> mu = k
  /\ \A k \in Callers : pc[k] # "idle" => got[k] = Nothing
  /\ ~alive => requests = <<>>
  /\ ~connected => ~alive /\ lines = <<>> /\ mu = Nobody
  /\ ~desynced =>
       \/ requests = <<>> /\ lines = <<>>
       \/ \E k \in Callers :
            /\ pc[k] = "receive"
            /\ \/ requests = <<id[k]>> /\ lines = <<>>
               \/ requests = <<>> /\ lines = <<id[k]>>

\* The inductive invariant.
CInv == Types /\ Numbered /\ InOrder

-----------------------------------------------------------------------------
LEMMA InitCInv == Init => CInv
<1> SUFFICES ASSUME Init PROVE CInv
  OBVIOUS
<1> USE ProtocolClientAssumption DEF Init
<1>1. Types
  <2>1. requests \in Seq(1..MaxCalls) /\ lines \in Seq(Lines)
    OBVIOUS
  <2>2. connected \in BOOLEAN /\ broken \in BOOLEAN /\ alive \in BOOLEAN /\ desynced \in BOOLEAN
    OBVIOUS
  <2>3. got \in [Callers -> Lines \cup {Nothing}]
    OBVIOUS
  <2> QED
    BY <2>1, <2>2, <2>3 DEF Types
<1>2. Numbered
  <2>1. Waiting = {}
    BY DEF Waiting
  <2> QED
    BY <2>1, FS_EmptySet DEF Numbered
<1>3. InOrder
  BY DEF InOrder
<1> QED
  BY <1>1, <1>2, <1>3 DEF CInv

\* Every step keeps the types.
LEMMA TypesStep ==
  ASSUME Types, Numbered, [Next]_vars
  PROVE  Types'
<1> USE ProtocolClientAssumption DEF Types, wireVars, Lines, Note, Rest, Nothing
<1>1. ASSUME NEW k \in Callers, NEW operation \in {"call", "connect", "close"}, Begin(k, operation) PROVE Types'
  BY <1>1 DEF Begin, Step
<1>2. ASSUME NEW k \in Callers, ConnectDials(k) PROVE Types'
  BY <1>2 DEF ConnectDials, Step
<1>3. ASSUME NEW k \in Callers, ConnectDoesNothing(k) PROVE Types'
  BY <1>3 DEF ConnectDoesNothing, Step
<1>4. ASSUME NEW k \in Callers, Close(k) PROVE Types'
  <2>1. UNCHANGED <<mu, broken, nextID, notes, id, got, desynced>> /\ pc' = [pc EXCEPT ![k] = "idle"]
    BY <1>4 DEF Close, Step
  <2>2. connected' = FALSE /\ alive' = FALSE /\ requests' = <<>> /\ lines' = <<>>
    BY <1>4 DEF Close
  <2>3. requests' \in Seq(1..MaxCalls) /\ lines' \in Seq(Lines)
    BY <2>2
  <2>4. connected' \in BOOLEAN /\ alive' \in BOOLEAN
    BY <2>2
  <2>5. pc' \in [Callers -> {"idle", "call", "send", "receive", "connect", "close"}]
    BY <2>1
  <2>6. \A j \in Callers : pc'[j] \in {"send", "receive"} => id'[j] \in 1..MaxCalls
    BY <2>1
  <2> HIDE DEF Lines
  <2> QED
    BY <2>1, <2>3, <2>4, <2>5, <2>6
<1>5. ASSUME NEW k \in Callers, CallNotConnected(k) PROVE Types'
  BY <1>5 DEF CallNotConnected, Step
<1>6. ASSUME NEW k \in Callers, CallBegins(k) PROVE Types'
  <2>1. k \in Waiting /\ IsFiniteSet(Waiting)
    BY <1>6, FS_Subset DEF CallBegins, Step, Waiting
  <2>2. Cardinality(Waiting) \in Nat /\ Cardinality(Waiting) # 0
    BY <2>1, FS_CardinalityType, FS_EmptySet
  <2>3. nextID + 1 \in 1..MaxCalls
    BY <2>2 DEF Numbered
  <2>4. /\ id' = [id EXCEPT ![k] = nextID + 1] /\ nextID' = nextID + 1
        /\ mu' = k /\ pc' = [pc EXCEPT ![k] = "send"]
        /\ UNCHANGED <<connected, broken, wireVars, got, desynced>>
    BY <1>6 DEF CallBegins, Step
  <2>5. id' \in [Callers -> 0..MaxCalls] /\ nextID' \in Nat
    BY <2>3, <2>4
  <2> QED
    BY <2>3, <2>4, <2>5
<1>7. ASSUME NEW k \in Callers, Send(k) PROVE Types'
  BY <1>7 DEF Send, Step
<1>8. ASSUME NEW k \in Callers, SendFails(k) PROVE Types'
  BY <1>8 DEF SendFails, Step
<1>9. ASSUME NEW k \in Callers, Receive(k) PROVE Types'
  BY <1>9 DEF Receive, Step
<1>10. ASSUME NEW k \in Callers, TimesOut(k) PROVE Types'
  <2>1. /\ UNCHANGED <<connected, broken, nextID, alive, notes, id, got>> /\ mu' = Nobody /\ desynced' = TRUE
        /\ pc' = [pc EXCEPT ![k] = "idle"]
    BY <1>10 DEF TimesOut, Step
  <2>2. \/ UNCHANGED <<requests, lines>>
        \/ requests # <<>> /\ requests' = Tail(requests) /\ lines' = <<Rest>>
    BY <1>10 DEF TimesOut
  <2>a. Rest \in Lines
    BY DEF Rest, Lines
  <2>b. requests # <<>> => Tail(requests) \in Seq(1..MaxCalls)
    OBVIOUS
  <2>c. <<Rest>> \in Seq(Lines)
    <3> HIDE DEF Lines, Rest
    <3> QED
      BY <2>a
  <2>3. requests' \in Seq(1..MaxCalls) /\ lines' \in Seq(Lines)
    <3> HIDE DEF Lines, Rest
    <3> QED
      BY <2>2, <2>b, <2>c
  <2>4. desynced' \in BOOLEAN
    BY <2>1
  <2> HIDE DEF Lines
  <2> QED
    BY <2>1, <2>3, <2>4
<1>11. CASE Answer
  BY <1>11 DEF Answer
<1>12. CASE Notify
  BY <1>12 DEF Notify
<1>13. CASE GoesAway
  <2>1. UNCHANGED <<mu, connected, broken, nextID, lines, notes, pc, id, got, desynced>>
    BY <1>13 DEF GoesAway
  <2>2. alive' \in BOOLEAN
    BY <1>13 DEF GoesAway
  <2>3. requests' \in Seq(1..MaxCalls)
    BY <1>13 DEF GoesAway
  <2> HIDE DEF Lines
  <2> QED
    BY <2>1, <2>2, <2>3
<1>14. CASE UNCHANGED vars
  BY <1>14 DEF vars, wireVars
<1>15. ASSUME NEW k \in Callers, ReceiveFails(k) PROVE Types'
  BY <1>15 DEF ReceiveFails, Step
<1> QED
  BY <1>1, <1>2, <1>3, <1>4, <1>5, <1>6, <1>7, <1>8, <1>9, <1>10, <1>11,
     <1>12, <1>13, <1>14, <1>15
     DEF Next, Running

\* Every step keeps the number of requests within its bound.
LEMMA NumberedStep ==
  ASSUME Types, Numbered, [Next]_vars
  PROVE  Numbered'
<1>0. IsFiniteSet(Waiting) /\ Cardinality(Waiting) \in Nat /\ nextID \in Nat /\ MaxCalls \in Nat
  <2>1. IsFiniteSet(Waiting)
    BY ProtocolClientAssumption, FS_Subset DEF Waiting
  <2> QED
    BY <2>1, FS_CardinalityType, ProtocolClientAssumption DEF Types
<1>a. ASSUME nextID' = nextID, Waiting' = Waiting PROVE Numbered'
  BY <1>a DEF Numbered
<1>b. ASSUME NEW k \in Callers, k \in Waiting, Waiting' = Waiting \ {k}
      PROVE  Cardinality(Waiting') = Cardinality(Waiting) - 1
  BY <1>0, <1>b, FS_RemoveElement
<1> USE DEF Types, wireVars
<1>1. ASSUME NEW k \in Callers, NEW operation \in {"call", "connect", "close"}, Begin(k, operation) PROVE Numbered'
  <2>1. nextID' = nextID /\ pc[k] = "idle" /\ pc' = [pc EXCEPT ![k] = operation]
    BY <1>1 DEF Begin, Step
  <2>2. CASE operation # "call"
    <3>1. Waiting' = Waiting
      BY <2>1, <2>2 DEF Waiting
    <3> QED
      BY <2>1, <3>1, <1>a
  <2>3. CASE operation = "call"
    <3>1. Waiting' = Waiting \cup {k} /\ k \notin Waiting
      BY <2>1, <2>3 DEF Waiting
    <3>2. Cardinality(Waiting') = Cardinality(Waiting) + 1
      BY <1>0, <3>1, FS_AddElement
    <3>3. nextID + Cardinality(Waiting) < MaxCalls
      BY <1>1, <2>3 DEF Begin, Waiting
    <3> QED
      BY <1>0, <2>1, <3>2, <3>3 DEF Numbered
  <2> QED
    BY <2>2, <2>3
<1>2. ASSUME NEW k \in Callers, ConnectDials(k) PROVE Numbered'
  <2>1. Waiting' = Waiting /\ nextID' = nextID
    BY <1>2 DEF ConnectDials, Step, Waiting
  <2> QED
    BY <2>1, <1>a
<1>3. ASSUME NEW k \in Callers, ConnectDoesNothing(k) PROVE Numbered'
  <2>1. Waiting' = Waiting /\ nextID' = nextID
    BY <1>3 DEF ConnectDoesNothing, Step, Waiting
  <2> QED
    BY <2>1, <1>a
<1>4. ASSUME NEW k \in Callers, Close(k) PROVE Numbered'
  <2>1. Waiting' = Waiting /\ nextID' = nextID
    BY <1>4 DEF Close, Step, Waiting
  <2> QED
    BY <2>1, <1>a
<1>5. ASSUME NEW k \in Callers, CallNotConnected(k) PROVE Numbered'
  <2>1. Waiting' = Waiting \ {k} /\ k \in Waiting /\ nextID' = nextID
    BY <1>5 DEF CallNotConnected, Step, Waiting
  <2> HIDE DEF Types
  <2>2. Cardinality(Waiting') = Cardinality(Waiting) - 1
    BY <2>1, <1>b
  <2> QED
    BY <1>0, <2>1, <2>2 DEF Numbered
<1>6. ASSUME NEW k \in Callers, CallBegins(k) PROVE Numbered'
  <2>1. Waiting' = Waiting \ {k} /\ k \in Waiting /\ nextID' = nextID + 1
    BY <1>6 DEF CallBegins, Step, Waiting
  <2> HIDE DEF Types
  <2>2. Cardinality(Waiting') = Cardinality(Waiting) - 1
    BY <2>1, <1>b
  <2> QED
    BY <1>0, <2>1, <2>2 DEF Numbered
<1>7. ASSUME NEW k \in Callers, Send(k) PROVE Numbered'
  <2>1. Waiting' = Waiting /\ nextID' = nextID
    BY <1>7 DEF Send, Step, Waiting
  <2> QED
    BY <2>1, <1>a
<1>8. ASSUME NEW k \in Callers, SendFails(k) PROVE Numbered'
  <2>1. Waiting' = Waiting /\ nextID' = nextID
    BY <1>8 DEF SendFails, Step, Waiting
  <2> QED
    BY <2>1, <1>a
<1>9. ASSUME NEW k \in Callers, Receive(k) PROVE Numbered'
  <2>1. Waiting' = Waiting /\ nextID' = nextID
    BY <1>9 DEF Receive, Step, Waiting
  <2> QED
    BY <2>1, <1>a
<1>10. ASSUME NEW k \in Callers, TimesOut(k) PROVE Numbered'
  <2>1. Waiting' = Waiting /\ nextID' = nextID
    BY <1>10 DEF TimesOut, Step, Waiting
  <2> QED
    BY <2>1, <1>a
<1>11. CASE Answer
  <2>1. Waiting' = Waiting /\ nextID' = nextID
    BY <1>11 DEF Answer, Waiting
  <2> QED
    BY <2>1, <1>a
<1>12. CASE Notify
  <2>1. Waiting' = Waiting /\ nextID' = nextID
    BY <1>12 DEF Notify, Waiting
  <2> QED
    BY <2>1, <1>a
<1>13. CASE GoesAway
  <2>1. Waiting' = Waiting /\ nextID' = nextID
    BY <1>13 DEF GoesAway, Waiting
  <2> QED
    BY <2>1, <1>a
<1>14. CASE UNCHANGED vars
  <2>1. Waiting' = Waiting /\ nextID' = nextID
    BY <1>14 DEF vars, Waiting
  <2> QED
    BY <2>1, <1>a
<1>15. ASSUME NEW k \in Callers, ReceiveFails(k) PROVE Numbered'
  <2>1. Waiting' = Waiting /\ nextID' = nextID
    BY <1>15 DEF ReceiveFails, Step, Waiting
  <2> QED
    BY <2>1, <1>a
<1> QED
  BY <1>1, <1>2, <1>3, <1>4, <1>5, <1>6, <1>7, <1>8, <1>9, <1>10, <1>11,
     <1>12, <1>13, <1>14, <1>15
     DEF Next, Running

\* Every step keeps the answers in the order of the calls.
LEMMA InOrderStep ==
  ASSUME Types, InOrder, [Next]_vars
  PROVE  InOrder'
<1> USE ProtocolClientAssumption DEF Types, InOrder, wireVars
<1>1. ASSUME NEW k \in Callers, NEW operation \in {"call", "connect", "close"}, Begin(k, operation) PROVE InOrder'
  BY <1>1 DEF Begin, Step
<1>2. ASSUME NEW k \in Callers, ConnectDials(k) PROVE InOrder'
  BY <1>2 DEF ConnectDials, Step
<1>3. ASSUME NEW k \in Callers, ConnectDoesNothing(k) PROVE InOrder'
  BY <1>3 DEF ConnectDoesNothing, Step
<1>4. ASSUME NEW k \in Callers, Close(k) PROVE InOrder'
  BY <1>4 DEF Close, Step
<1>5. ASSUME NEW k \in Callers, CallNotConnected(k) PROVE InOrder'
  BY <1>5 DEF CallNotConnected, Step
<1>6. ASSUME NEW k \in Callers, CallBegins(k) PROVE InOrder'
  BY <1>6 DEF CallBegins, Step
<1>7. ASSUME NEW k \in Callers, Send(k) PROVE InOrder'
  <2>1. /\ pc[k] = "send" /\ mu = k /\ alive /\ requests' = Append(requests, id[k])
        /\ pc' = [pc EXCEPT ![k] = "receive"]
        /\ UNCHANGED <<mu, connected, broken, nextID, alive, lines, notes, id, got, desynced>>
    BY <1>7 DEF Send, Step
  <2>2. ~desynced => requests = <<>> /\ lines = <<>>
    BY <2>1
  <2>3. ~desynced => requests' = <<id'[k]>> /\ lines' = <<>> /\ pc'[k] = "receive"
    BY <2>1, <2>2
  <2>4. ~desynced' => \E j \in Callers : pc'[j] = "receive" /\ requests' = <<id'[j]>> /\ lines' = <<>>
    BY <2>1, <2>3
  <2> QED
    BY <2>1, <2>4
<1>8. ASSUME NEW k \in Callers, SendFails(k) PROVE InOrder'
  BY <1>8 DEF SendFails, Step
<1>9. ASSUME NEW k \in Callers, Receive(k) PROVE InOrder'
  BY <1>9 DEF Receive, Step
<1>10. ASSUME NEW k \in Callers, TimesOut(k) PROVE InOrder'
  BY <1>10 DEF TimesOut, Step
<1>11. CASE Answer
  <2>1. /\ alive /\ requests # <<>>
        /\ lines' = Append(lines, Head(requests)) /\ requests' = Tail(requests)
        /\ UNCHANGED <<mu, connected, broken, alive, nextID, notes, pc, id, got, desynced>>
    BY <1>11 DEF Answer
  <2>2. ASSUME ~desynced
        PROVE  \E j \in Callers : pc'[j] = "receive" /\ requests' = <<>> /\ lines' = <<id'[j]>>
    <3>1. PICK j \in Callers : pc[j] = "receive" /\ requests = <<id[j]>> /\ lines = <<>>
      BY <2>1, <2>2
    <3>2. requests' = <<>> /\ lines' = <<id[j]>>
      BY <2>1, <3>1
    <3> QED
      BY <2>1, <3>1, <3>2
  <2> QED
    BY <2>1, <2>2
<1>12. CASE Notify
  BY <1>12 DEF Notify
<1>13. CASE GoesAway
  BY <1>13 DEF GoesAway
<1>14. CASE UNCHANGED vars
  BY <1>14 DEF vars, wireVars
<1>15. ASSUME NEW k \in Callers, ReceiveFails(k) PROVE InOrder'
  BY <1>15 DEF ReceiveFails, Step
<1> QED
  BY <1>1, <1>2, <1>3, <1>4, <1>5, <1>6, <1>7, <1>8, <1>9, <1>10, <1>11,
     <1>12, <1>13, <1>14, <1>15
     DEF Next, Running


-----------------------------------------------------------------------------
\* The inductive invariant holds in every reachable state.
THEOREM ClientInvariant == Spec => []CInv
<1>1. Init => CInv
  BY InitCInv
<1>2. CInv /\ [Next]_vars => CInv'
  BY TypesStep, NumberedStep, InOrderStep DEF CInv
<1> QED
  BY <1>1, <1>2, PTL DEF Spec

\* Every variable of the client keeps its type.
THEOREM ClientTypeCorrect == Spec => []TypeOK
<1>1. CInv => TypeOK
  <2> SUFFICES ASSUME CInv PROVE TypeOK
    OBVIOUS
  <2>1. IsFiniteSet(Waiting)
    BY ProtocolClientAssumption, FS_Subset DEF Waiting
  <2>2. Cardinality(Waiting) \in Nat
    BY <2>1, FS_CardinalityType
  <2>3. nextID \in 0..MaxCalls
    BY <2>2, ProtocolClientAssumption DEF CInv, Types, Numbered
  <2> QED
    BY <2>3 DEF CInv, Types, TypeOK
<1> QED
  BY <1>1, ClientInvariant, PTL

\* Until a call times out on the connection or a notification is sent on it, a
\* call that ends returns the answer to the request it wrote, or nothing.
THEOREM AnswersMatch == Spec => OwnResponse
<1> DEFINE Own == \A k \in Callers : pc[k] = "receive" /\ pc'[k] = "idle" /\ ~desynced
                                       => got'[k] \in {Nothing, id[k]}
<1>1. CInv /\ [Next]_vars => [Own]_vars
  <2> SUFFICES ASSUME CInv, Next, NEW k \in Callers, pc[k] = "receive", pc'[k] = "idle", ~desynced
               PROVE  got'[k] \in {Nothing, id[k]}
    OBVIOUS
  <2> USE DEF CInv, Types, InOrder, Step
  <2>1. got[k] = Nothing
    OBVIOUS
  <2>2. ASSUME NEW j \in Callers, Receive(j) PROVE got'[k] \in {Nothing, id[k]}
    <3>1. CASE j # k
      BY <2>1, <2>2, <3>1 DEF Receive
    <3>2. CASE j = k
      <4>1. lines = <<id[k]>>
        BY <2>2, <3>2 DEF Receive
      <4>2. Head(lines) = id[k]
        BY <4>1
      <4> QED
        BY <2>2, <3>2, <4>2 DEF Receive
    <3> QED
      BY <3>1, <3>2
  <2>3. ASSUME NEW j \in Callers, NEW operation \in {"call", "connect", "close"}, Begin(j, operation)
        PROVE  got'[k] \in {Nothing, id[k]}
    BY <2>1, <2>3 DEF Begin
  <2>4. CASE got' = got
    BY <2>1, <2>4
  <2> QED
    BY <2>2, <2>3, <2>4
       DEF Next, Running, ConnectDials, ConnectDoesNothing, Close, CallNotConnected, CallBegins,
           Send, SendFails, ReceiveFails, TimesOut, Answer, Notify, GoesAway
<1>2. CInv /\ [Next]_vars => [\A k \in Callers : pc[k] = "receive" /\ pc'[k] = "idle" /\ ~desynced
                                => got'[k] \in {Nothing, id[k]}]_vars
  BY <1>1
<1> QED
  BY <1>2, ClientInvariant, PTL DEF OwnResponse, Spec
=============================================================================
