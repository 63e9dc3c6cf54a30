----------------------------- MODULE WizardProofs -----------------------------
(***************************************************************************)
(* Theorems about Wizard, for any number of callers and whatever the user  *)
(* and macOS do.                                                           *)
(***************************************************************************)
EXTENDS Wizard, FiniteSetTheorems, TLAPS

\* The type invariant but for the bound of the semaphores.
Shape ==
  /\ granted \subseteq Permissions
  /\ preflight \in BOOLEAN /\ live \in BOOLEAN /\ probing \in BOOLEAN
  /\ scrClicked \in BOOLEAN
  /\ wizardWindow \in Callers \cup {None} /\ wizardDoneSem \in Callers \cup {None}
  /\ window \in [Callers -> {"none", "queued", "open", "closed", "gone"}]
  /\ sem \in [Callers -> Nat]
  /\ wizardActive \in BOOLEAN
  /\ wizardResult \in Callers \cup {None} /\ (wizardActive <=> wizardResult # None)
  /\ closed \subseteq Callers
  /\ cast \in [Callers -> {"off", "select", "close", "returned"}]
  /\ pc \in [Callers -> {"idle", "call", "native", "blocked", "recheck", "publish",
                         "wait", "receive", "returned"}]
  /\ ch \in [Callers -> Callers \cup {None}]
  /\ status \in [Callers -> SUBSET Permissions]
  /\ result \in [Callers -> SUBSET Permissions]

\* wizardResult names the one caller that shows a wizard.
Shows == \A c \in Callers : pc[c] \in {"native", "blocked", "recheck", "publish"} <=> wizardResult = c

\* A window lives while its caller is blocked; its semaphore is signalled as
\* it closes and once more as its timer ends.
Windows ==
  \A c \in Callers :
    /\ window[c] \in {"queued", "open"} => pc[c] = "blocked"
    /\ pc[c] \in {"recheck", "publish"} \/ cast[c] # "off" => window[c] \in {"closed", "gone"}
    /\ pc[c] \in {"idle", "call", "native", "wait", "receive"} => window[c] = "none"
    /\ window[c] \in {"none", "queued", "open"} => sem[c] = 0
    /\ window[c] = "closed" => sem[c] <= 1
    /\ sem[c] <= 2

\* The statics are those of the open window or were cleared by the timer of
\* the wizard before it.
Statics ==
  /\ wizardDoneSem # None => pc[wizardDoneSem] \in {"blocked", "recheck"}
  /\ \A c \in Callers : window[c] = "open" =>
       wizardWindow \in {c, None} /\ (wizardDoneSem = c => wizardWindow = c)

Guarded == Shows /\ Windows /\ Statics

\* The inductive invariant.
WInv == Shape /\ Guarded

-----------------------------------------------------------------------------
LEMMA InitWInv == Init => WInv
<1> SUFFICES ASSUME Init PROVE WInv
  OBVIOUS
<1>1. granted \subseteq Permissions /\ live \in BOOLEAN
  BY DEF Init
<1>a. preflight \in BOOLEAN
  BY DEF Init
<1>2. probing \in BOOLEAN /\ scrClicked \in BOOLEAN /\ wizardActive \in BOOLEAN
  BY DEF Init
<1>3. Shape
  BY <1>1, <1>a, <1>2 DEF Init, Shape
<1>4. Guarded
  BY WizardAssumption DEF Init, Guarded, Shows, Windows, Statics
<1> QED
  BY <1>3, <1>4 DEF WInv

\* The check of screen recording answers yes or no.
LEMMA CheckLiveTypes ==
  ASSUME Shape, CheckLive
  PROVE  live' \in BOOLEAN /\ probing' \in BOOLEAN
<1>1. live' \in BOOLEAN
  BY DEF CheckLive, LiveAnswer
<1>2. probing' \in BOOLEAN
  BY DEF CheckLive, Shape
<1> QED
  BY <1>1, <1>2

\* Every step keeps the types.
LEMMA ShapeStep ==
  ASSUME Shape, [Next]_vars
  PROVE  Shape'
<1> USE WizardAssumption DEF Shape, osVars, checkVars, staticVars, guardVars, callVars
<1>1. ASSUME NEW c \in Callers, Menu(c) PROVE Shape'
  BY <1>1 DEF Menu, Step
<1>2. ASSUME NEW c \in Callers, Enter(c) PROVE Shape'
  <2>1. UNCHANGED <<osVars, checkVars, staticVars, window, sem, closed, cast, status, result>>
    BY <1>2 DEF Enter
  <2>2. CASE wizardActive
    BY <1>2, <2>1, <2>2 DEF Enter, Step
  <2>3. CASE ~wizardActive
    <3>1. /\ pc' = [pc EXCEPT ![c] = "native"] /\ wizardActive' = TRUE /\ wizardResult' = c /\ ch' = ch
      BY <1>2, <2>3 DEF Enter, Step
    <3> QED
      BY <2>1, <3>1
  <2> QED
    BY <2>2, <2>3
<1>3. ASSUME NEW c \in Callers, Receive(c) PROVE Shape'
  BY <1>3 DEF Receive, Step
<1>4. ASSUME NEW c \in Callers, ReceiveClosed(c) PROVE Shape'
  BY <1>4 DEF ReceiveClosed
<1>5. ASSUME NEW c \in Callers, CreateSem(c) PROVE Shape'
  BY <1>5 DEF CreateSem, Step
<1>6. ASSUME NEW c \in Callers, Wake(c) PROVE Shape'
  BY <1>6 DEF Wake, Step
<1>7. ASSUME NEW c \in Callers, Recheck(c) PROVE Shape'
  <2>1. live' \in BOOLEAN /\ probing' \in BOOLEAN
    BY <1>7, CheckLiveTypes DEF Recheck
  <2>2. Seen \in SUBSET Permissions
    BY DEF Seen, Permissions
  <2>3. status' = [status EXCEPT ![c] = Seen] /\ pc' = [pc EXCEPT ![c] = "publish"]
    BY <1>7 DEF Recheck, Step
  <2>4. UNCHANGED <<osVars, scrClicked, wizardWindow, window, sem, guardVars, ch, result>> /\ wizardDoneSem' = None
    BY <1>7 DEF Recheck
  <2>5. status' \in [Callers -> SUBSET Permissions]
    BY <2>2, <2>3
  <2> HIDE DEF Permissions
  <2> QED
    BY <2>1, <2>3, <2>4, <2>5
<1>8. ASSUME NEW c \in Callers, Publish(c) PROVE Shape'
  BY <1>8 DEF Publish, Step
<1>9. ASSUME NEW c \in Callers, CastSends(c) PROVE Shape'
  BY <1>9 DEF CastSends, Receiving
<1>10. ASSUME NEW c \in Callers, CastDefault(c) PROVE Shape'
  BY <1>10 DEF CastDefault
<1>11. ASSUME NEW c \in Callers, CastCloses(c) PROVE Shape'
  BY <1>11 DEF CastCloses
<1>12. ASSUME NEW c \in Callers, OpenWindow(c) PROVE Shape'
  BY <1>12 DEF OpenWindow
<1>13. ASSUME NEW c \in Callers, TimerEnds(c) PROVE Shape'
  <2>1. live' \in BOOLEAN /\ probing' \in BOOLEAN
    <3>1. CASE scrClicked
      BY <1>13, <3>1, CheckLiveTypes DEF TimerEnds
    <3>2. CASE ~scrClicked
      BY <1>13, <3>2 DEF TimerEnds
    <3> QED
      BY <3>1, <3>2
  <2>2. /\ window' = [window EXCEPT ![c] = "gone"] /\ sem' = [sem EXCEPT ![c] = @ + 1]
        /\ wizardWindow' = None /\ wizardDoneSem' = None
        /\ UNCHANGED <<osVars, scrClicked, guardVars, callVars>>
    BY <1>13 DEF TimerEnds
  <2>3. sem' \in [Callers -> Nat]
    BY <2>2
  <2> QED
    BY <2>1, <2>2, <2>3
<1>14. ASSUME NEW c \in Callers, TimerPolls(c) PROVE Shape'
  <2>1. live' \in BOOLEAN /\ probing' \in BOOLEAN
    BY <1>14, CheckLiveTypes DEF TimerPolls
  <2>2. UNCHANGED <<osVars, staticVars, window, sem, guardVars, callVars>>
    BY <1>14 DEF TimerPolls
  <2> QED
    BY <2>1, <2>2
<1>15. ASSUME NEW c \in Callers, OpenScreenRecording(c) PROVE Shape'
  BY <1>15 DEF OpenScreenRecording
<1>16. ASSUME NEW c \in Callers, DoneRefused(c) PROVE Shape'
  <2>1. live' \in BOOLEAN /\ probing' \in BOOLEAN
    <3>1. CASE scrClicked
      BY <1>16, <3>1, CheckLiveTypes DEF DoneRefused
    <3>2. CASE ~scrClicked
      BY <1>16, <3>2 DEF DoneRefused
    <3> QED
      BY <3>1, <3>2
  <2>2. UNCHANGED <<osVars, staticVars, window, sem, guardVars, callVars>>
    BY <1>16 DEF DoneRefused
  <2> QED
    BY <2>1, <2>2
<1>17. ASSUME NEW c \in Callers, Done(c) PROVE Shape'
  BY <1>17 DEF Done
<1>18. ASSUME NEW c \in Callers, CloseX(c) PROVE Shape'
  BY <1>18 DEF CloseX
<1>19. CASE Grant
  BY <1>19 DEF Grant
<1>20. CASE ProbeAnswers
  <2>1. live' \in BOOLEAN
    BY <1>20 DEF ProbeAnswers
  <2>2. probing' \in BOOLEAN
    BY <1>20 DEF ProbeAnswers
  <2>3. UNCHANGED <<osVars, staticVars, window, sem, guardVars, callVars>>
    BY <1>20 DEF ProbeAnswers
  <2> QED
    BY <2>1, <2>2, <2>3
<1>21. CASE Quiescent \/ UNCHANGED vars
  BY <1>21 DEF Quiescent, vars, osVars, checkVars, staticVars, guardVars, callVars
<1> QED
  BY <1>1, <1>2, <1>3, <1>4, <1>5, <1>6, <1>7, <1>8, <1>9, <1>10, <1>11,
     <1>12, <1>13, <1>14, <1>15, <1>16, <1>17, <1>18, <1>19, <1>20, <1>21
     DEF Next, Caller, Broadcast, MainThread

\* Every step keeps the guard, the windows and the statics in line.
LEMMA GuardedStep ==
  ASSUME Shape, Guarded, [Next]_vars
  PROVE  Guarded'
<1> USE WizardAssumption DEF Shape, Guarded, Shows, Windows, Statics, osVars, checkVars, staticVars, guardVars, callVars
<1>1. ASSUME NEW c \in Callers, Menu(c) PROVE Guarded'
  BY <1>1 DEF Menu, Step
<1>2. ASSUME NEW c \in Callers, Enter(c) PROVE Guarded'
  BY <1>2 DEF Enter, Step
<1>3. ASSUME NEW c \in Callers, Receive(c) PROVE Guarded'
  BY <1>3 DEF Receive, Step
<1>4. ASSUME NEW c \in Callers, ReceiveClosed(c) PROVE Guarded'
  BY <1>4 DEF ReceiveClosed
<1>5. ASSUME NEW c \in Callers, CreateSem(c) PROVE Guarded'
  BY <1>5 DEF CreateSem, Step
<1>6. ASSUME NEW c \in Callers, Wake(c) PROVE Guarded'
  BY <1>6 DEF Wake, Step
<1>7. ASSUME NEW c \in Callers, Recheck(c) PROVE Guarded'
  BY <1>7 DEF Recheck, Step
<1>8. ASSUME NEW c \in Callers, Publish(c) PROVE Guarded'
  BY <1>8 DEF Publish, Step
<1>9. ASSUME NEW c \in Callers, CastSends(c) PROVE Guarded'
  BY <1>9 DEF CastSends, Receiving
<1>10. ASSUME NEW c \in Callers, CastDefault(c) PROVE Guarded'
  BY <1>10 DEF CastDefault
<1>11. ASSUME NEW c \in Callers, CastCloses(c) PROVE Guarded'
  BY <1>11 DEF CastCloses
<1>12. ASSUME NEW c \in Callers, OpenWindow(c) PROVE Guarded'
  BY <1>12 DEF OpenWindow
<1>13. ASSUME NEW c \in Callers, TimerEnds(c) PROVE Guarded'
  BY <1>13 DEF TimerEnds
<1>14. ASSUME NEW c \in Callers, TimerPolls(c) PROVE Guarded'
  BY <1>14 DEF TimerPolls
<1>15. ASSUME NEW c \in Callers, OpenScreenRecording(c) PROVE Guarded'
  BY <1>15 DEF OpenScreenRecording
<1>16. ASSUME NEW c \in Callers, DoneRefused(c) PROVE Guarded'
  BY <1>16 DEF DoneRefused
<1>17. ASSUME NEW c \in Callers, Done(c) PROVE Guarded'
  BY <1>17 DEF Done
<1>18. ASSUME NEW c \in Callers, CloseX(c) PROVE Guarded'
  BY <1>18 DEF CloseX
<1>19. CASE Grant
  BY <1>19 DEF Grant
<1>20. CASE ProbeAnswers
  BY <1>20 DEF ProbeAnswers
<1>21. CASE Quiescent \/ UNCHANGED vars
  BY <1>21 DEF Quiescent, vars, osVars, checkVars, staticVars, guardVars, callVars
<1> QED
  BY <1>1, <1>2, <1>3, <1>4, <1>5, <1>6, <1>7, <1>8, <1>9, <1>10, <1>11,
     <1>12, <1>13, <1>14, <1>15, <1>16, <1>17, <1>18, <1>19, <1>20, <1>21
     DEF Next, Caller, Broadcast, MainThread


\* At most one window is open: its caller is the one that wizardResult names.
LEMMA WInvOneWizard == WInv => OneWizard
<1> SUFFICES ASSUME WInv PROVE OneWizard
  OBVIOUS
<1> DEFINE O == {c \in Callers : window[c] = "open"}
<1>1. O \subseteq {wizardResult}
  BY DEF WInv, Guarded, Shows, Windows
<1>2. IsFiniteSet({wizardResult}) /\ Cardinality({wizardResult}) = 1
  BY FS_Singleton
<1>3. Cardinality(O) <= 1
  BY <1>1, <1>2, FS_Subset
<1> QED
  BY <1>3 DEF OneWizard

-----------------------------------------------------------------------------
\* The inductive invariant holds in every reachable state.
THEOREM WizardInvariant == Spec => []WInv
<1>1. Init => WInv
  BY InitWInv
<1>2. WInv /\ [Next]_vars => WInv'
  BY ShapeStep, GuardedStep DEF WInv
<1> QED
  BY <1>1, <1>2, PTL DEF Spec

\* Every variable of the wizard keeps its type; no semaphore is signalled more
\* than twice.
THEOREM WizardTypeCorrect == Spec => []TypeOK
<1>1. WInv => TypeOK
  <2> SUFFICES ASSUME WInv PROVE TypeOK
    OBVIOUS
  <2>1. sem \in [Callers -> 0..2]
    BY DEF WInv, Shape, Guarded, Windows
  <2> QED
    BY <2>1 DEF WInv, Shape, TypeOK
<1> QED
  BY <1>1, WizardInvariant, PTL

\* The guard of ShowPermissionWizard holds as long as the window: the user
\* never sees two wizards.
THEOREM NeverTwoWizards == Spec => []OneWizard
<1>1. WInv => OneWizard
  BY WInvOneWizard
<1> QED
  BY <1>1, WizardInvariant, PTL

\* The caller that shows a wizard is not woken before that wizard is closed,
\* although the timer of the previous one still works on the same statics.
THEOREM BlocksUntilClosed == Spec => []NoEarlyReturn
<1>1. WInv => NoEarlyReturn
  BY DEF WInv, Guarded, Windows, NoEarlyReturn
<1> QED
  BY <1>1, WizardInvariant, PTL
=============================================================================
