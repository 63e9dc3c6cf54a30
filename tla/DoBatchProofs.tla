---------------------------- MODULE DoBatchProofs ----------------------------
(***************************************************************************)
(* Theorems about DoBatch, for any number of concurrent calls, any set of  *)
(* batches of any length, and whatever the user and the applications do.   *)
(***************************************************************************)
EXTENDS DoBatch, SequenceTheorems, TLAPS

Permitted(c) == needsAccessibility(batch[c]) => accessible

\* What a call knows of its batch at each step.
KnowsBatch(c) ==
  /\ pc[c] \in {"idle", "validate", "permission"} => at[c] = 0
  /\ at[c] > 0 \/ pc[c] \in {"permission", "next"} => Valid(batch[c])
  /\ at[c] > 0 \/ pc[c] = "next" => Permitted(c)
  /\ at[c] <= Len(batch[c])
  /\ Executing(c) => at[c] > 0
  /\ pc[c] = "typing" => left[c] > 0

\* Whatever focus action has gone by has left its application.
KnowsFocus(c) ==
  /\ (\E j \in 1..at[c] : SetsFocus(batch[c][j])) => focusedApp[c] # NoApp
  /\ Executing(c) /\ This(c).type \in Inputs => app[c] # NoApp

\* The inductive invariant.
DoInv == TypeOK /\ \A c \in Calls : KnowsBatch(c) /\ KnowsFocus(c)

-----------------------------------------------------------------------------
\* A list of actions stays one when each of its actions is normalised.
LEMMA NormalizedType ==
  ASSUME NEW actions \in Seq(Action)
  PROVE  [i \in DOMAIN actions |-> normalizeAction(actions[i])] \in Seq(Action)
  <1>1. \A a \in Action : normalizeAction(a) \in Action
    <2> SUFFICES ASSUME NEW a \in Action PROVE normalizeAction(a) \in Action
      OBVIOUS
    <2>1. CanonicalType(a.type) \in Types \cup DOMAIN Aliases \cup {"tap"}
      BY DEF Action, CanonicalType, Aliases, Types
    <2> QED
      BY <2>1 DEF normalizeAction, Action
  <1>2. DOMAIN actions = 1..Len(actions) /\ Len(actions) \in Nat
    BY LenProperties
  <1>3. \A i \in 1..Len(actions) : normalizeAction(actions[i]) \in Action
    BY <1>1, ElementOfSeq
  <1> QED
    BY <1>2, <1>3, IsASeq

LEMMA InitDoInv == Init => DoInv
  <1> SUFFICES ASSUME Init PROVE DoInv
    OBVIOUS
  <1>1. TypeOK
    BY DoAssumption DEF Init, TypeOK
  <1>2. ASSUME NEW c \in Calls PROVE KnowsBatch(c) /\ KnowsFocus(c)
    BY DEF Init, KnowsBatch, KnowsFocus, Executing
  <1> QED
    BY <1>1, <1>2 DEF DoInv

-----------------------------------------------------------------------------
\* A call that does not move keeps what it knows: nobody else writes its
\* state, and the permission does not change under it.
LEMMA OthersKeep ==
  ASSUME NEW d \in Calls, KnowsBatch(d), KnowsFocus(d),
         pc'[d] = pc[d], batch'[d] = batch[d], at'[d] = at[d], focusedApp'[d] = focusedApp[d],
         app'[d] = app[d], left'[d] = left[d], accessible' = accessible
  PROVE  KnowsBatch(d)' /\ KnowsFocus(d)'
  BY DEF KnowsBatch, KnowsFocus, Permitted, Executing, This

LEMMA ReceiveStep ==
  ASSUME DoInv, NEW c \in Calls, disturbed' \in [Calls -> BOOLEAN], Receive(c)
  PROVE  DoInv'
  <1> USE DEF Receive, Step, desktop, mouse, effects
  <1>1. PICK actions \in Batches[c] :
          batch' = [batch EXCEPT ![c] = [i \in DOMAIN actions |-> normalizeAction(actions[i])]]
    OBVIOUS
  <1>2. [i \in DOMAIN actions |-> normalizeAction(actions[i])] \in Seq(Action)
    <2>1. actions \in Seq(Action)
      BY DoAssumption
    <2> QED
      BY <2>1, NormalizedType
  <1>3. TypeOK'
    BY <1>1, <1>2 DEF DoInv, TypeOK
  <1>4. KnowsBatch(c)' /\ KnowsFocus(c)'
    <2>1. batch'[c] \in Seq(Action) /\ pc'[c] = "validate" /\ at'[c] = 0
      BY <1>3 DEF DoInv, TypeOK, KnowsBatch
    <2>2. Len(batch'[c]) \in Nat
      BY <2>1, LenProperties
    <2> QED
      BY <2>1, <2>2 DEF KnowsBatch, KnowsFocus, Executing
  <1>5. ASSUME NEW d \in Calls, d # c PROVE KnowsBatch(d)' /\ KnowsFocus(d)'
    BY <1>1, <1>5, OthersKeep DEF DoInv, TypeOK
  <1> QED
    BY <1>3, <1>4, <1>5 DEF DoInv

\* The steps of the pointer keep the types: what is under it is an application.
LEMMA PointerStepsType ==
  ASSUME TypeOK, NEW c \in Calls, disturbed' \in [Calls -> BOOLEAN], PointerSteps(c)
  PROVE  TypeOK'
  <1> USE DEF TypeOK, Step, desktop, mouse, effects
  <1>0. Under(c) \subseteq Apps \cup {NoApp}
    BY DEF Under
  <1>1. CASE Click(c)
    BY <1>0, <1>1 DEF Click
  <1>2. CASE Glide(c)
    BY <1>2 DEF Glide
  <1>3. CASE Arrive(c)
    BY <1>0, <1>3 DEF Arrive
  <1>4. CASE Scroll(c)
    BY <1>0, <1>4 DEF Scroll
  <1>5. CASE Aim(c)
    BY <1>5 DEF Aim
  <1>6. CASE Press(c)
    BY <1>0, <1>6 DEF Press
  <1>7. CASE DragOn(c)
    BY <1>7 DEF DragOn, Dragged
  <1>8. CASE Drop(c)
    BY <1>8 DEF Drop, Dragged
  <1> QED
    BY <1>1, <1>2, <1>3, <1>4, <1>5, <1>6, <1>7, <1>8 DEF PointerSteps

\* The steps that leave batch, at and focusedApp alone.
LEMMA StayingStep ==
  ASSUME DoInv, NEW c \in Calls, disturbed' \in [Calls -> BOOLEAN],
         \/ Validate(c) \/ CheckPermission(c) \/ Finish(c) \/ Find(c) \/ Focus(c) \/ PointerSteps(c)
         \/ TapKey(c) \/ BeginTyping(c) \/ TypeChar(c) \/ PasteSets(c) \/ PasteCommand(c)
         \/ Look(c) \/ ControlWindow(c) \/ Fails(c)
  PROVE  DoInv'
  <1> USE DEF desktop, mouse, effects, Step
  <1>1. TypeOK'
    <2> USE DEF DoInv, TypeOK
    <2>1. CASE Validate(c)
      BY <2>1 DEF Validate
    <2>2. CASE CheckPermission(c)
      BY <2>2 DEF CheckPermission
    <2>3. CASE Finish(c)
      BY <2>3 DEF Finish
    <2>4. CASE Find(c)
      BY <2>4 DEF Find
    <2>5. CASE Focus(c)
      BY <2>5 DEF Focus
    <2>6. CASE PointerSteps(c)
      BY <2>6, PointerStepsType
    <2>7. CASE TapKey(c)
      BY <2>7 DEF TapKey
    <2>8. CASE BeginTyping(c)
      BY <2>8, DoAssumption DEF BeginTyping
    <2>9. CASE TypeChar(c)
      BY <2>9, DoAssumption DEF TypeChar, KnowsBatch
    <2>10. CASE PasteSets(c)
      BY <2>10 DEF PasteSets
    <2>11. CASE PasteCommand(c)
      BY <2>11 DEF PasteCommand
    <2>12. CASE Look(c)
      BY <2>12 DEF Look
    <2>13. CASE ControlWindow(c)
      BY <2>13 DEF ControlWindow
    <2>14. CASE Fails(c)
      BY <2>14 DEF Fails
    <2> QED
      BY <2>1, <2>2, <2>3, <2>4, <2>5, <2>6, <2>7, <2>8, <2>9, <2>10, <2>11, <2>12, <2>13, <2>14
  <1>2. /\ batch' = batch /\ at' = at /\ focusedApp' = focusedApp /\ app' = app
        /\ accessible' = accessible
        /\ \A d \in Calls \ {c} : pc'[d] = pc[d] /\ left'[d] = left[d]
    BY DEF DoInv, TypeOK, Validate, CheckPermission, Finish, Find, Focus, TapKey,
           PointerSteps, Click, Glide, Arrive, Scroll, Aim, Press, DragOn, Drop,
           BeginTyping, TypeChar, PasteSets, PasteCommand, Look, ControlWindow, Fails
  <1>3. KnowsBatch(c)' /\ KnowsFocus(c)'
    <2> USE DEF KnowsBatch, KnowsFocus, Executing, Permitted, This
    <2>0. KnowsBatch(c) /\ KnowsFocus(c) /\ at[c] \in Nat /\ DOMAIN pc = Calls /\ pc = [d \in Calls |-> pc[d]]
      BY DEF DoInv, TypeOK
    <2>1. CASE Validate(c)
      BY <2>0, <2>1, <1>2 DEF Validate
    <2>2. CASE CheckPermission(c)
      BY <2>0, <2>2, <1>2 DEF CheckPermission
    <2>3. CASE Finish(c)
      BY <2>0, <2>3, <1>2 DEF Finish
    <2>4. CASE Find(c) \/ Focus(c) \/ TapKey(c)
      BY <2>0, <2>4, <1>2 DEF Find, Focus, TapKey
    <2>9. CASE PointerSteps(c)
      BY <2>0, <2>9, <1>2 DEF PointerSteps, Click, Glide, Arrive, Scroll, Aim, Press, DragOn, Drop
    <2>5. CASE BeginTyping(c)
      BY <2>0, <2>5, <1>2, DoAssumption DEF BeginTyping, DoInv, TypeOK
    <2>6. CASE TypeChar(c)
      BY <2>0, <2>6, <1>2 DEF TypeChar, DoInv, TypeOK
    <2>7. CASE PasteSets(c) \/ PasteCommand(c) \/ Look(c) \/ ControlWindow(c)
      BY <2>0, <2>7, <1>2 DEF PasteSets, PasteCommand, Look, ControlWindow
    <2>8. CASE Fails(c)
      BY <2>0, <2>8, <1>2 DEF Fails
    <2> QED
      BY <2>1, <2>2, <2>3, <2>4, <2>5, <2>6, <2>7, <2>8, <2>9
  <1>4. ASSUME NEW d \in Calls, d # c PROVE KnowsBatch(d)' /\ KnowsFocus(d)'
    BY <1>2, <1>4, OthersKeep DEF DoInv
  <1> QED
    BY <1>1, <1>3, <1>4 DEF DoInv

\* The heart of the argument: validateAppContext has seen the focus that an
\* input without an application of its own relies on, and the focuses gone
\* by have left theirs in focusedApp.
LEMMA BeginStep ==
  ASSUME DoInv, NEW c \in Calls, disturbed' \in [Calls -> BOOLEAN], Begin(c)
  PROVE  DoInv'
  <1> DEFINE n == at[c] + 1
             a == batch[c][n]
             focused == IF SetsFocus(a) THEN a.app ELSE focusedApp[c]
             target == IF a.app = NoApp /\ a.type \in Inheriting THEN focused ELSE a.app
  <1>1. /\ pc[c] = "next" /\ at[c] < Len(batch[c])
        /\ at' = [at EXCEPT ![c] = n]
        /\ focusedApp' = [focusedApp EXCEPT ![c] = focused]
        /\ app' = [app EXCEPT ![c] = target]
        /\ pc' = [pc EXCEPT ![c] = FirstStep(a, target)]
        /\ hit' = [hit EXCEPT ![c] = NoApp]
        /\ pasted' = [pasted EXCEPT ![c] = NoApp]
        /\ UNCHANGED <<desktop, accessible, batch, left>>
    BY DEF Begin, Step
  <1>2. /\ TypeOK /\ KnowsBatch(c) /\ KnowsFocus(c)
        /\ at[c] \in Nat /\ batch[c] \in Seq(Action) /\ focusedApp[c] \in Apps \cup {NoApp}
    BY DEF DoInv, TypeOK
  <1>3. Len(batch[c]) \in Nat /\ n \in 1..Len(batch[c]) /\ DOMAIN batch[c] = 1..Len(batch[c])
    BY <1>1, <1>2, LenProperties
  <1>4. a \in Action
    BY <1>2, <1>3, ElementOfSeq
  <1>5. focused \in Apps \cup {NoApp} /\ target \in Apps \cup {NoApp}
    BY <1>2, <1>4 DEF Action
  <1>6. FirstStep(a, target) \in {"find", "act"}
    BY DEF FirstStep
  <1>7. TypeOK'
    <2> HIDE DEF n, a, focused, target
    <2>1. n \in Nat
      BY <1>3
    <2> QED
      BY <1>1, <1>2, <1>5, <1>6, <2>1 DEF TypeOK, desktop, mouse
  <1>8. /\ pc'[c] \in {"find", "act"} /\ at'[c] = n /\ focusedApp'[c] = focused
        /\ app'[c] = target /\ batch' = batch /\ accessible' = accessible
    <2> HIDE DEF n, a, focused, target
    <2> QED
      BY <1>1, <1>2, <1>6 DEF TypeOK
  <1>9. KnowsBatch(c)'
    BY <1>1, <1>2, <1>3, <1>8 DEF KnowsBatch, Executing, Permitted
  <1>10. Valid(batch[c])
    BY <1>1, <1>2 DEF KnowsBatch
  <1>11. (\E j \in 1..n : SetsFocus(batch[c][j])) => focused # NoApp
    <2> SUFFICES ASSUME NEW j \in 1..n, SetsFocus(batch[c][j]) PROVE focused # NoApp
      OBVIOUS
    <2>1. CASE j = n
      BY <2>1 DEF SetsFocus
    <2>2. CASE j # n
      <3>1. j \in 1..at[c]
        BY <1>2, <2>2
      <3>2. focusedApp[c] # NoApp
        BY <1>2, <3>1 DEF KnowsFocus
      <3> QED
        BY <3>2 DEF SetsFocus
    <2> QED
      BY <2>1, <2>2
  <1>12. a.type \in Inputs => target # NoApp
    <2> SUFFICES ASSUME a.type \in Inputs, a.app = NoApp PROVE target # NoApp
      OBVIOUS
    <2>1. PICK j \in 1..(n - 1) : SetsFocus(batch[c][j])
      BY <1>3, <1>10 DEF Valid, validateAppContext
    <2>2. focused # NoApp
      BY <1>11, <1>3, <2>1
    <2>3. a.type \in Inheriting
      BY DEF Inheriting
    <2> QED
      BY <2>2, <2>3
  <1>13. KnowsFocus(c)'
    BY <1>8, <1>11, <1>12 DEF KnowsFocus, This
  <1>14. ASSUME NEW d \in Calls, d # c PROVE KnowsBatch(d)' /\ KnowsFocus(d)'
    <2> HIDE DEF n, a, focused, target
    <2>1. /\ pc'[d] = pc[d] /\ batch'[d] = batch[d] /\ at'[d] = at[d] /\ accessible' = accessible
          /\ focusedApp'[d] = focusedApp[d] /\ app'[d] = app[d] /\ left'[d] = left[d]
      BY <1>1, <1>2, <1>14 DEF TypeOK
    <2> QED
      BY <2>1, OthersKeep DEF DoInv
  <1> QED
    BY <1>7, <1>9, <1>13, <1>14 DEF DoInv

\* The history is Boolean, whatever happens.
LEMMA HistoryType ==
  ASSUME DoInv, NEW c \in Calls, History(c)
  PROVE  disturbed' \in [Calls -> BOOLEAN]
  BY DEF DoInv, TypeOK, History

\* The user changes the desktop only.
LEMMA DesktopStep ==
  ASSUME DoInv, User \/ UNCHANGED vars
  PROVE  DoInv'
  <1>1. TypeOK'
    BY DEF DoInv, TypeOK, User, vars, desktop, mouse, effects
  <1>2. ASSUME NEW d \in Calls PROVE KnowsBatch(d)' /\ KnowsFocus(d)'
    BY OthersKeep DEF DoInv, User, vars, desktop, mouse, effects
  <1> QED
    BY <1>1, <1>2 DEF DoInv

\* The invariant is inductive.
LEMMA DoInvStep ==
  ASSUME DoInv, [Next]_vars
  PROVE  DoInv'
  <1>1. ASSUME NEW c \in Calls, HandleDo(c) PROVE DoInv'
    BY <1>1, HistoryType, ReceiveStep, StayingStep, BeginStep DEF HandleDo, Execute
  <1> QED
    BY <1>1, DesktopStep DEF Next, Quiescent

\* Every reachable state has the inductive invariant.
THEOREM DoInvariant == Spec => []DoInv
  <1>1. DoInv /\ [Next]_vars => DoInv'
    BY DoInvStep
  <1> QED
    BY <1>1, InitDoInv, PTL DEF Spec

\* Every reachable state is well typed.
THEOREM DoTypeCorrect == Spec => []TypeOK
  <1>1. DoInv => TypeOK
    BY DEF DoInv
  <1> QED
    BY <1>1, DoInvariant, PTL

\* No batch, of any length and however many calls run at once, sends pointer
\* or keyboard input without a target application.
THEOREM EveryInputHasTarget == Spec => []InputHasTarget
  <1>1. DoInv => InputHasTarget
    BY DEF DoInv, KnowsFocus, InputHasTarget
  <1> QED
    BY <1>1, DoInvariant, PTL

\* No action runs before all of its batch is validated and permitted.
THEOREM ValidationComesFirst == Spec => []NothingRunsUnvalidated
  <1>1. DoInv => NothingRunsUnvalidated
    BY DEF DoInv, KnowsBatch, Permitted, NothingRunsUnvalidated
  <1> QED
    BY <1>1, DoInvariant, PTL

-----------------------------------------------------------------------------
(* An undisturbed input reaches its target.                                 *)

\* What an undisturbed call knows of the desktop: once its window was looked
\* up the application is in front and its window in place to the last event
\* that needs them, the pointer is where it left it when the wheel turns, and
\* the button is its own from press to release.
Undisturbed(c) ==
  /\ hit[c] \in {NoApp, app[c]}
  /\ pasted[c] \in {NoApp, c}
  /\ pc[c] \in NeedsFront /\ This(c).type \in Inputs => front = app[c]
  /\ pc[c] \in NeedsPlace /\ This(c).type \in PointerInput => c \in aimed
  /\ pc[c] \in NeedsButton => held = c /\ hit[c] = app[c]
  /\ pc[c] = "scrolling" => pointer = c
  /\ pc[c] = "command" => clipboard = c

\* The kind of action at each step.
KnowsKind(c) ==
  /\ pc[c] = "typing" => This(c).type = "type"
  /\ pc[c] = "command" => This(c).type = "paste"
  /\ pc[c] = "gliding" => This(c).type \in {"move", "scroll"}
  /\ pc[c] = "scrolling" => This(c).type = "scroll"
  /\ pc[c] \in {"pressing", "dragging", "dropping"} => This(c).type = "drag"

KnowsDesktop(c) == KnowsKind(c) /\ (~disturbed[c] => Undisturbed(c))

DesktopInv == DoInv /\ \A c \in Calls : KnowsDesktop(c)

\* A call that does not move is disturbed by whoever changes what it is
\* exposed to.
LEMMA BystanderKeeps ==
  ASSUME NEW d \in Calls, KnowsDesktop(d),
         pc'[d] = pc[d], batch'[d] = batch[d], at'[d] = at[d], app'[d] = app[d],
         hit'[d] = hit[d], pasted'[d] = pasted[d],
         disturbed'[d] = (disturbed[d] \/ Exposed(d))
  PROVE  KnowsDesktop(d)'
  <1>1. KnowsKind(d)'
    BY DEF KnowsDesktop, KnowsKind, This
  <1>2. ASSUME ~disturbed'[d] PROVE Undisturbed(d)'
    <2>1. ~disturbed[d] /\ ~Exposed(d)
      BY <1>2
    <2>2. Undisturbed(d)
      BY <2>1 DEF KnowsDesktop
    <2>3. This(d)' = This(d)
      BY DEF This
    <2> QED
      BY <2>1, <2>2, <2>3 DEF Undisturbed, Exposed
  <1> QED
    BY <1>1, <1>2 DEF KnowsDesktop

\* A call moves nobody but itself.
LEMMA OthersUntouched ==
  ASSUME DoInv, NEW c \in Calls, HandleDo(c), NEW d \in Calls, d # c
  PROVE  /\ pc'[d] = pc[d] /\ batch'[d] = batch[d] /\ at'[d] = at[d] /\ app'[d] = app[d]
         /\ hit'[d] = hit[d] /\ pasted'[d] = pasted[d]
  <1> USE DEF DoInv, TypeOK, Step, desktop, mouse, effects
  <1>1. CASE Receive(c) \/ Validate(c) \/ CheckPermission(c) \/ Finish(c) \/ Fails(c)
    BY <1>1 DEF Receive, Validate, CheckPermission, Finish, Fails
  <1>2. CASE Begin(c)
    BY <1>2 DEF Begin
  <1>3. CASE Find(c) \/ Focus(c) \/ TapKey(c) \/ Look(c) \/ ControlWindow(c)
    BY <1>3 DEF Find, Focus, TapKey, Look, ControlWindow
  <1>4. CASE BeginTyping(c) \/ TypeChar(c) \/ PasteSets(c) \/ PasteCommand(c)
    BY <1>4 DEF BeginTyping, TypeChar, PasteSets, PasteCommand
  <1>5. CASE PointerSteps(c)
    BY <1>5 DEF PointerSteps, Click, Glide, Arrive, Scroll, Aim, Press, DragOn, Drop, Dragged
  <1> QED
    BY <1>1, <1>2, <1>3, <1>4, <1>5 DEF HandleDo, Execute

\* Begin forgets the last action's disturbance, hit and paste.
LEMMA BeginKnowsDesktop ==
  ASSUME DesktopInv, DoInv', NEW c \in Calls, Begin(c)
  PROVE  KnowsDesktop(c)'
  <1>1. /\ pc'[c] \in {"find", "act"} /\ hit'[c] = NoApp /\ pasted'[c] = NoApp
        /\ This(c)' = batch[c][at[c] + 1] /\ pc'[c] = FirstStep(This(c)', app'[c])
    BY DEF Begin, Step, FirstStep, DesktopInv, DoInv, TypeOK, This
  <1>2. pc'[c] = "act" => This(c)'.type \notin Inputs
    BY <1>1 DEF DoInv, KnowsFocus, Executing, FirstStep
  <1> QED
    BY <1>1, <1>2 DEF KnowsDesktop, KnowsKind, Undisturbed, NeedsFront, NeedsPlace, NeedsButton,
                      Inputs

\* What the call itself moves on to is not disturbed, or was so before.
LEMMA OwnHistory ==
  ASSUME NEW c \in Calls, History(c), at' = at
  PROVE  /\ disturbed'[c] = (disturbed[c] \/ (pc[c] = "front" /\ front' # app[c]))
         /\ ~disturbed'[c] => ~disturbed[c]
  BY DEF History

\* The steps of the pointer, undisturbed.
LEMMA PointerKnowsDesktop ==
  ASSUME DesktopInv, NEW c \in Calls, History(c), PointerSteps(c)
  PROVE  KnowsDesktop(c)'
  <1> USE DEF Step, This, desktop, mouse, effects
  <1>1. /\ KnowsDesktop(c) /\ TypeOK
    BY DEF DesktopInv, DoInv
  <1>2. at' = at /\ batch' = batch /\ app' = app /\ pasted' = pasted /\ aimed' = aimed
    BY DEF PointerSteps, Click, Glide, Arrive, Scroll, Aim, Press, DragOn, Drop
  <1>3. ~disturbed'[c] => ~disturbed[c]
    BY <1>2, OwnHistory
  <1>4. Undisturbed(c) /\ pc[c] \in {"act", "gliding", "scrolling", "pressing"}
          /\ This(c).type \in PointerInput
        => Under(c) = {app[c]} /\ front = app[c] /\ c \in aimed
    BY DEF Undisturbed, NeedsFront, NeedsPlace, Inputs, Under
  <1> USE <1>1, <1>2, <1>3, <1>4 DEF TypeOK, KnowsDesktop, KnowsKind, Undisturbed, NeedsFront,
          NeedsPlace, NeedsButton, PointerInput
  <1>5. CASE Click(c)
    BY <1>5 DEF Click
  <1>6. CASE Glide(c)
    BY <1>6 DEF Glide
  <1>7. CASE Arrive(c)
    BY <1>7 DEF Arrive
  <1>8. CASE Scroll(c)
    BY <1>8 DEF Scroll
  <1>9. CASE Aim(c)
    BY <1>9 DEF Aim
  <1>10. CASE Press(c)
    BY <1>10 DEF Press
  <1>11. CASE DragOn(c)
    BY <1>11 DEF DragOn, Dragged
  <1>12. CASE Drop(c)
    BY <1>12 DEF Drop, Dragged
  <1> QED
    BY <1>5, <1>6, <1>7, <1>8, <1>9, <1>10, <1>11, <1>12 DEF PointerSteps

\* The other steps of the call itself.
LEMMA MoverKnowsDesktop ==
  ASSUME DesktopInv, NEW c \in Calls, HandleDo(c), ~Begin(c)
  PROVE  KnowsDesktop(c)'
  <1> USE DEF Step, This, desktop, mouse, effects
  <1>1. /\ KnowsDesktop(c) /\ TypeOK /\ History(c)
        /\ KnowsBatch(c)
    BY DEF DesktopInv, DoInv, HandleDo
  <1> USE <1>1 DEF TypeOK, KnowsDesktop, KnowsKind, Undisturbed, NeedsFront, NeedsPlace,
          NeedsButton
  <1>2. at' = at /\ app' = app
    BY DEF HandleDo, Execute, Receive, Validate, CheckPermission, Finish, Find, Focus, TapKey,
           BeginTyping, TypeChar, PasteSets, PasteCommand, Look, ControlWindow, Fails,
           PointerSteps, Click, Glide, Arrive, Scroll, Aim, Press, DragOn, Drop
  <1>3. /\ disturbed'[c] = (disturbed[c] \/ (pc[c] = "front" /\ front' # app[c]))
        /\ ~disturbed'[c] => ~disturbed[c]
    BY <1>2, OwnHistory
  <1>4. CASE Receive(c) \/ Validate(c) \/ CheckPermission(c) \/ Finish(c) \/ Fails(c)
    BY <1>2, <1>3, <1>4 DEF Receive, Validate, CheckPermission, Finish, Fails
  <1>5. CASE Find(c)
    BY <1>2, <1>3, <1>5 DEF Find
  <1>6. CASE Focus(c)
    BY <1>2, <1>3, <1>6 DEF Focus
  <1>7. CASE PointerSteps(c)
    BY <1>7, PointerKnowsDesktop
  <1>8. CASE TapKey(c)
    BY <1>2, <1>3, <1>8 DEF TapKey, Inputs, KeyboardInput
  <1>9. CASE BeginTyping(c)
    BY <1>2, <1>3, <1>9 DEF BeginTyping, Inputs, KeyboardInput, PointerInput
  <1>10. CASE TypeChar(c)
    BY <1>2, <1>3, <1>10 DEF TypeChar, Inputs, KeyboardInput, PointerInput
  <1>11. CASE PasteSets(c)
    BY <1>2, <1>3, <1>11 DEF PasteSets, Inputs, KeyboardInput, PointerInput
  <1>12. CASE PasteCommand(c)
    BY <1>2, <1>3, <1>12 DEF PasteCommand, Inputs, KeyboardInput, PointerInput
  <1>13. CASE Look(c)
    BY <1>2, <1>3, <1>13 DEF Look
  <1>14. CASE ControlWindow(c)
    BY <1>2, <1>3, <1>14 DEF ControlWindow
  <1> QED
    BY <1>4, <1>5, <1>6, <1>7, <1>8, <1>9, <1>10, <1>11, <1>12, <1>13, <1>14 DEF HandleDo, Execute

LEMMA DesktopStepInv ==
  ASSUME DesktopInv, DoInv', [Next]_vars
  PROVE  DesktopInv'
  <1>1. ASSUME NEW c \in Calls, HandleDo(c), NEW d \in Calls PROVE KnowsDesktop(d)'
    <2>1. CASE d = c
      BY <1>1, <2>1, BeginKnowsDesktop, MoverKnowsDesktop
    <2>2. CASE d # c
      <3>1. /\ pc'[d] = pc[d] /\ batch'[d] = batch[d] /\ at'[d] = at[d] /\ app'[d] = app[d]
            /\ hit'[d] = hit[d] /\ pasted'[d] = pasted[d]
        BY <1>1, <2>2, OthersUntouched DEF DesktopInv
      <3>2. disturbed'[d] = (disturbed[d] \/ Exposed(d))
        BY <1>1, <2>2 DEF HandleDo, History
      <3> QED
        BY <3>1, <3>2, BystanderKeeps DEF DesktopInv
    <2> QED
      BY <2>1, <2>2
  <1>2. ASSUME User, NEW d \in Calls PROVE KnowsDesktop(d)'
    <2>1. /\ pc' = pc /\ batch' = batch /\ at' = at /\ app' = app /\ hit' = hit /\ pasted' = pasted
          /\ disturbed'[d] = (disturbed[d] \/ Exposed(d))
      BY <1>2 DEF User, effects
    <2> QED
      BY <2>1, BystanderKeeps DEF DesktopInv
  <1>3. ASSUME UNCHANGED vars, NEW d \in Calls PROVE KnowsDesktop(d)'
    BY <1>3 DEF vars, desktop, mouse, effects, DesktopInv, KnowsDesktop, KnowsKind, Undisturbed, This
  <1> QED
    BY <1>1, <1>2, <1>3 DEF Next, Quiescent, DesktopInv

\* While nobody else changes what an action is exposed to at the step it is
\* at, all its input goes to the application it is meant for and its paste is
\* its own text: for any number of calls with batches of any length, whatever
\* they and the user do to the desktop otherwise.
THEOREM UndisturbedInputReaches == Spec => []InputReachesTarget
  <1>1. Init => DesktopInv
    BY InitDoInv DEF Init, DesktopInv, KnowsDesktop, KnowsKind, Undisturbed, NeedsFront,
                     NeedsPlace, NeedsButton
  <1>2. DesktopInv /\ [Next]_vars => DesktopInv'
    BY DesktopStepInv, DoInvStep DEF DesktopInv
  <1>3. DesktopInv => InputReachesTarget
    BY DEF DesktopInv, KnowsDesktop, Undisturbed, InputReachesTarget
  <1> QED
    BY <1>1, <1>2, <1>3, PTL DEF Spec

-----------------------------------------------------------------------------
(* The application of an action without one of its own.                     *)

\* One action further, the latest focus is that action or the one before.
LEMMA LatestFocus ==
  ASSUME NEW b, NEW n \in Nat \ {0}
  PROVE  FocusBefore(b, n + 1) = IF SetsFocus(b[n]) THEN b[n].app ELSE FocusBefore(b, n)
  <1>1. FocusesBefore(b, n + 1) = IF SetsFocus(b[n]) THEN FocusesBefore(b, n) \cup {n} ELSE FocusesBefore(b, n)
    <2>1. 1..((n + 1) - 1) = 1..(n - 1) \cup {n}
      OBVIOUS
    <2> QED
      BY <2>1 DEF FocusesBefore
  <1> DEFINE Named(S) == b[CHOOSE j \in S : \A k \in S : k <= j].app
             Last(S) == IF S = {} THEN NoApp ELSE Named(S)
  <1>a. FocusBefore(b, n + 1) = Last(FocusesBefore(b, n + 1)) /\ FocusBefore(b, n) = Last(FocusesBefore(b, n))
    BY DEF FocusBefore
  <1>2. CASE ~SetsFocus(b[n])
    <2> HIDE DEF Last
    <2> QED
      BY <1>1, <1>2, <1>a
  <1>3. CASE SetsFocus(b[n])
    <2> DEFINE F == FocusesBefore(b, n + 1)
               Latest(j) == \A k \in F : k <= j
    <2>1. n \in F /\ Latest(n)
      BY <1>1, <1>3 DEF FocusesBefore
    <2>2. \A j \in F : Latest(j) => j = n
      BY <2>1 DEF FocusesBefore
    <2>3. (CHOOSE j \in F : Latest(j)) = n
      <3> HIDE DEF F, Latest
      <3> QED
        BY <2>1, <2>2
    <2>4. F # {}
      BY <2>1
    <2>5. Named(F) = b[n].app
      BY <2>3
    <2>6. FocusBefore(b, n + 1) = Named(F)
      <3> HIDE DEF F, Named
      <3> QED
        BY <1>a, <2>4 DEF F
    <2> QED
      BY <1>3, <2>5, <2>6
  <1> QED
    BY <1>2, <1>3

LEMMA NoFocusAtFirst == \A b : FocusBefore(b, 1) = NoApp
  <1>1. \A b : FocusesBefore(b, 1) = {}
    BY DEF FocusesBefore
  <1> QED
    BY <1>1 DEF FocusBefore

\* focusedApp is the latest focus among the actions gone by.
FollowsFocus(c) ==
  /\ focusedApp[c] = FocusBefore(batch[c], at[c] + 1)
  /\ Executing(c) /\ This(c).type \in Inheriting =>
       app[c] = IF This(c).app # NoApp THEN This(c).app ELSE FocusBefore(batch[c], at[c])

FocusInv == DoInv /\ \A c \in Calls : FollowsFocus(c)

LEMMA InitFocusInv == Init => FocusInv
  <1> SUFFICES ASSUME Init PROVE FocusInv
    OBVIOUS
  <1>1. ASSUME NEW c \in Calls PROVE FollowsFocus(c)
    <2>1. at[c] + 1 = 1 /\ focusedApp[c] = NoApp /\ ~Executing(c)
      BY DEF Init, Executing
    <2> QED
      BY <2>1, NoFocusAtFirst DEF FollowsFocus
  <1> QED
    BY <1>1, InitDoInv DEF FocusInv

\* Begin is the step that moves on in the batch.
LEMMA BeginFollows ==
  ASSUME FocusInv, NEW c \in Calls, Begin(c)
  PROVE  FollowsFocus(c)'
  <1> DEFINE n == at[c] + 1
             a == batch[c][n]
             focused == IF SetsFocus(a) THEN a.app ELSE focusedApp[c]
             target == IF a.app = NoApp /\ a.type \in Inheriting THEN focused ELSE a.app
  <1>1. /\ at[c] \in Nat /\ at \in [Calls -> Nat] /\ n \in Nat \ {0}
        /\ focusedApp \in [Calls -> Apps \cup {NoApp}] /\ app \in [Calls -> Apps \cup {NoApp}]
    BY DEF FocusInv, DoInv, TypeOK
  <1>2. /\ at'[c] = n /\ focusedApp'[c] = focused /\ app'[c] = target /\ batch' = batch
    BY <1>1 DEF Begin
  <1>3. focusedApp[c] = FocusBefore(batch[c], n)
    BY DEF FocusInv, FollowsFocus
  <1>4. FocusBefore(batch[c], n + 1) = focused
    BY <1>1, <1>3, LatestFocus
  <1>5. a.type \in Inheriting => focused = FocusBefore(batch[c], n)
    BY <1>3 DEF SetsFocus, Inheriting, Inputs, PointerInput, KeyboardInput
  <1>6. This(c)' = a
    BY <1>2 DEF This
  <1>7. a.type \in Inheriting => target = IF a.app # NoApp THEN a.app ELSE FocusBefore(batch[c], n)
    BY <1>5
  <1> HIDE DEF n, a, focused, target
  <1> QED
    BY <1>2, <1>4, <1>6, <1>7 DEF FollowsFocus

\* A call that stays at its action, or has none yet.
LEMMA StayFollows ==
  ASSUME FocusInv, NEW c \in Calls,
         at'[c] = at[c], focusedApp'[c] = focusedApp[c], app'[c] = app[c],
         \/ batch'[c] = batch[c] /\ (Executing(c)' => Executing(c))
         \/ at[c] = 0 /\ ~Executing(c)'
  PROVE  FollowsFocus(c)'
  <1>1. FollowsFocus(c)
    BY DEF FocusInv
  <1>2. CASE batch'[c] = batch[c] /\ (Executing(c)' => Executing(c))
    BY <1>1, <1>2 DEF FollowsFocus, This
  <1>3. CASE at[c] = 0 /\ ~Executing(c)'
    <2>1. at[c] + 1 = 1 /\ at'[c] + 1 = 1
      BY <1>3
    <2> QED
      BY <1>1, <1>3, <2>1, NoFocusAtFirst DEF FollowsFocus
  <1> QED
    BY <1>2, <1>3

LEMMA FocusInvStep ==
  ASSUME FocusInv, [Next]_vars
  PROVE  FocusInv'
  <1>1. DoInv'
    BY DoInvStep DEF FocusInv
  <1>2. ASSUME NEW c \in Calls, HandleDo(c), NEW d \in Calls PROVE FollowsFocus(d)'
    <2> USE DEF Step, desktop, mouse, effects
    <2>1. TypeOK /\ KnowsBatch(c)
      BY DEF FocusInv, DoInv
    <2>2. CASE Begin(c)
      <3>1. CASE d = c
        BY <2>2, <3>1, BeginFollows
      <3>2. CASE d # c
        <4>1. /\ at'[d] = at[d] /\ focusedApp'[d] = focusedApp[d] /\ app'[d] = app[d]
              /\ batch'[d] = batch[d] /\ pc'[d] = pc[d]
          BY <2>1, <2>2, <3>2 DEF Begin, TypeOK
        <4> QED
          BY <4>1, StayFollows DEF Executing
      <3> QED
        BY <3>1, <3>2
    <2>3. CASE Receive(c)
      <3>1. /\ at' = at /\ focusedApp' = focusedApp /\ app' = app /\ at[c] = 0 /\ pc'[c] = "validate"
            /\ (d # c => batch'[d] = batch[d] /\ pc'[d] = pc[d])
        BY <2>1, <2>3 DEF Receive, TypeOK, KnowsBatch
      <3>2. d = c => at[d] = 0 /\ ~Executing(d)'
        BY <3>1 DEF Executing
      <3>3. d # c => batch'[d] = batch[d] /\ (Executing(d)' => Executing(d))
        BY <3>1 DEF Executing
      <3> QED
        BY <3>1, <3>2, <3>3, StayFollows
    <2>4. CASE ~Begin(c) /\ ~Receive(c)
      <3>1. at' = at /\ focusedApp' = focusedApp /\ app' = app /\ batch' = batch
        BY <1>2, <2>4 DEF HandleDo, Execute, Validate, CheckPermission, Finish, Find, Focus, TapKey,
              PointerSteps, Click, Glide, Arrive, Scroll, Aim, Press, DragOn, Drop,
           BeginTyping, TypeChar, PasteSets, PasteCommand, Look, ControlWindow, Fails
      <3>2. Executing(d)' => Executing(d)
        BY <1>2, <2>1, <2>4 DEF HandleDo, Execute, Validate, CheckPermission, Finish, Find, Focus, TapKey,
              PointerSteps, Click, Glide, Arrive, Scroll, Aim, Press, DragOn, Drop,
           BeginTyping, TypeChar, PasteSets, PasteCommand, Look, ControlWindow, Fails, Executing, TypeOK
      <3> QED
        BY <3>1, <3>2, StayFollows
    <2> QED
      BY <2>2, <2>3, <2>4
  <1>3. ASSUME User \/ UNCHANGED vars, NEW d \in Calls PROVE FollowsFocus(d)'
    <2>1. UNCHANGED <<pc, batch, at, focusedApp, app>>
      BY <1>3 DEF User, vars
    <2> QED
      BY <2>1, StayFollows DEF Executing
  <1> QED
    BY <1>1, <1>2, <1>3 DEF Next, Quiescent, FocusInv

\* In a batch of any length, an action without an app of its own is sent to
\* the application that the latest focus action before it names.
THEOREM TargetsNearestFocus == Spec => []TargetIsNearestFocus
  <1>1. FocusInv => TargetIsNearestFocus
    BY DEF FocusInv, FollowsFocus, TargetIsNearestFocus
  <1>2. FocusInv /\ [Next]_vars => FocusInv'
    BY FocusInvStep
  <1> QED
    BY <1>1, <1>2, InitFocusInv, PTL DEF Spec
=============================================================================
