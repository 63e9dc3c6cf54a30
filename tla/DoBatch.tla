------------------------------- MODULE DoBatch -------------------------------
(***************************************************************************)
(* The do() tool of internal/tools/do.go: a batch of actions is            *)
(* normalised, validated as a whole, and executed one action after the     *)
(* other on a desktop that every call and the user share: one frontmost    *)
(* application, one keyboard, one clipboard, one pointer with one left     *)
(* button.  The window server and the user are external.  An action is a   *)
(* record; what its own fields (text, key, ms, deltas, size, format) say   *)
(* to its validator is one Boolean.                                        *)
(***************************************************************************)
EXTENDS Integers, Sequences

CONSTANTS
  Calls,        \* concurrent do() calls
  Apps,         \* applications an action may name
  NoApp,        \* the empty app field; also: no application
  Batches,      \* the action lists that each call may get (bounds the model)
  TextLen       \* characters a type action sends (bounds the model)

Types == {"click", "move", "type", "key", "paste", "clipboard", "wait", "scroll", "drag",
          "focus", "minimize", "restore", "close", "resize", "screenshot"}
Aliases == [hover |-> "move", mouse_move |-> "move", mouse_click |-> "click"]
Buttons == {"", "left", "right", "middle", "Right", "side"}

Action == [type : Types \cup DOMAIN Aliases \cup {"tap"}, app : Apps \cup {NoApp},
           app_name : Apps \cup {NoApp}, button : Buttons, fit : BOOLEAN]

ASSUME DoAssumption ==
  /\ NoApp \notin Apps
  /\ Batches \in [Calls -> SUBSET Seq(Action)]
  /\ TextLen \in Nat \ {0}

-----------------------------------------------------------------------------
(* Normalisation and validation.                                            *)

CanonicalType(type) == IF type \in DOMAIN Aliases THEN Aliases[type] ELSE type

normalizeAction(a) ==
  [a EXCEPT !.type = CanonicalType(a.type),
            !.app = IF a.app = NoApp THEN a.app_name ELSE a.app]

ToLower(button) == IF button = "Right" THEN "right" ELSE button

PointerInput == {"click", "move", "scroll", "drag"}
KeyboardInput == {"key", "type", "paste"}
Inputs == PointerInput \cup KeyboardInput
Inheriting == Inputs \cup {"screenshot"}
OnWindow == {"focus", "minimize", "restore", "close", "resize"}

validateMouseAction(a) == ToLower(a.button) \in {"", "left", "right", "middle"}
validateOwnFields(a) == a.fit
validateScrollAction(a) == a.app # NoApp /\ a.fit
validateWindowAction(a) == a.app # NoApp
validateResizeAction(a) == a.app # NoApp /\ a.fit
validatePasteAction(a) == a.fit
validateDragAction(a) == a.app # NoApp
validateScreenshotAction(a) == a.fit

validateAction(a) ==
  \/ a.type \in {"click", "move"} /\ validateMouseAction(a)
  \/ a.type \in {"type", "key", "wait"} /\ validateOwnFields(a)
  \/ a.type = "paste" /\ validatePasteAction(a)
  \/ a.type = "clipboard"
  \/ a.type = "scroll" /\ validateScrollAction(a)
  \/ a.type = "drag" /\ validateDragAction(a)
  \/ a.type \in {"focus", "minimize", "restore", "close"} /\ validateWindowAction(a)
  \/ a.type = "resize" /\ validateResizeAction(a)
  \/ a.type = "screenshot" /\ validateScreenshotAction(a)

SetsFocus(a) == a.type = "focus" /\ a.app # NoApp

\* Mutant: the action's own successors count as a focus before it.
ContextAnywhere(batch) ==
  \A i \in DOMAIN batch :
    batch[i].type \in Inputs =>
      batch[i].app # NoApp \/ \E j \in DOMAIN batch : SetsFocus(batch[j])

validateAppContext(batch) ==
  \A i \in DOMAIN batch :
    batch[i].type \in Inputs =>
      batch[i].app # NoApp \/ \E j \in 1..(i - 1) : SetsFocus(batch[j])

Valid(batch) ==
  /\ batch # <<>>
  /\ \A i \in DOMAIN batch : validateAction(batch[i])
  /\ validateAppContext(batch)

needsAccessibility(batch) ==
  \E i \in DOMAIN batch : batch[i].type \notin {"screenshot", "wait"}

-----------------------------------------------------------------------------
VARIABLES
  front,       \* the frontmost application
  windows,     \* the applications with a window FindWindow finds
  clipboard,   \* the call whose text is on the clipboard, or NoApp: another's
  pointer,     \* the call that left the pointer at its own target, or NoApp: elsewhere
  held,        \* the call whose press holds the left button down, or NoApp
  aimed,       \* the calls whose window is still where it was when they looked it up
  accessible,  \* the Accessibility permission is granted
  pc,          \* what each call does next
  batch,       \* its normalised actions
  at,          \* the index of the action it executes
  focusedApp,  \* the application its focus actions have set
  app,         \* the application of the action it executes
  left,        \* characters it has still to type
  hit,         \* the application that got its last input event
  pasted,      \* the call whose text its last paste put there
  disturbed    \* history: the desktop was changed under the action it executes

mouse == <<pointer, held>>
desktop == <<front, windows, clipboard, mouse, aimed>>
effects == <<hit, pasted>>
vars == <<desktop, accessible, pc, batch, at, focusedApp, app, left, effects, disturbed>>

TypeOK ==
  /\ front \in Apps \cup {NoApp}
  /\ windows \in SUBSET Apps
  /\ clipboard \in Calls \cup {NoApp}
  /\ pointer \in Calls \cup {NoApp}
  /\ held \in Calls \cup {NoApp}
  /\ aimed \in SUBSET Calls
  /\ accessible \in BOOLEAN
  /\ pc \in [Calls -> {"idle", "validate", "permission", "next", "find", "front", "act",
                       "typing", "command", "gliding", "scrolling", "pressing", "dragging",
                       "dropping", "returned"}]
  /\ batch \in [Calls -> Seq(Action)]
  /\ at \in [Calls -> Nat]
  /\ focusedApp \in [Calls -> Apps \cup {NoApp}]
  /\ app \in [Calls -> Apps \cup {NoApp}]
  /\ left \in [Calls -> 0..TextLen]
  /\ hit \in [Calls -> Apps \cup {NoApp}]
  /\ pasted \in [Calls -> Calls \cup {NoApp}]
  /\ disturbed \in [Calls -> BOOLEAN]

Init ==
  /\ front \in Apps \cup {NoApp}
  /\ windows \in SUBSET Apps
  /\ clipboard = NoApp
  /\ pointer = NoApp
  /\ held = NoApp
  /\ aimed = {}
  /\ accessible \in BOOLEAN
  /\ pc = [c \in Calls |-> "idle"]
  /\ batch = [c \in Calls |-> <<>>]
  /\ at = [c \in Calls |-> 0]
  /\ focusedApp = [c \in Calls |-> NoApp]
  /\ app = [c \in Calls |-> NoApp]
  /\ left = [c \in Calls |-> 0]
  /\ hit = [c \in Calls |-> NoApp]
  /\ pasted = [c \in Calls |-> NoApp]
  /\ disturbed = [c \in Calls |-> FALSE]

-----------------------------------------------------------------------------
Step(c, from, to) == pc[c] = from /\ pc' = [pc EXCEPT ![c] = to]
This(c) == batch[c][at[c]]

Receive(c) ==
  /\ Step(c, "idle", "validate")
  /\ \E actions \in Batches[c] :
       batch' = [batch EXCEPT ![c] = [i \in DOMAIN actions |-> normalizeAction(actions[i])]]
  /\ UNCHANGED <<desktop, accessible, at, focusedApp, app, left, effects>>

\* Mutant: only the first action is validated before the batch is executed.
ValidateFirst(c) ==
  /\ Step(c, "validate", IF batch[c] # <<>> /\ validateAction(batch[c][1])
                              /\ validateAppContext(batch[c])
                         THEN "permission" ELSE "returned")
  /\ UNCHANGED <<desktop, accessible, batch, at, focusedApp, app, left, effects>>

Validate(c) ==
  /\ Step(c, "validate", IF Valid(batch[c]) THEN "permission" ELSE "returned")
  /\ UNCHANGED <<desktop, accessible, batch, at, focusedApp, app, left, effects>>

CheckPermission(c) ==
  /\ Step(c, "permission", IF needsAccessibility(batch[c]) /\ ~accessible
                           THEN "returned" ELSE "next")
  /\ UNCHANGED <<desktop, accessible, batch, at, focusedApp, app, left, effects>>

Finish(c) ==
  /\ at[c] = Len(batch[c])
  /\ Step(c, "next", "returned")
  /\ UNCHANGED <<desktop, accessible, batch, at, focusedApp, app, left, effects>>

\* Which step an action starts with: look its window up, or act at once.
FirstStep(a, target) == IF a.type \in Inputs \cup OnWindow /\ target # NoApp THEN "find" ELSE "act"

\* Mutant: the focus of an action is noted after the action ran: the next but
\* one inherits it.
BeginLate(c) ==
  /\ at[c] < Len(batch[c])
  /\ at' = [at EXCEPT ![c] = @ + 1]
  /\ LET a == batch[c][at[c] + 1]
         target == IF a.app = NoApp /\ a.type \in Inheriting THEN focusedApp[c] ELSE a.app
     IN /\ focusedApp' = [focusedApp EXCEPT ![c] =
                            IF at[c] > 0 /\ SetsFocus(batch[c][at[c]]) THEN batch[c][at[c]].app ELSE @]
        /\ app' = [app EXCEPT ![c] = target]
        /\ Step(c, "next", FirstStep(a, target))
  /\ hit' = [hit EXCEPT ![c] = NoApp]
  /\ pasted' = [pasted EXCEPT ![c] = NoApp]
  /\ UNCHANGED <<desktop, accessible, batch, left>>

\* A focus action sets the application that later ones inherit.
Begin(c) ==
  /\ at[c] < Len(batch[c])
  /\ at' = [at EXCEPT ![c] = @ + 1]
  /\ LET a == batch[c][at[c] + 1]
         focused == IF SetsFocus(a) THEN a.app ELSE focusedApp[c]
         target == IF a.app = NoApp /\ a.type \in Inheriting THEN focused ELSE a.app
     IN /\ focusedApp' = [focusedApp EXCEPT ![c] = focused]
        /\ app' = [app EXCEPT ![c] = target]
        /\ Step(c, "next", FirstStep(a, target))
  /\ hit' = [hit EXCEPT ![c] = NoApp]
  /\ pasted' = [pasted EXCEPT ![c] = NoApp]
  /\ UNCHANGED <<desktop, accessible, batch, left>>

-----------------------------------------------------------------------------
(* Execution.                                                               *)

\* What cannot fail: typing, waiting, and the clipboard.
Unfailing == {"type", "wait", "clipboard"}

\* The first error ends the call.
Fails(c) ==
  /\ pc[c] \in {"find", "front", "act"}
  /\ pc[c] = "act" => This(c).type \notin Unfailing
  /\ pc' = [pc EXCEPT ![c] = "returned"]
  /\ UNCHANGED <<desktop, accessible, batch, at, focusedApp, app, left, effects>>

\* Mutant: keyboard input trusts that its window is in front.
FindTrusting(c) ==
  /\ app[c] \in windows
  /\ Step(c, "find", IF \/ This(c).type = "focus"
                        \/ This(c).type \in PointerInput /\ front # app[c]
                     THEN "front" ELSE "act")
  /\ aimed' = aimed \cup {c}
  /\ UNCHANGED <<front, windows, clipboard, mouse, accessible, batch, at, focusedApp, app, left, effects>>

\* FindWindow and, for input, IsFrontmostApp.
Find(c) ==
  /\ app[c] \in windows
  /\ Step(c, "find", IF \/ This(c).type = "focus"
                        \/ This(c).type \in Inputs /\ front # app[c]
                     THEN "front" ELSE "act")
  /\ aimed' = aimed \cup {c}
  /\ UNCHANGED <<front, windows, clipboard, mouse, accessible, batch, at, focusedApp, app, left, effects>>

\* FocusWindow, and the pause to let the focus settle: an application may stay
\* behind, and nobody looks whether it did.
Focus(c) ==
  /\ Step(c, "front", IF This(c).type = "focus" THEN "next" ELSE "act")
  /\ front' \in {app[c], front}
  /\ UNCHANGED <<windows, clipboard, mouse, aimed, accessible, batch, at, focusedApp, app, left, effects>>

\* Pointer events go to a screen position: what is in front may cover the
\* window there, and where the window no longer is there may be any other.
Under(c) == IF c \in aimed THEN {front, app[c]} ELSE Apps \cup {NoApp}

ParseMouseButton(button) == IF button \in {"right", "middle"} THEN button ELSE "left"

\* clickMouse posts its move, presses and releases back to back, each with
\* its position; a release of the left button ends whatever drag is on.
Click(c) ==
  /\ Step(c, "act", "next")
  /\ This(c).type = "click"
  /\ \E under \in Under(c) : front' = under /\ hit' = [hit EXCEPT ![c] = under]
  /\ pointer' = c
  /\ held' = IF ParseMouseButton(This(c).button) = "left" THEN NoApp ELSE held
  /\ UNCHANGED <<windows, clipboard, aimed, accessible, batch, at, focusedApp, app, left, pasted>>

\* moveMouse over ten pixels or more sends ten events with pauses between them.
Glide(c) ==
  /\ Step(c, "act", "gliding")
  /\ This(c).type \in {"move", "scroll"}
  /\ pointer' = NoApp
  /\ UNCHANGED <<front, windows, clipboard, held, aimed, accessible, batch, at, focusedApp,
                 app, left, effects>>

\* The last event of a move, or its only one over a short distance.
Arrive(c) ==
  /\ \E from \in {"act", "gliding"} :
       Step(c, from, IF This(c).type = "scroll" THEN "scrolling" ELSE "next")
  /\ This(c).type \in {"move", "scroll"}
  /\ pointer' = c
  /\ \E under \in Under(c) : hit' = [hit EXCEPT ![c] = under]
  /\ UNCHANGED <<front, windows, clipboard, held, aimed, accessible, batch, at, focusedApp,
                 app, left, pasted>>

\* Scroll turns the wheel where the pointer is by then.
Scroll(c) ==
  /\ Step(c, "scrolling", "next")
  /\ \E under \in (IF pointer = c THEN Under(c) ELSE Apps \cup {NoApp}) :
       hit' = [hit EXCEPT ![c] = under]
  /\ UNCHANGED <<desktop, accessible, batch, at, focusedApp, app, left, pasted>>

\* dragMouse: to the start, press, along the path, release, with pauses.
Aim(c) ==
  /\ Step(c, "act", "pressing")
  /\ This(c).type = "drag"
  /\ pointer' = c
  /\ UNCHANGED <<front, windows, clipboard, held, aimed, accessible, batch, at, focusedApp,
                 app, left, effects>>

Press(c) ==
  /\ Step(c, "pressing", "dragging")
  /\ \E under \in Under(c) : front' = under /\ hit' = [hit EXCEPT ![c] = under]
  /\ pointer' = c
  /\ held' = c
  /\ UNCHANGED <<windows, clipboard, aimed, accessible, batch, at, focusedApp, app, left, pasted>>

\* While the press holds, the window that got it gets the events; without it
\* they go to whatever is there.
Dragged(c) ==
  \E under \in (IF held = c THEN {hit[c]} ELSE Apps \cup {NoApp}) :
    hit' = [hit EXCEPT ![c] = under]

DragOn(c) ==
  /\ Step(c, "dragging", "dropping")
  /\ Dragged(c)
  /\ pointer' = c
  /\ UNCHANGED <<front, windows, clipboard, held, aimed, accessible, batch, at, focusedApp,
                 app, left, pasted>>

Drop(c) ==
  /\ Step(c, "dropping", "next")
  /\ Dragged(c)
  /\ pointer' = c
  /\ held' = NoApp
  /\ UNCHANGED <<front, windows, clipboard, aimed, accessible, batch, at, focusedApp, app,
                 left, pasted>>

TapKey(c) ==
  /\ Step(c, "act", "next")
  /\ This(c).type = "key"
  /\ hit' = [hit EXCEPT ![c] = front]
  /\ UNCHANGED <<desktop, accessible, batch, at, focusedApp, app, left, pasted>>

BeginTyping(c) ==
  /\ Step(c, "act", "typing")
  /\ This(c).type = "type"
  /\ left' = [left EXCEPT ![c] = TextLen]
  /\ UNCHANGED <<desktop, accessible, batch, at, focusedApp, app, effects>>

TypeChar(c) ==
  /\ Step(c, "typing", IF left[c] = 1 THEN "next" ELSE "typing")
  /\ left' = [left EXCEPT ![c] = @ - 1]
  /\ hit' = [hit EXCEPT ![c] = front]
  /\ UNCHANGED <<desktop, accessible, batch, at, focusedApp, app, pasted>>

PasteSets(c) ==
  /\ Step(c, "act", "command")
  /\ This(c).type = "paste"
  /\ clipboard' = c
  /\ UNCHANGED <<front, windows, mouse, aimed, accessible, batch, at, focusedApp, app, left, effects>>

\* The application takes what is on the clipboard when Cmd+V gets to it.
PasteCommand(c) ==
  /\ Step(c, "command", "next")
  /\ hit' = [hit EXCEPT ![c] = front]
  /\ pasted' = [pasted EXCEPT ![c] = clipboard]
  /\ UNCHANGED <<desktop, accessible, batch, at, focusedApp, app, left>>

\* Reading the clipboard, waiting and taking a screenshot change nothing here.
Look(c) ==
  /\ Step(c, "act", "next")
  /\ This(c).type \in {"clipboard", "wait", "screenshot"}
  /\ UNCHANGED <<desktop, accessible, batch, at, focusedApp, app, left, effects>>

\* The window that FindWindow found leaves its place, with those that others
\* have looked up of that application: they may have found the same.  A
\* minimised or closed one may have been the application's last.
ControlWindow(c) ==
  /\ Step(c, "act", "next")
  /\ This(c).type \in {"minimize", "restore", "close", "resize"}
  /\ \/ UNCHANGED windows
     \/ This(c).type \in {"minimize", "close"} /\ windows' = windows \ {app[c]}
  /\ aimed' = {d \in aimed : app[d] # app[c]}
  /\ UNCHANGED <<front, clipboard, mouse, accessible, batch, at, focusedApp, app, left, effects>>

PointerSteps(c) ==
  \/ Click(c) \/ Glide(c) \/ Arrive(c) \/ Scroll(c)
  \/ Aim(c) \/ Press(c) \/ DragOn(c) \/ Drop(c)

Execute(c) ==
  \/ Begin(c) \/ Find(c) \/ Focus(c) \/ PointerSteps(c) \/ TapKey(c) \/ BeginTyping(c)
  \/ TypeChar(c) \/ PasteSets(c) \/ PasteCommand(c) \/ Look(c) \/ ControlWindow(c) \/ Fails(c)

\* Where an action is exposed: each part of the desktop matters to it from
\* the step that looks at it or sets it, to the last that relies on it.
NeedsFront == {"act", "typing", "command", "gliding", "scrolling", "pressing"}
NeedsPlace == {"front", "act", "gliding", "scrolling", "pressing"}
NeedsButton == {"dragging", "dropping"}

Exposed(d) ==
  \/ pc[d] \in NeedsFront /\ front' # front
  \/ pc[d] \in NeedsPlace /\ This(d).type \in PointerInput /\ d \in aimed \ aimed'
  \/ pc[d] \in NeedsButton /\ held' # held
  \/ pc[d] = "scrolling" /\ pointer' # pointer
  \/ pc[d] = "command" /\ clipboard' # clipboard

\* An action begins undisturbed; it is disturbed when its own focus is not
\* obeyed, and when anybody else changes what it is exposed to.
History(c) ==
  disturbed' = [d \in Calls |->
    IF d = c THEN at'[c] = at[c] /\ (disturbed[c] \/ (pc[c] = "front" /\ front' # app[c]))
    ELSE disturbed[d] \/ Exposed(d)]

HandleDo(c) ==
  /\ Receive(c) \/ Validate(c) \/ CheckPermission(c) \/ Execute(c) \/ Finish(c)
  /\ History(c)

\* The user switches applications, opens and moves windows, copies, moves the
\* pointer or clicks.
User ==
  /\ \/ front' \in Apps \cup {NoApp} /\ UNCHANGED <<windows, clipboard, mouse, aimed>>
     \/ \E a \in Apps : windows' = windows \cup {a} /\ UNCHANGED <<front, clipboard, mouse, aimed>>
     \/ \E a \in Apps : /\ aimed' = {c \in aimed : app[c] # a}
                        /\ UNCHANGED <<front, windows, clipboard, mouse>>
     \/ clipboard' = NoApp /\ UNCHANGED <<front, windows, mouse, aimed>>
     \/ /\ pointer' = NoApp
        /\ held' \in {held, NoApp}
        /\ UNCHANGED <<front, windows, clipboard, aimed>>
  /\ disturbed' = [c \in Calls |-> disturbed[c] \/ Exposed(c)]
  /\ UNCHANGED <<accessible, pc, batch, at, focusedApp, app, left, effects>>

Quiescent == (\A c \in Calls : pc[c] = "returned") /\ UNCHANGED vars

Next == (\E c \in Calls : HandleDo(c)) \/ User \/ Quiescent

Spec == Init /\ [][Next]_vars

-----------------------------------------------------------------------------
(* Properties.                                                              *)

Executing(c) == pc[c] \in {"find", "front", "act", "typing", "command", "gliding", "scrolling",
                          "pressing", "dragging", "dropping"}

\* The two passes over a batch agree: what validateAppContext lets through,
\* HandleDo's inheritance gives an application, so no pointer or keyboard
\* input is ever sent without one (the branches for absolute coordinates and
\* the frontmost application are dead).
InputHasTarget ==
  \A c \in Calls : Executing(c) /\ This(c).type \in Inputs => app[c] # NoApp

\* The application a batch's latest focus action before i names.
FocusesBefore(actions, i) == {j \in 1..(i - 1) : SetsFocus(actions[j])}
FocusBefore(actions, i) ==
  IF FocusesBefore(actions, i) = {} THEN NoApp
  ELSE actions[CHOOSE j \in FocusesBefore(actions, i) : \A k \in FocusesBefore(actions, i) : k <= j].app

\* An action without an app of its own is sent to the application of the
\* latest focus before it, not to an earlier or a later one.
TargetIsNearestFocus ==
  \A c \in Calls : Executing(c) /\ This(c).type \in Inheriting =>
    app[c] = IF This(c).app # NoApp THEN This(c).app ELSE FocusBefore(batch[c], at[c])

\* Nothing of a batch runs unless all of it is valid and permitted.
NothingRunsUnvalidated ==
  \A c \in Calls : at[c] > 0 =>
    Valid(batch[c]) /\ (needsAccessibility(batch[c]) => accessible)

\* "verifies the target app is focused before sending keystrokes, preventing
\* input from reaching the wrong window", a scroll turns the wheel over its
\* target, a drag stays with the window it began in and a paste pastes its own
\* text: so it is unless somebody changes just what the action is exposed to at
\* that very step.  What others do to the desktop before its window is looked
\* up, or to parts of it that the action does not use, never misdirects it.
InputReachesTarget ==
  \A c \in Calls : ~disturbed[c] => hit[c] \in {NoApp, app[c]} /\ pasted[c] \in {NoApp, c}
=============================================================================
