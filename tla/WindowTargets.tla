---------------------------- MODULE WindowTargets ----------------------------
(***************************************************************************)
(* Which window a tool call acts on.  A client captures a window, points   *)
(* at a pixel of the image, and controls windows; every call resolves its  *)
(* app field anew with capture.FindWindow (internal/capture/windows.go)    *)
(* and acts through internal/input: the pointer on a screen position, the  *)
(* window commands on the first window of the application's accessibility  *)
(* list.  The desktop, the accessibility list and the user are external.   *)
(* Names are compared without case; the empty name is NoName.              *)
(***************************************************************************)
EXTENDS Integers, SequencesExt

CONSTANTS
  Desktops,   \* the window lists, front to back, the system may start with
  Displays,   \* the bounds of the active displays
  Queries,    \* app fields clients send
  Titles,     \* window_title fields they send to capture_window
  NoName,     \* the empty string
  Within,     \* <<n, m>>: the name n is a substring of m
  Pixels,     \* positions <<x, y>> in a window clients point at
  NewSizes,   \* sizes <<width, height>> they give windows
  Spots,      \* places <<x, y>> the user drags windows to
  Nobody,     \* no process: an application without windows is in front
  MaxCalls,   \* tool calls (bounds the model)
  MaxUser     \* acts of the user (bounds the model)

Rect == [x : Int, y : Int, width : Int, height : Int]
Window == [id : Nat, pid : Nat, owner : STRING, name : STRING, layer : Nat, rect : Rect]

ASSUME WindowTargetsAssumption ==
  /\ Desktops \subseteq Seq(Window)
  /\ Displays \subseteq Rect
  /\ Queries # {}
  /\ \A q \in Queries \cup Titles : <<NoName, q>> \in Within /\ <<q, q>> \in Within
  /\ \A q \in Queries : <<q, NoName>> \in Within => q = NoName
  /\ Pixels \subseteq Int \X Int /\ Spots \subseteq Int \X Int
  /\ NewSizes \subseteq (Nat \ {0}) \X (Nat \ {0})
  /\ MaxCalls \in Nat /\ MaxUser \in Nat

-----------------------------------------------------------------------------
(* internal/capture: listing and finding windows.                           *)

Listed(w) == w.layer = 0 /\ w.owner # NoName /\ w.id # 0 /\ w.rect.width > 0 /\ w.rect.height > 0

FilterMatches(w, filter) ==
  \/ filter = NoName
  \/ <<filter, w.owner>> \in Within
  \/ w.name # NoName /\ <<filter, w.name>> \in Within

\* Where in desk the windows are that ListWindows gives, in the same order.
ListWindows(desk, filter) == {i \in DOMAIN desk : Listed(desk[i]) /\ FilterMatches(desk[i], filter)}

\* The process of the first window of layer 0.
FrontmostPID(desk) ==
  LET normal == {i \in DOMAIN desk : desk[i].layer = 0}
  IN IF normal = {} THEN Nobody ELSE desk[Min(normal)].pid

windowOverlapsDisplay(w) ==
  \E d \in Displays :
    /\ w.rect.x < d.x + d.width /\ w.rect.x + w.rect.width > d.x
    /\ w.rect.y < d.y + d.height /\ w.rect.y + w.rect.height > d.y

\* Mutant: the second pass is taken as well when the first has matches.
MatchesOfBothPasses(desk, app, title) ==
  {i \in ListWindows(desk, app) : /\ desk[i].owner = app \/ <<app, desk[i].name>> \in Within
                                 /\ <<title, desk[i].name>> \in Within}

\* Pass 1: the owner's name; pass 2, if there are none: the title.
Matches(desk, app, title) ==
  LET titled == {i \in ListWindows(desk, app) : <<title, desk[i].name>> \in Within}
      owned == {i \in titled : desk[i].owner = app}
  IN IF owned # {} THEN owned ELSE {i \in titled : <<app, desk[i].name>> \in Within}

\* The first match that overlaps a display, or else the first, as <<window>>;
\* <<>> is the error.
FindWindowWithTitle(desk, app, title) ==
  LET matches == Matches(desk, app, title)
      visible == {i \in matches : windowOverlapsDisplay(desk[i])}
  IN IF matches = {} THEN <<>>
     ELSE <<desk[Min(IF visible # {} THEN visible ELSE matches)]>>

-----------------------------------------------------------------------------
VARIABLES
  desk,       \* the on-screen windows, front to back
  docked,     \* the minimised windows
  frontmost,  \* the process that is the active application, or Nobody
  stage,      \* what the call does next
  call,       \* the call: its kind, app field, window_title
  info,       \* the WindowInfo it resolved, as <<window>>, or <<>>
  image,      \* the last capture's app field, window_title and window, or <<>>
  hit,        \* the id of the window the call's pointer event went to, or 0
  acted,      \* the id of the window its command acted on, or 0
  calls, acts \* how many calls and acts of the user there were

screen == <<desk, docked, frontmost>>
targetVars == <<screen, stage, call, info, image, hit, acted, calls, acts>>

Pointing == {"click", "move", "scroll", "drag"}
Commands == {"focus", "minimize", "restore", "close", "resize"}
ToolCall == [kind : Pointing \cup Commands \cup {"capture"}, app : Queries, title : Titles \cup {NoName}]

TargetsTypeOK ==
  /\ desk \in Seq(Window) /\ docked \in Seq(Window)
  /\ frontmost \in Nat \cup {Nobody}
  /\ stage \in {"idle", "find", "front", "act"}
  /\ call \in ToolCall
  /\ info \in Seq(Window) /\ Len(info) <= 1
  /\ stage \in {"front", "act"} => info # <<>> /\ Listed(info[1])
  /\ image = <<>> \/ image \in Queries \X (Titles \cup {NoName}) \X (Nat \ {0})
  /\ hit \in Nat /\ acted \in Nat
  /\ calls \in 0..MaxCalls /\ acts \in 0..MaxUser

TargetsInit ==
  /\ desk \in Desktops
  /\ docked = <<>>
  /\ frontmost \in {Nobody, FrontmostPID(desk)}
  /\ stage = "idle"
  /\ call \in [kind : {"capture"}, app : {CHOOSE q \in Queries : TRUE}, title : {NoName}]
  /\ info = <<>> /\ image = <<>>
  /\ hit = 0 /\ acted = 0
  /\ calls = 0 /\ acts = 0

-----------------------------------------------------------------------------
(* The window server.                                                       *)

Without(windows, w) ==
  IF w \in ToSet(windows) THEN RemoveAt(windows, CHOOSE i \in DOMAIN windows : windows[i] = w)
  ELSE windows

\* w comes before the first normal window: those of other layers float above.
Raised(windows, w) ==
  LET from == CHOOSE i \in DOMAIN windows : windows[i] = w
      to == Min({i \in DOMAIN windows : windows[i].layer = 0})
  IN [i \in DOMAIN windows |-> IF i = to THEN w
                              ELSE IF i \in to + 1 .. from THEN windows[i - 1]
                              ELSE windows[i]]

Resized(windows, w, size) ==
  [i \in DOMAIN windows |->
     IF windows[i] = w THEN [w EXCEPT !.rect.width = size[1], !.rect.height = size[2]] ELSE windows[i]]

Covers(rect, p) ==
  /\ p[1] >= rect.x /\ p[1] < rect.x + rect.width
  /\ p[2] >= rect.y /\ p[2] < rect.y + rect.height

\* Where in desk the windows are that cover a screen position.
Under(p) == {i \in DOMAIN desk : Covers(desk[i].rect, p)}

\* The windows AXUIElementCopyAttributeValue may list first for a process.
AXFirst(pid) == {w \in ToSet(desk \o docked) : w.layer = 0 /\ w.pid = pid}

-----------------------------------------------------------------------------
(* A tool call.                                                             *)

Stage(from, to) == stage = from /\ stage' = to

Ask ==
  /\ Stage("idle", "find")
  /\ calls < MaxCalls /\ calls' = calls + 1
  /\ call' \in ToolCall
  /\ call'.kind # "capture" => call'.title = NoName
  /\ info' = <<>> /\ hit' = 0 /\ acted' = 0
  /\ UNCHANGED <<screen, image, acts>>

Reply == stage' = "idle"

\* Mutant: a failed lookup is not noticed.
FindUnchecked ==
  /\ stage = "find"
  /\ info' = FindWindowWithTitle(desk, call.app, call.title)
  /\ stage' = "act"
  /\ UNCHANGED <<screen, call, image, hit, acted, calls, acts>>

\* Mutant: input does not bring its application to the front.
FindUnfocused ==
  /\ stage = "find"
  /\ info' = FindWindowWithTitle(desk, call.app, call.title)
  /\ stage' = IF info' = <<>> THEN "idle" ELSE "act"
  /\ UNCHANGED <<screen, call, image, hit, acted, calls, acts>>

\* FindWindow for input and commands, FindWindowWithTitle for a capture; input
\* goes on to IsFrontmostApp in the same step.
Find ==
  /\ stage = "find"
  /\ info' = FindWindowWithTitle(desk, call.app, call.title)
  /\ stage' = IF info' = <<>> THEN "idle"
              ELSE IF call.kind \in Pointing /\ info'[1].pid # frontmost THEN "front" ELSE "act"
  /\ UNCHANGED <<screen, call, image, hit, acted, calls, acts>>

\* FocusWindow(pid, 0) for input; it fails when the process has no windows or
\* refuses.
FocusWindow ==
  /\ stage = "front"
  /\ \/ Reply /\ UNCHANGED <<desk, frontmost>>
     \/ \E w \in AXFirst(info[1].pid) :
          /\ desk' = IF w \in ToSet(desk) THEN Raised(desk, w) ELSE desk
          /\ frontmost' = info[1].pid
          /\ stage' = "act"
  /\ UNCHANGED <<docked, call, info, image, hit, acted, calls, acts>>

checkWindowBounds(rect, p) == p[1] >= 0 /\ p[1] < rect.width /\ p[2] >= 0 /\ p[2] < rect.height

Absolute(rect, p) == <<rect.x + p[1], rect.y + p[2]>>

\* The event at p goes to the topmost window there; a press raises it.
Event(p, press) ==
  LET under == Under(Absolute(info[1].rect, p))
      top == desk[Min(under)]
  IN /\ under # {}
     /\ hit' = top.id
     /\ IF press /\ top.layer = 0
        THEN desk' = Raised(desk, top) /\ frontmost' = top.pid
        ELSE UNCHANGED <<desk, frontmost>>

Pointed(kinds) ==
  /\ stage = "act" /\ call.kind \in kinds
  /\ Reply
  /\ UNCHANGED <<docked, call, info, image, acted, calls, acts>>

\* ClickInWindowInfo.
Click ==
  /\ Pointed({"click"})
  /\ \E p \in Pixels : checkWindowBounds(info[1].rect, p) /\ Event(p, TRUE)

\* MoveMouseToWindowInfo; a scroll moves the mouse first.
Move ==
  /\ Pointed({"move", "scroll"})
  /\ \E p \in Pixels : checkWindowBounds(info[1].rect, p) /\ Event(p, FALSE)

\* DragInWindowInfo checks both ends.
Drag ==
  /\ Pointed({"drag"})
  /\ \E p \in Pixels, q \in Pixels :
       /\ checkWindowBounds(info[1].rect, p) /\ checkWindowBounds(info[1].rect, q)
       /\ Event(p, TRUE)

\* The position is outside the window, or nothing is there.
Misses ==
  /\ Pointed(Pointing)
  /\ \E p \in Pixels : \/ ~checkWindowBounds(info[1].rect, p)
                       \/ Under(Absolute(info[1].rect, p)) = {}
  /\ UNCHANGED <<desk, frontmost, hit>>

Commanded(i) == i[1].pid

\* A command acts on index 0 of the process's windows, w; an image that a client
\* has may show a window that is gone afterwards.
Commanding(kind, w) ==
  /\ stage = "act" /\ call.kind = kind
  /\ w \in AXFirst(Commanded(info))
  /\ acted' = w.id /\ image' = <<>>
  /\ Reply
  /\ UNCHANGED <<call, info, hit, calls, acts>>

Focus(w) ==
  /\ Commanding("focus", w)
  /\ desk' = IF w \in ToSet(desk) THEN Raised(desk, w) ELSE desk
  /\ frontmost' = w.pid
  /\ UNCHANGED docked

Minimize(w) ==
  /\ Commanding("minimize", w)
  /\ desk' = Without(desk, w)
  /\ docked' = Without(docked, w) \o <<w>>
  /\ UNCHANGED frontmost

Restore(w) ==
  /\ Commanding("restore", w)
  /\ desk' = IF w \in ToSet(docked) THEN Raised(Append(desk, w), w) ELSE desk
  /\ docked' = Without(docked, w)
  /\ UNCHANGED frontmost

Close(w) ==
  /\ Commanding("close", w)
  /\ desk' = Without(desk, w)
  /\ docked' = Without(docked, w)
  /\ UNCHANGED frontmost

Resize(w) ==
  /\ Commanding("resize", w)
  /\ \E size \in NewSizes : /\ desk' = Resized(desk, w, size)
                           /\ docked' = Resized(docked, w, size)
  /\ UNCHANGED frontmost

Command(w) == Focus(w) \/ Minimize(w) \/ Restore(w) \/ Close(w) \/ Resize(w)

\* The process has no windows, or refuses.
CommandFails ==
  /\ stage = "act" /\ call.kind \in Commands
  /\ Reply
  /\ UNCHANGED <<screen, call, info, image, hit, acted, calls, acts>>

\* screencapture -l <id> fails when the window is gone; it may fail anyway.
Capture ==
  /\ stage = "act" /\ call.kind = "capture"
  /\ \/ UNCHANGED image
     \/ info[1].id \in {w.id : w \in ToSet(desk \o docked)} /\ image' = <<call.app, call.title, info[1].id>>
  /\ Reply
  /\ UNCHANGED <<screen, call, info, hit, acted, calls, acts>>

\* Between two calls the user drags a window, switches to another one or to an
\* application without windows.
User ==
  /\ stage = "idle" /\ acts < MaxUser /\ acts' = acts + 1
  /\ \/ \E i \in DOMAIN desk, p \in Spots :
          /\ desk[i].layer = 0
          /\ desk' = [desk EXCEPT ![i].rect.x = p[1], ![i].rect.y = p[2]]
          /\ UNCHANGED frontmost
     \/ \E w \in ToSet(desk) :
          /\ w.layer = 0
          /\ desk' = Raised(desk, w) /\ frontmost' = w.pid
     \/ frontmost' = Nobody /\ UNCHANGED desk
  /\ UNCHANGED <<docked, stage, call, info, image, hit, acted, calls>>

\* The client has nothing more to ask.
NothingAsked == stage = "idle" /\ calls = MaxCalls /\ UNCHANGED targetVars

TargetsNext ==
  \/ Ask \/ Find \/ FocusWindow \/ Click \/ Move \/ Drag \/ Misses
  \/ (\E w \in ToSet(desk \o docked) : Command(w)) \/ CommandFails \/ Capture
  \/ User \/ NothingAsked

TargetsSpec == TargetsInit /\ [][TargetsNext]_targetVars

-----------------------------------------------------------------------------
(* Properties.                                                              *)

\* How good a match a window is: an owner of that name before a title that
\* contains it, a window on a display before one that is not.
Grade(w, app) == (IF w.owner = app THEN 0 ELSE 2) + (IF windowOverlapsDisplay(w) THEN 0 ELSE 1)

Candidate(w, app, title) ==
  Listed(w) /\ (w.owner = app \/ <<app, w.name>> \in Within) /\ <<title, w.name>> \in Within

\* "Two-pass: exact owner name match first, title substring match second.
\* Prefers windows overlapping an active display": the window found is the
\* frontmost of the best grade, and there is an error only without candidates.
FindIsBest ==
  [][stage = "find" /\ stage' # "find" =>
       LET rivals == {i \in DOMAIN desk : Candidate(desk[i], call.app, call.title)}
       IN IF info' = <<>> THEN rivals = {}
          ELSE \E i \in rivals :
                 /\ info' = <<desk[i]>>
                 /\ \A j \in rivals :
                      LET better == Grade(desk[i], call.app) - Grade(desk[j], call.app)
                      IN better < 0 \/ (better = 0 /\ i <= j)]_targetVars

\* The application has one window, the only one that goes by that app field,
\* and no window is in front of it if the application is active, as it is once
\* the call has focused it.
Unambiguous(w, app) ==
  /\ AXFirst(w.pid) = {w}
  /\ {desk[i] : i \in Matches(desk, app, NoName)} = {w}
  /\ frontmost = w.pid => desk[1] = w

\* "Pixel coordinates in this image map directly to do() x,y values" and "do
\* actions now match windows by title substring": if that names the one window
\* of an application, a pointer event at a pixel of the last image goes to the
\* window the image shows, wherever it was dragged and whatever came in front
\* of it before the call focused it; and a command acts on the window found.
ActsOnFound ==
  [][stage = "act" /\ Unambiguous(info[1], call.app)
       => /\ hit' # 0 /\ image # <<>> /\ image[1] = call.app /\ image[2] = NoName
               => hit' = image[3]
          /\ acted' # 0 => acted' = info[1].id]_targetVars
=============================================================================
