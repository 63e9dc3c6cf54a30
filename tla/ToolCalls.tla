------------------------------ MODULE ToolCalls ------------------------------
(***************************************************************************)
(* A tool call on the server, from the BeforeCallTool hook to the          *)
(* AfterCallTool hook (main.go, runMCPServer): the screenshot it takes     *)
(* through runScreencapture's temporary file and may save under a          *)
(* timestamp (internal/capture), and the popover the hooks show and hide   *)
(* through blocks on the main thread (internal/notify/notify_darwin.m).    *)
(* Calls run concurrently.  screencapture, the window server and AppKit    *)
(* are external; time is left out: a timer that runs may fire.             *)
(***************************************************************************)
EXTENDS Integers, Sequences, FiniteSets

CONSTANTS
  Calls,     \* the tool calls of the clients (bounds the model)
  None,      \* no call, no file
  Torn,      \* a file that holds no whole image
  Kind,      \* what each call is: "capture", "screenshot" (in a do call), "other"
  Prefix,    \* the file name prefix of each call's image
  MaxSecond  \* how far the clock goes (bounds the model)

ASSUME ToolCallsAssumption ==
  /\ IsFiniteSet(Calls) /\ None \notin Calls /\ Torn \notin Calls \cup {None}
  /\ Kind \in [Calls -> {"capture", "screenshot", "other"}]
  /\ DOMAIN Prefix = Calls
  /\ MaxSecond \in Nat

VARIABLES
  pc,       \* what each call does next
  picture,  \* the call whose shot its image shows, or None for an error
  path,     \* the file its answer names, or <<>> when the image is inline
  tmpFile,  \* whose shot the temporary file holds, Torn, or None
  files,    \* saved images: file name -> call whose shot it is
  second,   \* the clock
  queue,    \* the blocks dispatched to the main thread
  balloon,  \* the call the popover speaks of, or None when it is closed
  timer,    \* popoverTimer is not nil
  fades,    \* fade animations that have not completed
  collided, \* history: calls whose use of tmpFile overlapped with another's
  midFade   \* history: the popover was shown again during a fade

shotVars == <<picture, path, tmpFile, files, collided>>
popVars  == <<balloon, timer, fades, midFade>>
vars == <<pc, shotVars, second, queue, popVars>>

Names == {Prefix[c] : c \in Calls} \X (0..MaxSecond)

TypeOK ==
  /\ pc \in [Calls -> {"idle", "shoot", "write", "read", "remove", "encode", "work", "after", "done"}]
  /\ picture \in [Calls -> Calls \cup {None}]
  /\ path \in [Calls -> Names \cup {<<>>}]
  /\ tmpFile \in Calls \cup {None, Torn}
  /\ files \in [Names -> Calls \cup {None}]
  /\ second \in 0..MaxSecond
  /\ queue \in Seq({"hide"} \X {None} \cup {"show"} \X Calls)
  /\ balloon \in Calls \cup {None}
  /\ timer \in BOOLEAN /\ fades \in Nat
  /\ collided \subseteq Calls /\ midFade \in BOOLEAN

Init ==
  /\ pc = [c \in Calls |-> "idle"]
  /\ picture = [c \in Calls |-> None]
  /\ path = [c \in Calls |-> <<>>]
  /\ tmpFile = None
  /\ files = [n \in Names |-> None]
  /\ second = 0
  /\ queue = <<>>
  /\ balloon = None /\ timer = FALSE /\ fades = 0
  /\ collided = {} /\ midFade = FALSE

-----------------------------------------------------------------------------
(* The hooks.                                                               *)

Step(c, from, to) == pc[c] = from /\ pc' = [pc EXCEPT ![c] = to]

Dispatch(block) == queue' = Append(queue, block)
ShowBalloon(c) == Dispatch(<<"show", c>>)
HideBalloon == Dispatch(<<"hide", None>>)

\* Mutant: every call shows its popover first.
isCaptureCallNever(c) == FALSE

isCaptureCall(c) == Kind[c] = "capture"

BeforeCallTool(c) ==
  /\ Step(c, "idle", IF Kind[c] = "other" THEN "work" ELSE "shoot")
  /\ IF isCaptureCall(c) THEN UNCHANGED queue ELSE ShowBalloon(c)
  /\ UNCHANGED <<shotVars, second, popVars>>

AfterCallTool(c) ==
  /\ Step(c, "after", "done")
  /\ IF Kind[c] = "capture" THEN ShowBalloon(c) ELSE HideBalloon
  /\ UNCHANGED <<shotVars, second, popVars>>

Work(c) ==
  /\ Step(c, "work", "after")
  /\ UNCHANGED <<shotVars, second, queue, popVars>>

-----------------------------------------------------------------------------
(* runScreencapture, and the image's way to the client.                     *)

UsingFile == {c \in Calls : pc[c] \in {"write", "read", "remove"}}

\* screencapture takes the picture and creates the file; it may fail instead.
Shoot(c) ==
  /\ \/ Step(c, "shoot", "write") /\ tmpFile' = Torn
     \/ Step(c, "shoot", "remove") /\ UNCHANGED tmpFile
  /\ collided' = IF UsingFile = {} THEN collided ELSE collided \cup UsingFile \cup {c}
  /\ UNCHANGED <<picture, path, files, second, queue, popVars>>

\* screencapture has written the file, or fails in the middle.  A file that
\* another call has written or removed meanwhile may be left as it was, or torn.
Write(c) ==
  /\ \/ /\ Step(c, "write", "read")
        /\ tmpFile' \in IF tmpFile = Torn /\ UsingFile = {c} THEN {c} ELSE {c, Torn, tmpFile}
     \/ Step(c, "write", "remove") /\ UNCHANGED tmpFile
  /\ UNCHANGED <<picture, path, files, collided, second, queue, popVars>>

\* Open and decode; without a whole image that is an error.
Read(c) ==
  /\ Step(c, "read", "remove")
  /\ picture' = [picture EXCEPT ![c] = IF tmpFile \in Calls THEN tmpFile ELSE None]
  /\ UNCHANGED <<path, tmpFile, files, collided, second, queue, popVars>>

\* Mutant: the file is not removed.
RemoveNothing(c) ==
  /\ Step(c, "remove", IF picture[c] = None THEN "after" ELSE "encode")
  /\ UNCHANGED <<shotVars, second, queue, popVars>>

\* The deferred os.Remove.
RemoveFile(c) ==
  /\ Step(c, "remove", IF picture[c] = None THEN "after" ELSE "encode")
  /\ tmpFile' = None
  /\ UNCHANGED <<picture, path, files, collided, second, queue, popVars>>

FileName(c) == <<Prefix[c], second>>

\* imageResult: a small image is inline, a large one is saved; saving may fail.
Encode(c) ==
  /\ Step(c, "encode", "after")
  /\ \/ UNCHANGED <<picture, path, files>>
     \/ /\ files' = [files EXCEPT ![FileName(c)] = picture[c]]
        /\ path' = [path EXCEPT ![c] = FileName(c)]
        /\ UNCHANGED picture
     \/ /\ picture' = [picture EXCEPT ![c] = None]
        /\ UNCHANGED <<path, files>>
  /\ UNCHANGED <<tmpFile, collided, second, queue, popVars>>

Tick ==
  /\ second < MaxSecond
  /\ second' = second + 1
  /\ UNCHANGED <<pc, shotVars, queue, popVars>>

Call(c) ==
  \/ BeforeCallTool(c) \/ Work(c) \/ Shoot(c) \/ Write(c) \/ Read(c)
  \/ RemoveFile(c) \/ Encode(c) \/ AfterCallTool(c)

-----------------------------------------------------------------------------
(* The main thread.                                                         *)

Block(kind) == queue # <<>> /\ Head(queue)[1] = kind /\ queue' = Tail(queue)

\* fadeAndClosePopover, when the popover is shown.
Fade == fades' = IF balloon = None THEN fades ELSE fades + 1

\* The timer starts anew.
Show ==
  /\ Block("show")
  /\ balloon' = Head(queue)[2]
  /\ timer' = TRUE
  /\ midFade' = (fades > 0)
  /\ UNCHANGED <<pc, shotVars, second, fades>>

\* Mutant: hide does not leave the popover to the timer.
HideAtOnce ==
  /\ Block("hide")
  /\ Fade
  /\ UNCHANGED <<pc, shotVars, second, balloon, timer, midFade>>

\* Mutant: hide stops the timer that would close the popover.
HideStopsTimer ==
  /\ Block("hide")
  /\ timer' = FALSE
  /\ IF timer THEN UNCHANGED fades ELSE Fade
  /\ UNCHANGED <<pc, shotVars, second, balloon, midFade>>

Hide ==
  /\ Block("hide")
  /\ IF timer THEN UNCHANGED fades ELSE Fade
  /\ UNCHANGED <<pc, shotVars, second, balloon, timer, midFade>>

TimerFires ==
  /\ timer
  /\ Fade
  /\ timer' = FALSE
  /\ UNCHANGED <<pc, shotVars, second, queue, balloon, midFade>>

\* performClose, whatever was shown since the fade began.
FadeCompletes ==
  /\ fades > 0
  /\ fades' = fades - 1
  /\ balloon' = None
  /\ UNCHANGED <<pc, shotVars, second, queue, timer, midFade>>

MainThread == Show \/ Hide \/ TimerFires \/ FadeCompletes

-----------------------------------------------------------------------------
Quiescent ==
  /\ \A c \in Calls : pc[c] = "done"
  /\ UNCHANGED vars

Next ==
  \/ \E c \in Calls : Call(c)
  \/ Tick
  \/ MainThread
  \/ Quiescent

\* The main thread runs its blocks, its timers and its animations.
Fairness == WF_vars(Show \/ Hide) /\ WF_vars(TimerFires) /\ WF_vars(FadeCompletes)

Spec == Init /\ [][Next]_vars /\ Fairness

-----------------------------------------------------------------------------
(* Properties.                                                              *)

Answered(c) == pc[c] \in {"after", "done"} /\ picture[c] # None

\* What the client sees: the image in the answer, or the file it names.
Seen(c) == IF path[c] = <<>> THEN picture[c] ELSE files[path[c]]

\* Two images of one prefix were saved in one second.
SameName(c) == \E d \in Calls \ {c} : path[d] = path[c] /\ path[c] # <<>>

\* A call whose capture overlaps with no other shows its own shot, inline or
\* in the file it names, which only an image saved under the same prefix in
\* the same second replaces; and no capture leaves its temporary file.
SeesItsOwnShot ==
  /\ \A c \in Calls : Answered(c) => Seen(c) = c \/ c \in collided \/ SameName(c)
  /\ tmpFile # None => UsingFile # {}

\* "Skip popover before screenshot tools so it doesn't appear in the capture":
\* the popover of a capture call is not in its own shot, though blocks reach
\* the main thread late.
ShotIsClean == \A c \in Calls : pc[c] = "shoot" /\ Kind[c] = "capture" => balloon # c

\* "Stays visible for at least 5 seconds": a popover closes only after the
\* timer of its last show has fired, unless it was shown during a fade.
BalloonStays == [][balloon # None /\ balloon' = None => ~timer \/ midFade]_vars

\* A popover does not stay for ever.
BalloonCloses == balloon # None ~> balloon = None
=============================================================================
