-------------------------------- MODULE Wizard --------------------------------
(***************************************************************************)
(* The permission wizard of internal/permissions: ShowPermissionWizard's   *)
(* guard, the native call that waits on a semaphore, and the main thread's *)
(* window with its polling timer and buttons, which share the statics      *)
(* wizardWindow, wizardDoneSem and _scrButtonClicked.  A caller is the     *)
(* goroutine that one click on the menu item starts (main.go:118-127); the *)
(* wizard it shows, its semaphore and its result channel carry its name.   *)
(* The user and macOS's permission checks are external.                    *)
(***************************************************************************)
EXTENDS Integers, FiniteSets

CONSTANTS
  Callers,  \* the calls of ShowPermissionWizard (bounds the model)
  None      \* no wizard, no semaphore, no channel

ASSUME WizardAssumption == IsFiniteSet(Callers) /\ None \notin Callers

Permissions == {"accessibility", "screenRecording"}

VARIABLES
  granted,     \* the permissions the user has granted
  preflight,   \* CGPreflightScreenCaptureAccess: fixed when the process starts
  live,        \* _scrLiveResult is 1
  probing,     \* _scrLiveInFlight
  scrClicked,  \* _scrButtonClicked
  wizardWindow, wizardDoneSem,  \* whose window and semaphore the statics hold
  window,      \* each wizard's window; "gone" once its timer is invalidated
  sem,         \* each wizard's semaphore
  wizardActive, wizardResult,   \* the guard, and whose channel it holds
  closed,      \* the channels that are closed
  cast,        \* each wizard's broadcasting goroutine
  pc,          \* what each caller does next
  ch,          \* the channel a waiting caller holds
  status,      \* what each native call returned
  result       \* what ShowPermissionWizard returned

osVars == <<granted, preflight>>
checkVars == <<live, probing>>
staticVars == <<scrClicked, wizardWindow, wizardDoneSem>>
guardVars == <<wizardActive, wizardResult, closed, cast>>
callVars == <<pc, ch, status, result>>
vars == <<osVars, checkVars, staticVars, window, sem, guardVars, callVars>>

TypeOK ==
  /\ granted \subseteq Permissions
  /\ preflight \in BOOLEAN /\ live \in BOOLEAN /\ probing \in BOOLEAN
  /\ scrClicked \in BOOLEAN
  /\ wizardWindow \in Callers \cup {None} /\ wizardDoneSem \in Callers \cup {None}
  /\ window \in [Callers -> {"none", "queued", "open", "closed", "gone"}]
  /\ sem \in [Callers -> 0..2]
  /\ wizardActive \in BOOLEAN
  /\ wizardResult \in Callers \cup {None} /\ (wizardActive <=> wizardResult # None)
  /\ closed \subseteq Callers
  /\ cast \in [Callers -> {"off", "select", "close", "returned"}]
  /\ pc \in [Callers -> {"idle", "call", "native", "blocked", "recheck", "publish",
                         "wait", "receive", "returned"}]
  /\ ch \in [Callers -> Callers \cup {None}]
  /\ status \in [Callers -> SUBSET Permissions]
  /\ result \in [Callers -> SUBSET Permissions]

Init ==
  /\ granted \in SUBSET Permissions
  /\ preflight = ("screenRecording" \in granted)
  /\ live = FALSE /\ probing = FALSE /\ scrClicked = FALSE
  /\ wizardWindow = None /\ wizardDoneSem = None
  /\ window = [c \in Callers |-> "none"]
  /\ sem = [c \in Callers |-> 0]
  /\ wizardActive = FALSE /\ wizardResult = None
  /\ closed = {}
  /\ cast = [c \in Callers |-> "off"]
  /\ pc = [c \in Callers |-> "idle"]
  /\ ch = [c \in Callers |-> None]
  /\ status = [c \in Callers |-> {}]
  /\ result = [c \in Callers |-> {}]

-----------------------------------------------------------------------------
(* ShowPermissionWizard.                                                    *)

Step(c, from, to) == pc[c] = from /\ pc' = [pc EXCEPT ![c] = to]

\* The menu item's handler, when a permission is missing.
Menu(c) ==
  /\ ~("accessibility" \in granted /\ preflight)
  /\ Step(c, "idle", "call")
  /\ UNCHANGED <<osVars, checkVars, staticVars, window, sem, guardVars, ch, status, result>>

\* Mutant: the guard is not raised.
EnterUnguarded(c) ==
  /\ Step(c, "call", "native")
  /\ UNCHANGED <<osVars, checkVars, staticVars, window, sem, guardVars, ch, status, result>>

\* Under wizardMu.
Enter(c) ==
  /\ IF wizardActive
     THEN /\ Step(c, "call", "wait")
          /\ ch' = [ch EXCEPT ![c] = wizardResult]
          /\ UNCHANGED <<wizardActive, wizardResult>>
     ELSE /\ Step(c, "call", "native")
          /\ wizardActive' = TRUE /\ wizardResult' = c
          /\ UNCHANGED ch
  /\ UNCHANGED <<osVars, checkVars, staticVars, window, sem, closed, cast, status, result>>

\* The receive on the channel begins; on a closed one it returns the zero Status.
Receive(c) ==
  /\ Step(c, "wait", "receive")
  /\ UNCHANGED <<osVars, checkVars, staticVars, window, sem, guardVars, ch, status, result>>

ReceiveClosed(c) ==
  /\ pc[c] = "receive" /\ ch[c] \in closed
  /\ pc' = [pc EXCEPT ![c] = "returned"]
  /\ result' = [result EXCEPT ![c] = {}]
  /\ UNCHANGED <<osVars, checkVars, staticVars, window, sem, guardVars, ch, status>>

\* The native call stores its semaphore and queues the window's block.
CreateSem(c) ==
  /\ Step(c, "native", "blocked")
  /\ wizardDoneSem' = c
  /\ window' = [window EXCEPT ![c] = "queued"]
  /\ UNCHANGED <<osVars, checkVars, scrClicked, wizardWindow, sem, guardVars, ch, status, result>>

Wake(c) ==
  /\ Step(c, "blocked", "recheck") /\ sem[c] > 0
  /\ sem' = [sem EXCEPT ![c] = @ - 1]
  /\ UNCHANGED <<osVars, checkVars, staticVars, window, guardVars, ch, status, result>>

\* checkScreenRecordingLive: the answer is the cached one; a probe may start.
LiveAnswer == live \/ preflight
CheckLive ==
  /\ live' = LiveAnswer
  /\ probing' = (probing \/ ~LiveAnswer) \/ UNCHANGED probing

Seen == (granted \cap {"accessibility"}) \cup (IF LiveAnswer THEN {"screenRecording"} ELSE {})

Recheck(c) ==
  /\ Step(c, "recheck", "publish")
  /\ CheckLive
  /\ status' = [status EXCEPT ![c] = Seen]
  /\ wizardDoneSem' = None
  /\ UNCHANGED <<osVars, scrClicked, wizardWindow, window, sem, guardVars, ch, result>>

\* Under wizardMu; then the broadcast is started and the caller returns.
Publish(c) ==
  /\ Step(c, "publish", "returned")
  /\ wizardActive' = FALSE /\ wizardResult' = None
  /\ cast' = [cast EXCEPT ![c] = "select"]
  /\ result' = [result EXCEPT ![c] = status[c]]
  /\ UNCHANGED <<osVars, checkVars, staticVars, window, sem, closed, ch, status>>

\* case ch <- status: a send needs a caller that is receiving.
Receiving(c) == {d \in Callers : pc[d] = "receive" /\ ch[d] = c}

CastSends(c) ==
  /\ cast[c] = "select"
  /\ \E d \in Receiving(c) :
       /\ pc' = [pc EXCEPT ![d] = "returned"]
       /\ result' = [result EXCEPT ![d] = status[c]]
  /\ UNCHANGED <<osVars, checkVars, staticVars, window, sem, guardVars, ch, status>>

CastDefault(c) ==
  /\ cast[c] = "select" /\ Receiving(c) = {}
  /\ cast' = [cast EXCEPT ![c] = "close"]
  /\ UNCHANGED <<osVars, checkVars, staticVars, window, sem, wizardActive, wizardResult, closed, callVars>>

CastCloses(c) ==
  /\ cast[c] = "close"
  /\ cast' = [cast EXCEPT ![c] = "returned"]
  /\ closed' = closed \cup {c}
  /\ UNCHANGED <<osVars, checkVars, staticVars, window, sem, wizardActive, wizardResult, callVars>>

-----------------------------------------------------------------------------
(* The main thread.                                                         *)

\* The block that showPermissionWizard queued.
OpenWindow(c) ==
  /\ window[c] = "queued"
  /\ window' = [window EXCEPT ![c] = "open"]
  /\ wizardWindow' = c
  /\ scrClicked' = FALSE
  /\ UNCHANGED <<osVars, checkVars, wizardDoneSem, sem, guardVars, callVars>>

\* The timer of a visible window.
TimerPolls(c) ==
  /\ window[c] = "open" /\ scrClicked
  /\ CheckLive
  /\ UNCHANGED <<osVars, staticVars, window, sem, guardVars, callVars>>

\* Mutant: the timer signals the semaphore that the static holds.
TimerEndsShared(c) ==
  /\ window[c] = "closed"
  /\ IF scrClicked THEN CheckLive ELSE UNCHANGED checkVars
  /\ window' = [window EXCEPT ![c] = "gone"]
  /\ wizardWindow' = None /\ wizardDoneSem' = None
  /\ sem' = IF wizardDoneSem = None THEN sem ELSE [sem EXCEPT ![wizardDoneSem] = @ + 1]
  /\ UNCHANGED <<osVars, scrClicked, guardVars, callVars>>

\* Mutant: a timer whose window is not visible waits for the next poll.
TimerWaits(c) ==
  /\ window[c] = "closed"
  /\ UNCHANGED vars

\* The timer finds its window closed, up to half a second later.
TimerEnds(c) ==
  /\ window[c] = "closed"
  /\ IF scrClicked THEN CheckLive ELSE UNCHANGED checkVars
  /\ window' = [window EXCEPT ![c] = "gone"]
  /\ wizardWindow' = None /\ wizardDoneSem' = None
  /\ sem' = [sem EXCEPT ![c] = @ + 1]
  /\ UNCHANGED <<osVars, scrClicked, guardVars, callVars>>

OpenScreenRecording(c) ==
  /\ window[c] = "open"
  /\ scrClicked' = TRUE
  /\ UNCHANGED <<osVars, checkVars, wizardWindow, wizardDoneSem, window, sem, guardVars, callVars>>

\* doneButtonClicked, while the permissions are not all seen: a hint.
DoneRefused(c) ==
  /\ window[c] = "open"
  /\ ~("accessibility" \in granted /\ scrClicked /\ LiveAnswer)
  /\ IF scrClicked THEN CheckLive ELSE UNCHANGED checkVars
  /\ UNCHANGED <<osVars, staticVars, window, sem, guardVars, callVars>>

\* doneButtonClicked acts on the window and the semaphore the statics hold.
Done(c) ==
  /\ window[c] = "open"
  /\ "accessibility" \in granted /\ scrClicked /\ LiveAnswer
  /\ live' = TRUE
  /\ window' = IF wizardWindow = None THEN window ELSE [window EXCEPT ![wizardWindow] = "closed"]
  /\ wizardWindow' = None
  /\ sem' = IF wizardDoneSem = None THEN sem ELSE [sem EXCEPT ![wizardDoneSem] = @ + 1]
  /\ UNCHANGED <<osVars, probing, scrClicked, wizardDoneSem, guardVars, callVars>>

\* The X button.
CloseX(c) ==
  /\ window[c] = "open"
  /\ window' = [window EXCEPT ![c] = "closed"]
  /\ UNCHANGED <<osVars, checkVars, staticVars, sem, guardVars, callVars>>

-----------------------------------------------------------------------------
(* macOS.                                                                   *)

Grant ==
  /\ \E p \in Permissions \ granted : granted' = granted \cup {p}
  /\ UNCHANGED <<preflight, checkVars, staticVars, window, sem, guardVars, callVars>>

ProbeAnswers ==
  /\ probing
  /\ probing' = FALSE
  /\ live' = ("screenRecording" \in granted)
  /\ UNCHANGED <<osVars, staticVars, window, sem, guardVars, callVars>>

-----------------------------------------------------------------------------
Caller(c) ==
  \/ Enter(c) \/ Receive(c) \/ ReceiveClosed(c) \/ CreateSem(c) \/ Wake(c) \/ Recheck(c)
  \/ Publish(c)

Broadcast(c) == CastSends(c) \/ CastDefault(c) \/ CastCloses(c)

MainThread(c) == OpenWindow(c) \/ TimerEnds(c)

Quiescent ==
  /\ \A c \in Callers : pc[c] \in {"idle", "returned"} /\ window[c] \notin {"queued", "open", "closed"}
  /\ UNCHANGED vars

Next ==
  \/ \E c \in Callers :
       Menu(c) \/ Caller(c) \/ Broadcast(c) \/ MainThread(c) \/ TimerPolls(c)
         \/ OpenScreenRecording(c) \/ DoneRefused(c) \/ Done(c) \/ CloseX(c)
  \/ Grant \/ ProbeAnswers \/ Quiescent

\* Go and the main run loop schedule every caller, broadcast, block and timer;
\* a user who is done with a wizard closes it.
Spec ==
  /\ Init /\ [][Next]_vars
  /\ \A c \in Callers : /\ WF_vars(Caller(c)) /\ WF_vars(Broadcast(c)) /\ WF_vars(MainThread(c))
                        /\ WF_vars(CloseX(c))

-----------------------------------------------------------------------------
(* Properties.                                                              *)

\* The guard of ShowPermissionWizard lasts as long as the window: whatever
\* callers and main thread do, the user never sees two wizards.
OneWizard == Cardinality({c \in Callers : window[c] = "open"}) <= 1

\* "It blocks until the user grants all permissions or closes the window": the
\* caller that shows a wizard is not woken before that wizard is closed, not
\* even by what is left of the previous one.
NoEarlyReturn ==
  \A c \in Callers : pc[c] \in {"recheck", "publish"} \/ cast[c] # "off" => window[c] \in {"closed", "gone"}

\* Every caller returns, whether it showed the wizard, waited for the result,
\* or came for it too late.
EveryCallerReturns == \A c \in Callers : pc[c] = "call" ~> pc[c] = "returned"
=============================================================================
