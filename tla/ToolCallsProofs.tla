--------------------------- MODULE ToolCallsProofs ---------------------------
(***************************************************************************)
(* Theorems about ToolCalls, for any finite set of calls of any kinds,     *)
(* prefixes and clock; about CaptureGeometry, for every size: what the     *)
(* shrunk image keeps of its shape, and when a pixel of the image is the   *)
(* point of the window it stands for; and about WindowTargets, for every   *)
(* desktop, set of names and number of calls: which window a call finds,   *)
(* and that it is the one that is acted on.                                *)
(***************************************************************************)
EXTENDS ToolCalls, CaptureGeometry, WindowTargets, FiniteSetTheorems, TLAPS

Blocks == ({"hide"} \X {None}) \cup ({"show"} \X Calls)

LEMMA InitType == Init => TypeOK
<1> SUFFICES ASSUME Init PROVE TypeOK
  OBVIOUS
<1>1. second \in 0..MaxSecond
  BY ToolCallsAssumption DEF Init
<1>2. queue \in Seq({"hide"} \X {None} \cup {"show"} \X Calls)
  BY DEF Init
<1>3. /\ pc \in [Calls -> {"idle", "shoot", "write", "read", "remove", "encode", "work", "after", "done"}]
      /\ picture \in [Calls -> Calls \cup {None}]
      /\ path \in [Calls -> Names \cup {<<>>}]
  BY DEF Init
<1>4. tmpFile \in Calls \cup {None, Torn} /\ files \in [Names -> Calls \cup {None}]
  BY DEF Init
<1>5. /\ balloon \in Calls \cup {None} /\ timer \in BOOLEAN /\ fades \in Nat
      /\ collided \subseteq Calls /\ midFade \in BOOLEAN
  BY DEF Init
<1> QED
  BY <1>1, <1>2, <1>3, <1>4, <1>5 DEF TypeOK

\* Types.  fades and queue are what the main thread consumes.
LEMMA TypeStep ==
  ASSUME TypeOK, [Next]_vars
  PROVE  TypeOK'
<1>0. queue \in Seq(Blocks)
  BY DEF TypeOK, Blocks
<1>q. ASSUME queue' \in Seq(Blocks) PROVE queue' \in Seq({"hide"} \X {None} \cup {"show"} \X Calls)
  BY <1>q DEF Blocks
<1> USE ToolCallsAssumption DEF TypeOK, Step, shotVars, popVars, Dispatch, ShowBalloon, HideBalloon
<1>1. ASSUME NEW c \in Calls, BeforeCallTool(c) PROVE TypeOK'
  <2>1. <<"show", c>> \in Blocks
    BY DEF Blocks
  <2>2. queue' \in Seq(Blocks)
    <3>1. queue' = queue \/ queue' = Append(queue, <<"show", c>>)
      BY <1>1 DEF BeforeCallTool
    <3> QED
      BY ONLY <1>0, <2>1, <3>1
  <2> QED
    BY <1>1, <1>q, <2>2 DEF BeforeCallTool
<1>2. ASSUME NEW c \in Calls, Work(c) PROVE TypeOK'
  BY <1>2 DEF Work
<1>3. ASSUME NEW c \in Calls, Shoot(c) PROVE TypeOK'
  <2>1. collided' \subseteq Calls
    BY <1>3 DEF Shoot, UsingFile
  <2> QED
    BY <1>3, <2>1 DEF Shoot
<1>4. ASSUME NEW c \in Calls, Read(c) PROVE TypeOK'
  BY <1>4 DEF Read
<1>5. ASSUME NEW c \in Calls, RemoveFile(c) PROVE TypeOK'
  BY <1>5 DEF RemoveFile
<1>6. ASSUME NEW c \in Calls, Encode(c) PROVE TypeOK'
  <2>1. FileName(c) \in Names
    BY DEF FileName, Names
  <2>2. /\ files' \in [Names -> Calls \cup {None}]
        /\ path' \in [Calls -> Names \cup {<<>>}]
    BY <1>6, <2>1 DEF Encode
  <2> QED
    BY <1>6, <2>2 DEF Encode
<1>7. ASSUME NEW c \in Calls, AfterCallTool(c) PROVE TypeOK'
  <2>1. <<"show", c>> \in Blocks /\ <<"hide", None>> \in Blocks
    BY DEF Blocks
  <2>2. queue' \in Seq(Blocks)
    <3>1. \E block \in Blocks : queue' = Append(queue, block)
      BY <1>7, <2>1 DEF AfterCallTool
    <3> QED
      BY ONLY <1>0, <3>1
  <2> QED
    BY <1>7, <1>q, <2>2 DEF AfterCallTool
<1>8. CASE Tick
  BY <1>8 DEF Tick
<1>9. CASE Show
  <2>1. queue' \in Seq(Blocks) /\ Head(queue) \in Blocks
    BY <1>9, <1>0 DEF Show, Block
  <2>2. Head(queue)[2] \in Calls
    BY <1>9, <2>1 DEF Show, Block, Blocks
  <2> QED
    BY <1>9, <1>q, <2>1, <2>2 DEF Show
<1>10. CASE Hide
  <2>1. queue' \in Seq(Blocks)
    BY <1>10, <1>0 DEF Hide, Block
  <2>2. fades' \in Nat
    BY <1>10 DEF Hide, Fade
  <2> QED
    BY <1>10, <1>q, <2>1, <2>2 DEF Hide
<1>11. CASE TimerFires
  <2>1. fades' \in Nat
    BY <1>11 DEF TimerFires, Fade
  <2> QED
    BY <1>11, <2>1 DEF TimerFires
<1>12. CASE FadeCompletes
  BY <1>12 DEF FadeCompletes
<1>13. CASE Quiescent \/ UNCHANGED vars
  BY <1>13 DEF Quiescent, vars
<1>14. ASSUME NEW c \in Calls, Write(c) PROVE TypeOK'
  BY <1>14 DEF Write, UsingFile
<1> QED
  BY <1>1, <1>2, <1>3, <1>4, <1>5, <1>6, <1>7, <1>8, <1>9, <1>10, <1>11,
     <1>12, <1>13, <1>14
     DEF Next, Call, MainThread

\* A call is alone with the temporary file from its shot to its remove, or it
\* and the other are among the collided.
FileIsShared ==
  /\ \A c, d \in UsingFile : c # d => c \in collided
  /\ \A c \in Calls : pc[c] = "write" => tmpFile = Torn \/ c \in collided
  /\ \A c \in Calls : pc[c] = "read" => tmpFile = c \/ c \in collided
  /\ tmpFile # None => UsingFile # {}

\* A picture is a call's own, its file shows it, and neither is there early.
PictureIsOwn ==
  \A c \in Calls :
    /\ pc[c] \in {"idle", "shoot", "write", "read"} => picture[c] = None
    /\ pc[c] = "encode" => picture[c] # None
    /\ pc[c] \notin {"after", "done"} => path[c] = <<>>
    /\ picture[c] \in {None, c} \/ c \in collided
    /\ path[c] # <<>> => files[path[c]] = picture[c] \/ SameName(c)

ShotInv == TypeOK /\ FileIsShared /\ PictureIsOwn

LEMMA FileIsSharedStep ==
  ASSUME ShotInv, [Next]_vars
  PROVE  FileIsShared'
<1> USE ToolCallsAssumption DEF ShotInv, TypeOK, FileIsShared, UsingFile, Step, shotVars
<1>1. ASSUME NEW c \in Calls, BeforeCallTool(c) PROVE FileIsShared'
  BY <1>1 DEF BeforeCallTool
<1>2. ASSUME NEW c \in Calls, Work(c) PROVE FileIsShared'
  BY <1>2 DEF Work
<1>3. ASSUME NEW c \in Calls, Shoot(c) PROVE FileIsShared'
  BY <1>3 DEF Shoot
<1>4. ASSUME NEW c \in Calls, Read(c) PROVE FileIsShared'
  BY <1>4 DEF Read
<1>5. ASSUME NEW c \in Calls, RemoveFile(c) PROVE FileIsShared'
  BY <1>5 DEF RemoveFile
<1>6. ASSUME NEW c \in Calls, Encode(c) PROVE FileIsShared'
  BY <1>6 DEF Encode
<1>7. ASSUME NEW c \in Calls, AfterCallTool(c) PROVE FileIsShared'
  BY <1>7 DEF AfterCallTool
<1>8. CASE Tick
  BY <1>8 DEF Tick
<1>9. CASE Show
  BY <1>9 DEF Show, Block
<1>10. CASE Hide
  BY <1>10 DEF Hide, Block, Fade
<1>11. CASE TimerFires
  BY <1>11 DEF TimerFires, Fade
<1>12. CASE FadeCompletes
  BY <1>12 DEF FadeCompletes
<1>13. CASE Quiescent \/ UNCHANGED vars
  BY <1>13 DEF Quiescent, vars
<1>14. ASSUME NEW c \in Calls, Write(c) PROVE FileIsShared'
  BY <1>14 DEF Write
<1> QED
  BY <1>1, <1>2, <1>3, <1>4, <1>5, <1>6, <1>7, <1>8, <1>9, <1>10, <1>11,
     <1>12, <1>13, <1>14
     DEF Next, Call, MainThread

LEMMA PictureIsOwnStep ==
  ASSUME ShotInv, [Next]_vars
  PROVE  PictureIsOwn'
<1> USE ToolCallsAssumption DEF ShotInv, TypeOK, PictureIsOwn, SameName, Step, shotVars
<1>1. ASSUME NEW c \in Calls, BeforeCallTool(c) PROVE PictureIsOwn'
  BY <1>1 DEF BeforeCallTool
<1>2. ASSUME NEW c \in Calls, Work(c) PROVE PictureIsOwn'
  BY <1>2 DEF Work
<1>3. ASSUME NEW c \in Calls, Shoot(c) PROVE PictureIsOwn'
  BY <1>3 DEF Shoot
<1>4. ASSUME NEW c \in Calls, Read(c) PROVE PictureIsOwn'
  <2>1. tmpFile = c \/ c \in collided
    BY <1>4 DEF Read, FileIsShared
  <2>2. path[c] = <<>>
    BY <1>4 DEF Read
  <2> QED
    BY <1>4, <2>1, <2>2 DEF Read
<1>5. ASSUME NEW c \in Calls, RemoveFile(c) PROVE PictureIsOwn'
  BY <1>5 DEF RemoveFile
<1>6. ASSUME NEW c \in Calls, Encode(c) PROVE PictureIsOwn'
  <2>0. FileName(c) \in Names /\ FileName(c) # <<>>
    BY DEF FileName, Names
  <2>1. CASE UNCHANGED <<picture, path, files>>
    BY <1>6, <2>1 DEF Encode
  <2>2. CASE /\ files' = [files EXCEPT ![FileName(c)] = picture[c]]
             /\ path' = [path EXCEPT ![c] = FileName(c)]
             /\ UNCHANGED picture
    <3>1. path'[c] = FileName(c) /\ files'[path'[c]] = picture'[c]
      BY <2>0, <2>2
    <3>2. ASSUME NEW d \in Calls \ {c}, path'[d] # <<>>
          PROVE  files'[path'[d]] = picture'[d] \/ SameName(d)'
      <4>1. path'[d] = path[d] /\ path[d] \in Names
        BY <2>2, <3>2
      <4>2. CASE path[d] = FileName(c)
        BY <3>1, <3>2, <4>1, <4>2
      <4>3. CASE path[d] # FileName(c)
        <5>1. files'[path'[d]] = files[path[d]] /\ picture'[d] = picture[d]
          BY <2>2, <4>1, <4>3
        <5>2. ASSUME NEW e \in Calls \ {d}, path[e] = path[d] PROVE path'[e] = path'[d]
          <6>1. path[c] = <<>> /\ path[d] # <<>>
            BY <1>6, <3>2, <4>1 DEF Encode
          <6>2. e # c
            BY <5>2, <6>1
          <6> QED
            BY <2>2, <4>1, <5>2, <6>2
        <5> QED
          BY <3>2, <4>1, <5>1, <5>2
      <4> QED
        BY <4>2, <4>3
    <3>3. \A d \in Calls : pc'[d] \notin {"after", "done"} => path'[d] = <<>>
      BY <1>6, <2>2 DEF Encode
    <3> QED
      BY <1>6, <2>2, <3>1, <3>2, <3>3 DEF Encode
  <2>3. CASE picture' = [picture EXCEPT ![c] = None] /\ UNCHANGED <<path, files>>
    <3>1. path[c] = <<>>
      BY <1>6 DEF Encode
    <3> QED
      BY <1>6, <2>3, <3>1 DEF Encode
  <2> QED
    BY <1>6, <2>1, <2>2, <2>3 DEF Encode
<1>7. ASSUME NEW c \in Calls, AfterCallTool(c) PROVE PictureIsOwn'
  BY <1>7 DEF AfterCallTool
<1>8. CASE Tick
  BY <1>8 DEF Tick
<1>9. CASE Show
  BY <1>9 DEF Show, Block
<1>10. CASE Hide
  BY <1>10 DEF Hide, Block, Fade
<1>11. CASE TimerFires
  BY <1>11 DEF TimerFires, Fade
<1>12. CASE FadeCompletes
  BY <1>12 DEF FadeCompletes
<1>13. CASE Quiescent \/ UNCHANGED vars
  BY <1>13 DEF Quiescent, vars
<1>14. ASSUME NEW c \in Calls, Write(c) PROVE PictureIsOwn'
  BY <1>14 DEF Write
<1> QED
  BY <1>1, <1>2, <1>3, <1>4, <1>5, <1>6, <1>7, <1>8, <1>9, <1>10, <1>11,
     <1>12, <1>13, <1>14
     DEF Next, Call, MainThread

\* A call's shot, inline or in its file, is its own, for any number of
\* concurrent calls: a picture of another call needs captures that overlapped
\* or two images saved under one prefix in one second; and the temporary file
\* goes with the last call that uses it.
THEOREM OwnShotSeen == Spec => []SeesItsOwnShot
<1>1. Init => ShotInv
  <2> SUFFICES ASSUME Init PROVE ShotInv
    OBVIOUS
  <2>1. TypeOK
    BY InitType
  <2>2. FileIsShared /\ PictureIsOwn
    BY DEF Init, FileIsShared, UsingFile, PictureIsOwn
  <2> QED
    BY <2>1, <2>2 DEF ShotInv
<1>2. ShotInv /\ [Next]_vars => ShotInv'
  BY TypeStep, FileIsSharedStep, PictureIsOwnStep DEF ShotInv
<1>3. ShotInv => SeesItsOwnShot
  BY DEF ShotInv, FileIsShared, PictureIsOwn, SeesItsOwnShot, Answered, Seen
<1> QED
  BY <1>1, <1>2, <1>3, PTL DEF Spec

\* Every variable keeps its type: no block, timer or fade takes the popover to
\* anything but a call or closed.
THEOREM TypeCorrect == Spec => []TypeOK
<1>1. Init => TypeOK
  BY InitType
<1>2. TypeOK /\ [Next]_vars => TypeOK'
  BY TypeStep
<1> QED
  BY <1>1, <1>2, PTL DEF Spec

-----------------------------------------------------------------------------
(* The popover.                                                             *)

\* Until a capture call is over neither the popover nor a block that waits for
\* the main thread speaks of it.
NotAnnounced(c) == balloon # c /\ \A i \in 1..Len(queue) : queue[i][2] # c

CleanInv ==
  TypeOK /\ \A c \in Calls : Kind[c] = "capture" /\ pc[c] # "done" => NotAnnounced(c)

\* A popover whose timer runs during a fade was shown again during the fade.
FadeInv == TypeOK /\ (fades > 0 /\ timer => midFade)

LEMMA CleanStep ==
  ASSUME CleanInv, [Next]_vars
  PROVE  CleanInv'
<1>0. TypeOK'
  BY TypeStep DEF CleanInv
<1>1. queue \in Seq(Blocks)
  BY DEF CleanInv, TypeOK, Blocks
<1> SUFFICES ASSUME NEW e \in Calls, Kind[e] = "capture", pc'[e] # "done"
             PROVE  NotAnnounced(e)'
  BY <1>0 DEF CleanInv
<1> USE ToolCallsAssumption DEF CleanInv, TypeOK, Step, shotVars, popVars
<1>2. ASSUME NEW c \in Calls, BeforeCallTool(c) PROVE NotAnnounced(e)'
  <2>1. pc[e] # "done"
    BY <1>2 DEF BeforeCallTool
  <2>2. CASE isCaptureCall(c)
    BY <1>2, <2>1, <2>2 DEF BeforeCallTool, NotAnnounced
  <2>3. CASE ~isCaptureCall(c)
    <3>1. c # e /\ queue' = Append(queue, <<"show", c>>)
      BY <1>2, <2>3 DEF BeforeCallTool, isCaptureCall, ShowBalloon, Dispatch
    <3> QED
      BY <1>2, <1>1, <2>1, <3>1 DEF BeforeCallTool, NotAnnounced
  <2> QED
    BY <2>2, <2>3
<1>3. ASSUME NEW c \in Calls, Work(c) PROVE NotAnnounced(e)'
  BY <1>3 DEF Work, NotAnnounced
<1>4. ASSUME NEW c \in Calls, Shoot(c) PROVE NotAnnounced(e)'
  BY <1>4 DEF Shoot, NotAnnounced
<1>5. ASSUME NEW c \in Calls, Read(c) PROVE NotAnnounced(e)'
  BY <1>5 DEF Read, NotAnnounced
<1>6. ASSUME NEW c \in Calls, RemoveFile(c) PROVE NotAnnounced(e)'
  BY <1>6 DEF RemoveFile, NotAnnounced
<1>7. ASSUME NEW c \in Calls, Encode(c) PROVE NotAnnounced(e)'
  BY <1>7 DEF Encode, NotAnnounced
<1>8. ASSUME NEW c \in Calls, AfterCallTool(c) PROVE NotAnnounced(e)'
  <2>1. c # e /\ pc[e] # "done"
    BY <1>8 DEF AfterCallTool
  <2>2. \E d \in (Calls \ {e}) \cup {None} : \E kind \in {"show", "hide"} : queue' = Append(queue, <<kind, d>>)
    BY <1>8, <2>1 DEF AfterCallTool, ShowBalloon, HideBalloon, Dispatch
  <2> QED
    BY <1>8, <1>1, <2>1, <2>2 DEF AfterCallTool, NotAnnounced
<1>9. CASE Tick
  BY <1>9 DEF Tick, NotAnnounced
<1>10. CASE Show
  <2>1. queue # <<>> /\ queue' = Tail(queue) /\ balloon' = Head(queue)[2] /\ pc' = pc
    BY <1>10 DEF Show, Block
  <2>2. NotAnnounced(e)
    BY <2>1
  <2>3. \A i \in 1..Len(queue') : i + 1 \in 1..Len(queue) /\ queue'[i] = queue[i + 1]
    BY ONLY <1>1, <2>1
  <2> QED
    BY ONLY <1>1, <2>1, <2>2, <2>3 DEF NotAnnounced
<1>11. CASE Hide
  <2>1. queue # <<>> /\ queue' = Tail(queue) /\ balloon' = balloon /\ pc' = pc
    BY <1>11 DEF Hide, Block
  <2>2. NotAnnounced(e)
    BY <2>1
  <2>3. \A i \in 1..Len(queue') : i + 1 \in 1..Len(queue) /\ queue'[i] = queue[i + 1]
    BY ONLY <1>1, <2>1
  <2> QED
    BY ONLY <1>1, <2>1, <2>2, <2>3 DEF NotAnnounced
<1>12. CASE TimerFires
  BY <1>12 DEF TimerFires, NotAnnounced
<1>13. CASE FadeCompletes
  BY <1>13 DEF FadeCompletes, NotAnnounced
<1>14. CASE Quiescent \/ UNCHANGED vars
  BY <1>14 DEF Quiescent, vars, NotAnnounced
<1>15. ASSUME NEW c \in Calls, Write(c) PROVE NotAnnounced(e)'
  BY <1>15 DEF Write, NotAnnounced
<1> QED
  BY <1>2, <1>3, <1>4, <1>5, <1>6, <1>7, <1>8, <1>9, <1>10, <1>11, <1>12,
     <1>13, <1>14, <1>15
     DEF Next, Call, MainThread

\* isCaptureCall: the popover of a capture call is not in its own shot, however
\* late the blocks reach the main thread and whatever other calls show.
THEOREM CapturesAreClean == Spec => []ShotIsClean
<1>1. Init => CleanInv
  BY InitType, ToolCallsAssumption DEF Init, CleanInv, NotAnnounced
<1>2. CleanInv /\ [Next]_vars => CleanInv'
  BY CleanStep
<1>3. CleanInv => ShotIsClean
  BY DEF CleanInv, ShotIsClean, NotAnnounced
<1> QED
  BY <1>1, <1>2, <1>3, PTL DEF Spec

\* FadeInv, and what a step may do to an open popover.
LEMMA FadeStep ==
  ASSUME FadeInv, [Next]_vars
  PROVE  /\ FadeInv'
         /\ balloon # None /\ balloon' = None => ~timer \/ midFade
<1>0. TypeOK'
  BY TypeStep DEF FadeInv
<1> DEFINE Goal == /\ fades' > 0 /\ timer' => midFade'
                   /\ balloon # None /\ balloon' = None => ~timer \/ midFade
<1> SUFFICES Goal
  BY <1>0 DEF FadeInv
<1>q. queue \in Seq(Blocks)
  BY DEF FadeInv, TypeOK, Blocks
<1> USE ToolCallsAssumption DEF FadeInv, TypeOK, popVars
<1>1. ASSUME NEW c \in Calls, BeforeCallTool(c) PROVE Goal
  BY <1>1 DEF BeforeCallTool
<1>2. ASSUME NEW c \in Calls, Work(c) PROVE Goal
  BY <1>2 DEF Work
<1>3. ASSUME NEW c \in Calls, Shoot(c) PROVE Goal
  BY <1>3 DEF Shoot
<1>4. ASSUME NEW c \in Calls, Read(c) PROVE Goal
  BY <1>4 DEF Read
<1>5. ASSUME NEW c \in Calls, RemoveFile(c) PROVE Goal
  BY <1>5 DEF RemoveFile
<1>6. ASSUME NEW c \in Calls, Encode(c) PROVE Goal
  BY <1>6 DEF Encode
<1>7. ASSUME NEW c \in Calls, AfterCallTool(c) PROVE Goal
  BY <1>7 DEF AfterCallTool
<1>8. CASE Tick
  BY <1>8 DEF Tick
<1>9. CASE Show
  <2>1. Head(queue)[2] \in Calls
    <3>1. Head(queue) \in Blocks
      BY <1>9, <1>q DEF Show, Block
    <3> QED
      BY <1>9, <3>1 DEF Show, Block, Blocks
  <2>2. balloon' \in Calls /\ midFade' = (fades > 0) /\ fades' = fades
    BY <1>9, <2>1 DEF Show
  <2> QED
    BY <2>2
<1>10. CASE Hide
  BY <1>10 DEF Hide, Block, Fade
<1>11. CASE TimerFires
  BY <1>11 DEF TimerFires, Fade
<1>12. CASE FadeCompletes
  BY <1>12 DEF FadeCompletes
<1>13. CASE Quiescent \/ UNCHANGED vars
  BY <1>13 DEF Quiescent, vars
<1>14. ASSUME NEW c \in Calls, Write(c) PROVE Goal
  BY <1>14 DEF Write
<1> QED
  BY <1>1, <1>2, <1>3, <1>4, <1>5, <1>6, <1>7, <1>8, <1>9, <1>10, <1>11,
     <1>12, <1>13, <1>14
     DEF Next, Call, MainThread

\* The five seconds: a popover closes with its timer fired, or because it was
\* shown again while it was already fading, for any number of calls and blocks.
THEOREM PopoverStays == Spec => BalloonStays
<1>1. Init => FadeInv
  BY InitType DEF Init, FadeInv
<1>2. FadeInv /\ [Next]_vars => FadeInv'
  BY FadeStep
<1>3. FadeInv /\ [Next]_vars => [balloon # None /\ balloon' = None => ~timer \/ midFade]_vars
  BY FadeStep
<1> QED
  BY <1>1, <1>2, <1>3, PTL DEF Spec, BalloonStays

-----------------------------------------------------------------------------
(* The geometry of an image.                                                *)

\* The quotient of a division is the one number whose multiple is at most one
\* divisor short of the dividend.
LEMMA Quotient ==
  ASSUME NEW a \in Nat, NEW b \in Nat \ {0}
  PROVE  /\ a \div b \in Nat
         /\ (a \div b) * b <= a
         /\ a < (a \div b) * b + b
OBVIOUS

\* A product grows with its factors.
LEMMA Monotone ==
  ASSUME NEW a \in Nat, NEW b \in Nat, NEW c \in Nat, a <= b
  PROVE  a * c <= b * c
OBVIOUS

\* A part of a dividend that is at most its whole has at most its quotient.
LEMMA QuotientBounded ==
  ASSUME NEW a \in Nat, NEW b \in Nat \ {0}, NEW c \in Nat, a <= b
  PROVE  (a * c) \div b <= c
<1>1. a * c \in Nat
  OBVIOUS
<1>2. ((a * c) \div b) * b <= a * c /\ (a * c) \div b \in Nat
  BY <1>1, Quotient
<1>3. a * c <= b * c
  BY Monotone
<1> DEFINE q == (a * c) \div b
<1>4. q \in Nat /\ q * b <= b * c
  BY <1>1, <1>2, <1>3
<1> HIDE DEF q
<1>5. ASSUME q >= c + 1 PROVE FALSE
  <2>1. (c + 1) * b <= q * b
    BY <1>4, <1>5, Monotone
  <2>2. (c + 1) * b = b * c + b
    OBVIOUS
  <2> QED BY <2>1, <2>2, <1>4
<1>6. q <= c
  BY <1>4, <1>5
<1> QED BY <1>6 DEF q

\* resize: "the longest edge is at most maxDim", for every image and limit; and
\* the shrunk image is a size.
THEOREM ShrinkFits ==
  ASSUME NEW size \in Sizes, NEW max \in Nat
  PROVE  /\ Shrink(size, max) \in Sizes
         /\ Shrink(size, max).w <= max /\ Shrink(size, max).h <= max
<1>1. size.w \in Nat /\ size.h \in Nat
  BY DEF Sizes
<1>2. CASE size.w <= max /\ size.h <= max
  BY <1>1, <1>2 DEF Shrink
<1>3. CASE ~(size.w <= max /\ size.h <= max) /\ size.w >= size.h
  <2>1. size.w \in Nat \ {0}
    BY <1>1, <1>3
  <2>2. size.h * max \in Nat
    BY <1>1
  <2>3. (size.h * max) \div size.w <= max
    BY <1>1, <1>3, <2>1, QuotientBounded
  <2>4. (size.h * max) \div size.w \in Nat
    BY <2>1, <2>2, Quotient
  <2> QED BY <1>3, <2>3, <2>4 DEF Shrink, Sizes
<1>4. CASE ~(size.w <= max /\ size.h <= max) /\ ~(size.w >= size.h)
  <2>1. size.h \in Nat \ {0} /\ size.w <= size.h
    BY <1>1, <1>4
  <2>2. size.w * max \in Nat
    BY <1>1
  <2>3. (size.w * max) \div size.h <= max
    BY <1>1, <2>1, QuotientBounded
  <2>4. (size.w * max) \div size.h \in Nat
    BY <2>1, <2>2, Quotient
  <2> QED BY <1>4, <2>3, <2>4 DEF Shrink, Sizes
<1> QED BY <1>2, <1>3, <1>4

\* resize "preserving aspect ratio": the shorter edge of a shrunk image is the
\* exact proportion rounded down, so less than a pixel short of it.
THEOREM ShrinkKeepsShape ==
  ASSUME NEW size \in Sizes, NEW max \in Nat, size.w > max \/ size.h > max
  PROVE  LET s == Shrink(size, max) IN
         \/ s.w = max /\ s.h * size.w <= size.h * max /\ size.h * max < s.h * size.w + size.w
         \/ s.h = max /\ s.w * size.h <= size.w * max /\ size.w * max < s.w * size.h + size.h
<1>1. size.w \in Nat /\ size.h \in Nat
  BY DEF Sizes
<1>2. CASE size.w >= size.h
  <2>1. size.w \in Nat \ {0} /\ size.h * max \in Nat
    BY <1>1, <1>2
  <2> DEFINE q == (size.h * max) \div size.w
  <2>2. Shrink(size, max) = [w |-> max, h |-> q]
    BY <1>1, <1>2 DEF Shrink
  <2>3. q * size.w <= size.h * max /\ size.h * max < q * size.w + size.w
    BY <2>1, Quotient
  <2> HIDE DEF q
  <2> QED BY <2>2, <2>3
<1>3. CASE ~(size.w >= size.h)
  <2>1. size.h \in Nat \ {0} /\ size.w * max \in Nat
    BY <1>1, <1>3
  <2> DEFINE q == (size.w * max) \div size.h
  <2>2. Shrink(size, max) = [w |-> q, h |-> max]
    BY <1>1, <1>3 DEF Shrink
  <2>3. q * size.h <= size.w * max /\ size.w * max < q * size.h + size.h
    BY <2>1, Quotient
  <2> HIDE DEF q
  <2> QED BY <2>2, <2>3
<1> QED BY <1>2, <1>3

\* A shrunk image keeps a pixel in each direction when neither edge is max
\* times the other; a longer one is shrunk to nothing, which cannot be encoded.
THEOREM ShrinkVisible ==
  ASSUME NEW size \in Sizes, NEW max \in Nat \ {0},
         size.w > 0, size.h > 0,
         size.h * max >= size.w, size.w * max >= size.h
  PROVE  Shrink(size, max).w > 0 /\ Shrink(size, max).h > 0
<1>1. size.w \in Nat /\ size.h \in Nat
  BY DEF Sizes
<1>2. CASE size.w <= max /\ size.h <= max
  BY <1>2 DEF Shrink
<1>3. CASE ~(size.w <= max /\ size.h <= max)
  <2> DEFINE s == Shrink(size, max)
  <2>1. s.w \in Nat /\ s.h \in Nat
    BY ShrinkFits DEF Sizes
  <2>2. \/ s.w = max /\ size.h * max < s.h * size.w + size.w
        \/ s.h = max /\ size.w * max < s.w * size.h + size.h
    BY <1>1, <1>3, ShrinkKeepsShape
  <2> HIDE DEF s
  <2>3. s.h # 0
    <3> SUFFICES ASSUME s.h = 0 PROVE FALSE
      OBVIOUS
    <3>1. s.h * size.w = 0
      BY <1>1
    <3>2. size.h * max \in Nat
      BY <1>1
    <3> QED BY <1>1, <2>2, <3>1, <3>2
  <2>4. s.w # 0
    <3> SUFFICES ASSUME s.w = 0 PROVE FALSE
      OBVIOUS
    <3>1. s.w * size.h = 0
      BY <1>1
    <3>2. size.w * max \in Nat
      BY <1>1
    <3> QED BY <1>1, <2>2, <3>1, <3>2
  <2> QED BY <2>1, <2>3, <2>4 DEF s
<1> QED BY <1>2, <1>3

-----------------------------------------------------------------------------
\* A region inside the window is cropped to itself.
LEMMA CropInside ==
  ASSUME NEW window \in Sizes, NEW region \in Rects,
         Inside(region, window), region.w > 0, region.h > 0
  PROVE  Crop(window, region) = [x |-> region.x, y |-> region.y, w |-> region.w, h |-> region.h]
<1>1. /\ window.w \in Nat /\ window.h \in Nat
      /\ region.x \in Int /\ region.y \in Int /\ region.w \in Nat /\ region.h \in Nat
  BY DEF Sizes, Rects
<1>2. Most(0, region.x) = region.x /\ Most(0, region.y) = region.y
  BY <1>1 DEF Inside, Most
<1>3. /\ Least(window.w, region.x + region.w) = region.x + region.w
      /\ Least(window.h, region.y + region.h) = region.y + region.h
  BY <1>1 DEF Inside, Least
<1>4. /\ (region.x + region.w) - region.x = region.w
      /\ (region.y + region.h) - region.y = region.h
  BY <1>1
<1>5. region.x < region.x + region.w /\ region.y < region.y + region.h
  BY <1>1
<1> QED BY <1>2, <1>3, <1>4, <1>5 DEF Crop

\* Whatever is asked of capture_window, the part of the window it crops is a
\* size.
LEMMA PartIsSized ==
  ASSUME NEW raw \in Images, NEW window \in Sizes, NEW region \in Rects
  PROVE  SizeOf(Part(raw, window, region)) \in Sizes
<1>1. /\ window.w \in Nat /\ window.h \in Nat
      /\ region.x \in Int /\ region.y \in Int /\ region.w \in Nat /\ region.h \in Nat
  BY DEF Sizes, Rects
<1>2. SizeOf(ResizeToTarget(raw, window)) = [w |-> window.w, h |-> window.h]
  BY DEF Images, ResizeToTarget, SizeOf
<1> DEFINE left == Most(0, region.x)     right == Least(window.w, region.x + region.w)
           top == Most(0, region.y)      bottom == Least(window.h, region.y + region.h)
<1>3. left \in Int /\ right \in Int /\ top \in Int /\ bottom \in Int
  BY <1>1 DEF Most, Least
<1>4. CASE left < right /\ top < bottom
  <2>1. Part(raw, window, region) = [x |-> left, y |-> top, w |-> right - left, h |-> bottom - top]
    BY <1>2, <1>4 DEF Part, Crop
  <2>2. right - left \in Nat /\ bottom - top \in Nat
    BY <1>3, <1>4
  <2> QED BY <2>1, <2>2 DEF SizeOf, Sizes
<1>5. CASE ~(left < right /\ top < bottom)
  <2>1. Part(raw, window, region) = [x |-> 0, y |-> 0, w |-> 0, h |-> 0]
    BY <1>2, <1>5 DEF Part, Crop
  <2> QED BY <2>1 DEF SizeOf, Sizes
<1> QED BY <1>4, <1>5

\* A region inside the window is the part of the resized image that is kept.
LEMMA PartInside ==
  ASSUME NEW raw \in Images, NEW window \in Sizes, NEW region \in Rects,
         Inside(region, window), region.w > 0, region.h > 0
  PROVE  Part(raw, window, region) = [x |-> region.x, y |-> region.y, w |-> region.w, h |-> region.h]
<1>1. SizeOf(ResizeToTarget(raw, window)) = window
  BY DEF Images, ResizeToTarget, SizeOf, Sizes
<1> QED BY <1>1, CropInside DEF Part

\* Along one edge: the edges of the pixels from x on are the points from x on
\* exactly when the image shows the points of the window and no others.
LEMMA EdgesFit ==
  ASSUME NEW x \in Int, NEW n \in Nat \ {0}, NEW pixels \in Nat \ {0},
         NEW first \in Int, NEW points \in Nat
  PROVE  EdgesArePoints(x, x, n, pixels, first, points) <=> first = 0 /\ points = pixels
<1>1. ASSUME EdgesArePoints(x, x, n, pixels, first, points)
      PROVE  first = 0 /\ points = pixels
  <2>1. (x + 0) * points = ((x + 0) - first) * pixels /\ (x + n) * points = ((x + n) - first) * pixels
    BY <1>1 DEF EdgesArePoints
  <2>2. (x + n) * points - x * points = n * points
    OBVIOUS
  <2>3. ((x + n) - first) * pixels - (x - first) * pixels = n * pixels
    OBVIOUS
  <2>4. x * points = (x - first) * pixels
    BY <2>1
  <2>5. n * points = n * pixels
    BY <2>1, <2>2, <2>3, <2>4
  <2>6. points = pixels
    BY <2>5
  <2>7. first * pixels = 0
    <3>1. (x - first) * pixels = x * pixels - first * pixels
      OBVIOUS
    <3> QED BY <2>4, <2>6, <3>1
  <2> QED BY <2>6, <2>7
<1>2. ASSUME first = 0, points = pixels
      PROVE  EdgesArePoints(x, x, n, pixels, first, points)
  BY <1>2 DEF EdgesArePoints
<1> QED BY <1>1, <1>2

\* capture_window tells its caller to click at region_x + px, region_y + py:
\* for a region inside the window that is exactly right when no edge of the
\* region is longer than max, since resize shrinks a longer one after the crop,
\* and the image shows the window without the margin of a shadow, since
\* ResizeToTarget squeezes that into the window's size; whatever the scale.
THEOREM PixelsArePointsUpToMax ==
  ASSUME NEW raw \in Images, NEW window \in Sizes, NEW region \in Rects, NEW max \in Nat,
         Inside(region, window), region.w > 0, region.h > 0
  PROVE  PixelsArePoints(raw, window, region, max)
           <=> region.w <= max /\ region.h <= max /\ raw.shows = Whole(window)
<1>1. Part(raw, window, region) = [x |-> region.x, y |-> region.y, w |-> region.w, h |-> region.h]
  BY PartInside
<1>2. /\ SizeOf(Part(raw, window, region)) = SizeOf(region)
      /\ SizeOf(region) \in Sizes
      /\ SizeOf(region).w = region.w /\ SizeOf(region).h = region.h
  BY <1>1 DEF SizeOf, Rects, Sizes
<1>3. Shrink(SizeOf(region), max) = SizeOf(region) <=> region.w <= max /\ region.h <= max
  <2>1. ASSUME region.w <= max, region.h <= max PROVE Shrink(SizeOf(region), max) = SizeOf(region)
    BY <1>2, <2>1 DEF Shrink
  <2>2. ASSUME Shrink(SizeOf(region), max) = SizeOf(region) PROVE region.w <= max /\ region.h <= max
    BY <1>2, <2>2, ShrinkFits
  <2> QED BY <2>1, <2>2
<1>4. /\ raw.shows \in Rects
      /\ raw.shows.x \in Int /\ raw.shows.y \in Int /\ raw.shows.w \in Nat /\ raw.shows.h \in Nat
      /\ region.x \in Int /\ region.y \in Int /\ region.w \in Nat \ {0} /\ region.h \in Nat \ {0}
      /\ window.w \in Nat \ {0} /\ window.h \in Nat \ {0}
  BY DEF Images, Rects, Sizes, Inside
<1>5. EdgesArePoints(region.x, region.x, region.w, window.w, raw.shows.x, raw.shows.w)
        <=> raw.shows.x = 0 /\ raw.shows.w = window.w
  <2>1. PICK at \in Int : at = region.x
    BY <1>4
  <2>2. PICK n \in Nat \ {0} : n = region.w
    BY <1>4
  <2>3. PICK pixels \in Nat \ {0} : pixels = window.w
    BY <1>4
  <2>4. PICK first \in Int : first = raw.shows.x
    BY <1>4
  <2>5. PICK points \in Nat : points = raw.shows.w
    BY <1>4
  <2>6. EdgesArePoints(at, at, n, pixels, first, points) <=> first = 0 /\ points = pixels
    BY EdgesFit
  <2> QED BY ONLY <2>1, <2>2, <2>3, <2>4, <2>5, <2>6
<1>6. EdgesArePoints(region.y, region.y, region.h, window.h, raw.shows.y, raw.shows.h)
        <=> raw.shows.y = 0 /\ raw.shows.h = window.h
  <2>1. PICK at \in Int : at = region.y
    BY <1>4
  <2>2. PICK n \in Nat \ {0} : n = region.h
    BY <1>4
  <2>3. PICK pixels \in Nat \ {0} : pixels = window.h
    BY <1>4
  <2>4. PICK first \in Int : first = raw.shows.y
    BY <1>4
  <2>5. PICK points \in Nat : points = raw.shows.h
    BY <1>4
  <2>6. EdgesArePoints(at, at, n, pixels, first, points) <=> first = 0 /\ points = pixels
    BY EdgesFit
  <2> QED BY ONLY <2>1, <2>2, <2>3, <2>4, <2>5, <2>6
<1>7. raw.shows = Whole(window) <=> /\ raw.shows.x = 0 /\ raw.shows.w = window.w
                                    /\ raw.shows.y = 0 /\ raw.shows.h = window.h
  BY <1>4 DEF Rects, Whole
<1>8. PixelsArePoints(raw, window, region, max) <=>
        /\ Shrink(SizeOf(region), max) = SizeOf(region)
        /\ EdgesArePoints(region.x, region.x, region.w, window.w, raw.shows.x, raw.shows.w)
        /\ EdgesArePoints(region.y, region.y, region.h, window.h, raw.shows.y, raw.shows.h)
  BY <1>1, <1>2 DEF PixelsArePoints, ImageSize
<1> QED BY <1>3, <1>5, <1>6, <1>7, <1>8

\* So a window that is captured without its shadow and fits max is told its
\* clicks right, and one that is captured with a shadow of any width is not.
COROLLARY WindowPixelsArePoints ==
  ASSUME NEW window \in Sizes, NEW max \in Nat, window.w > 0, window.h > 0,
         NEW hideShadow \in BOOLEAN, NEW scale \in Nat \ {0},
         NEW margin \in [left : Nat, right : Nat, top : Nat, bottom : Nat]
  PROVE  PixelsArePoints(CaptureWindow(window, hideShadow, margin, scale), window, Whole(window), max)
           <=> /\ window.w <= max /\ window.h <= max
               /\ hideShadow \/ margin = [left |-> 0, right |-> 0, top |-> 0, bottom |-> 0]
<1> DEFINE raw == CaptureWindow(window, hideShadow, margin, scale)
           whole == Whole(window)
           shadowed == [x |-> -margin.left, w |-> margin.left + window.w + margin.right,
                        y |-> -margin.top,  h |-> margin.top + window.h + margin.bottom]
<1>1. /\ window.w \in Nat /\ window.h \in Nat
      /\ margin.left \in Nat /\ margin.right \in Nat /\ margin.top \in Nat /\ margin.bottom \in Nat
  BY DEF Sizes
<1>2. whole \in Rects /\ Inside(whole, window) /\ whole.w = window.w /\ whole.h = window.h
  BY <1>1 DEF Rects, Inside, Whole
<1>3. shadowed \in Rects
  BY <1>1 DEF Rects
<1>4. raw = IF hideShadow THEN [w |-> scale * window.w, h |-> scale * window.h, shows |-> whole]
            ELSE [w |-> scale * (margin.left + window.w + margin.right),
                  h |-> scale * (margin.top + window.h + margin.bottom), shows |-> shadowed]
  BY DEF CaptureWindow, Whole
<1>5. raw \in Images
  <2>1. scale * window.w \in Nat /\ scale * window.h \in Nat
    BY <1>1
  <2>2. /\ scale * (margin.left + window.w + margin.right) \in Nat
        /\ scale * (margin.top + window.h + margin.bottom) \in Nat
    BY <1>1
  <2> QED BY ONLY <1>2, <1>3, <1>4, <2>1, <2>2 DEF Images
<1>6. shadowed = whole <=> margin = [left |-> 0, right |-> 0, top |-> 0, bottom |-> 0]
  <2>1. shadowed = whole <=> /\ -margin.left = 0 /\ margin.left + window.w + margin.right = window.w
                             /\ -margin.top = 0 /\ margin.top + window.h + margin.bottom = window.h
    BY DEF Whole
  <2>2. margin = [left |-> 0, right |-> 0, top |-> 0, bottom |-> 0] <=>
          margin.left = 0 /\ margin.right = 0 /\ margin.top = 0 /\ margin.bottom = 0
    OBVIOUS
  <2> QED BY <1>1, <2>1, <2>2
<1>7. raw.shows = whole <=> hideShadow \/ margin = [left |-> 0, right |-> 0, top |-> 0, bottom |-> 0]
  <2>1. raw.shows = IF hideShadow THEN whole ELSE shadowed
    BY <1>4
  <2> HIDE DEF raw, whole, shadowed
  <2> QED BY <1>6, <2>1
<1> HIDE DEF raw, whole
<1>8. PixelsArePoints(raw, window, whole, max)
        <=> whole.w <= max /\ whole.h <= max /\ raw.shows = Whole(window)
  BY <1>2, <1>5, PixelsArePointsUpToMax
<1> QED BY <1>2, <1>7, <1>8 DEF raw, whole

-----------------------------------------------------------------------------
(* WindowTargets.                                                           *)

\* Positions have a first one: a smallest initial segment of them.
LEMMA FirstPosition ==
  ASSUME NEW n \in Nat, NEW S \in SUBSET (1..n), S # {}
  PROVE  Min(S) \in S /\ \A i \in S : Min(S) <= i
<1> DEFINE Upto(i) == {j \in S : j <= i}
           Segments == {Upto(i) : i \in S}
<1>1. IsFiniteSet(1..n)
  BY FS_Interval
<1>2. IsFiniteSet(S)
  BY <1>1, FS_Subset
<1>3. Segments \subseteq FiniteSubsetsOf(S) /\ Segments # {}
  <2>1. FiniteSubsetsOf(S) = SUBSET S
    BY <1>2, FS_FiniteSubsetsOfFinite
  <2>2. \A i \in S : Upto(i) \in SUBSET S
    OBVIOUS
  <2>3. PICK i \in S : TRUE
    OBVIOUS
  <2>4. Upto(i) \in Segments
    BY <2>3
  <2>5. Segments \subseteq SUBSET S
    BY <2>2
  <2> QED
    BY ONLY <2>1, <2>4, <2>5
<1>4. \E X \in Segments : \A Y \in Segments : ~(<<Y, X>> \in StrictSubsetOrdering(S))
  <2>1. IsWellFoundedOn(StrictSubsetOrdering(S), FiniteSubsetsOf(S))
    BY FS_StrictSubsetOrderingWellFounded
  <2> HIDE DEF Segments
  <2> QED
    BY ONLY <2>1, <1>3, WFMin
<1>5. PICK i \in S : \A k \in S : ~(<<Upto(k), Upto(i)>> \in StrictSubsetOrdering(S))
  BY <1>4
<1>6. ASSUME NEW k \in S, ~(i <= k) PROVE FALSE
  <2>1. k < i /\ S \subseteq Int
    BY <1>6
  <2>2. Upto(k) \subseteq Upto(i) /\ i \notin Upto(k) /\ i \in Upto(i)
    <3>1. \A j \in S : j <= k => j <= i
      BY <2>1
    <3>2. ~(i <= k) /\ i <= i
      BY <2>1
    <3> QED
      BY <3>1, <3>2
  <2>3. <<Upto(k), Upto(i)>> \in StrictSubsetOrdering(S)
    BY <2>2 DEF StrictSubsetOrdering
  <2> QED
    BY <2>3, <1>5
<1>7. \A k \in S : i <= k
  BY <1>6
<1> QED
  BY <1>7 DEF Min


LEMMA FirstWindow ==
  ASSUME NEW windows \in Seq(Window), NEW S \in SUBSET DOMAIN windows, S # {}
  PROVE  /\ Min(S) \in S /\ \A i \in S : Min(S) <= i
         /\ windows[Min(S)] \in Window
<1>1. DOMAIN windows = 1..Len(windows) /\ Len(windows) \in Nat
  OBVIOUS
<1> QED
  BY <1>1, FirstPosition

\* The window server's operations on a list of windows.
LEMMA RaisedWindows ==
  ASSUME NEW windows \in Seq(Window), NEW w \in ToSet(windows), w.layer = 0
  PROVE  Raised(windows, w) \in Seq(Window) /\ ToSet(Raised(windows, w)) = ToSet(windows)
<1> DEFINE from == CHOOSE i \in DOMAIN windows : windows[i] = w
           normal == {i \in DOMAIN windows : windows[i].layer = 0}
           to == Min(normal)
           raised == [i \in DOMAIN windows |-> IF i = to THEN w
                                             ELSE IF i \in to + 1 .. from THEN windows[i - 1]
                                             ELSE windows[i]]
<1>1. DOMAIN windows = 1..Len(windows) /\ Len(windows) \in Nat
  OBVIOUS
<1>2. from \in DOMAIN windows /\ windows[from] = w
  BY DEF ToSet
<1>3. from \in normal
  BY <1>2
<1>4. to \in normal /\ \A i \in normal : to <= i
  BY <1>3, FirstWindow
<1>5. to \in 1..Len(windows) /\ from \in 1..Len(windows) /\ to <= from
  BY <1>1, <1>2, <1>3, <1>4
<1> HIDE DEF from, to
<1>6. \A i \in 1..Len(windows) : raised[i] \in ToSet(windows)
  <2> TAKE i \in 1..Len(windows)
  <2>1. CASE i \in to + 1 .. from /\ i # to
    <3>1. i - 1 \in 1..Len(windows)
      BY <1>5, <2>1
    <3> QED
      BY <1>1, <2>1, <3>1 DEF ToSet
  <2> QED
    BY <1>1, <2>1 DEF ToSet
<1>7. ToSet(windows) \subseteq Window
  BY DEF ToSet
<1>8. raised \in Seq(Window)
  <2>1. \A i \in 1..Len(windows) : raised[i] \in Window
    BY <1>6, <1>7
  <2>2. raised \in [1..Len(windows) -> Window]
    BY <1>1, <2>1
  <2> QED
    BY <1>1, <2>2
<1>9. ASSUME NEW k \in 1..Len(windows) PROVE \E i \in 1..Len(windows) : raised[i] = windows[k]
  <2>1. CASE k = from
    BY <1>1, <1>2, <1>5, <2>1
  <2>2. CASE k \in to .. from - 1
    <3>1. k + 1 \in 1..Len(windows) /\ k + 1 \in to + 1 .. from /\ k + 1 # to /\ (k + 1) - 1 = k
      BY <1>5, <2>2
    <3>2. raised[k + 1] = windows[k]
      BY <1>1, <3>1
    <3> QED
      BY <3>1, <3>2
  <2>3. CASE k # from /\ k \notin to .. from - 1
    <3>1. k # to /\ k \notin to + 1 .. from
      BY <1>5, <2>3
    <3> QED
      BY <1>1, <3>1
  <2> QED
    BY <2>1, <2>2, <2>3
<1>10. ToSet(raised) = ToSet(windows)
  <2>1. DOMAIN raised = 1..Len(windows)
    BY <1>1
  <2> HIDE DEF raised
  <2>2. ToSet(raised) \subseteq ToSet(windows)
    BY <1>6, <2>1 DEF ToSet
  <2>3. ASSUME NEW v \in ToSet(windows) PROVE v \in ToSet(raised)
    <3>1. PICK k \in 1..Len(windows) : windows[k] = v
      BY <1>1 DEF ToSet
    <3>2. PICK i \in 1..Len(windows) : raised[i] = windows[k]
      BY <1>9
    <3> QED
      BY <2>1, <3>1, <3>2 DEF ToSet
  <2> QED
    BY <2>2, <2>3
<1>11. Raised(windows, w) = raised
  BY DEF Raised, from, to
<1> QED
  BY <1>8, <1>10, <1>11

LEMMA WithoutWindow ==
  ASSUME NEW windows \in Seq(Window), NEW w
  PROVE  Without(windows, w) \in Seq(Window)
<1>1. CASE w \in ToSet(windows)
  <2> DEFINE at == CHOOSE i \in DOMAIN windows : windows[i] = w
  <2>1. at \in 1..Len(windows)
    BY <1>1 DEF ToSet
  <2> HIDE DEF at
  <2>2. SubSeq(windows, 1, at - 1) \in Seq(Window)
    BY <2>1
  <2>3. SubSeq(windows, at + 1, Len(windows)) \in Seq(Window)
    BY <2>1
  <2>4. RemoveAt(windows, at) \in Seq(Window)
    BY <2>2, <2>3 DEF RemoveAt
  <2> QED
    BY <1>1, <2>4 DEF Without, at
<1> QED
  BY <1>1 DEF Without

LEMMA ResizedWindows ==
  ASSUME NEW windows \in Seq(Window), NEW w, NEW size \in (Nat \ {0}) \X (Nat \ {0})
  PROVE  Resized(windows, w, size) \in Seq(Window)
<1>1. DOMAIN windows = 1..Len(windows) /\ Len(windows) \in Nat
  OBVIOUS
<1>2. size[1] \in Int /\ size[2] \in Int
  OBVIOUS
<1>3. \A i \in 1..Len(windows) : windows[i] \in Window
  OBVIOUS
<1>4. ASSUME w \in Window
      PROVE  [w EXCEPT !.rect.width = size[1], !.rect.height = size[2]] \in Window
  BY <1>2, <1>4 DEF Window, Rect
<1>5. \A i \in 1..Len(windows) : Resized(windows, w, size)[i] \in Window
  BY <1>1, <1>3, <1>4 DEF Resized
<1>6. Resized(windows, w, size) \in [1..Len(windows) -> Window]
  BY <1>1, <1>5 DEF Resized
<1> QED
  BY <1>1, <1>6

\* What FindWindowWithTitle finds is a match, and listed.
LEMMA FoundMatches ==
  ASSUME NEW windows \in Seq(Window), NEW app, NEW title
  PROVE  LET found == FindWindowWithTitle(windows, app, title)
         IN \/ found = <<>>
            \/ \E i \in Matches(windows, app, title) :
                 i \in DOMAIN windows /\ found = <<windows[i]>> /\ Listed(windows[i])
<1> DEFINE matches == Matches(windows, app, title)
           visible == {i \in matches : windowOverlapsDisplay(windows[i])}
           pool == IF visible # {} THEN visible ELSE matches
<1>1. \A i \in matches : i \in DOMAIN windows /\ Listed(windows[i])
  BY DEF Matches, ListWindows
<1>2. ASSUME matches # {} PROVE Min(pool) \in matches
  <2>1. pool \in SUBSET DOMAIN windows /\ pool # {} /\ pool \subseteq matches
    BY <1>1, <1>2
  <2> HIDE DEF pool
  <2> QED
    BY <2>1, FirstWindow
<1>3. FindWindowWithTitle(windows, app, title) = IF matches = {} THEN <<>> ELSE <<windows[Min(pool)]>>
  BY DEF FindWindowWithTitle
<1> HIDE DEF pool, matches
<1>4. CASE matches = {}
  BY <1>3, <1>4
<1>5. CASE matches # {}
  BY <1>1, <1>2, <1>3, <1>5 DEF matches
<1> QED
  BY <1>4, <1>5

-----------------------------------------------------------------------------
LEMMA TargetsBegin == TargetsInit => TargetsTypeOK
<1> SUFFICES ASSUME TargetsInit PROVE TargetsTypeOK
  OBVIOUS
<1>1. desk \in Seq(Window) /\ docked \in Seq(Window)
  BY WindowTargetsAssumption DEF TargetsInit
<1>2. frontmost \in Nat \cup {Nobody}
  <2> DEFINE normal == {i \in DOMAIN desk : desk[i].layer = 0}
  <2>1. ASSUME normal # {} PROVE desk[Min(normal)].pid \in Nat
    <3>1. normal \in SUBSET DOMAIN desk
      OBVIOUS
    <3> HIDE DEF normal
    <3>2. desk[Min(normal)] \in Window
      BY <1>1, <2>1, <3>1, FirstWindow
    <3> QED
      BY <3>2 DEF Window
  <2>2. frontmost \in {Nobody, IF normal = {} THEN Nobody ELSE desk[Min(normal)].pid}
    BY DEF TargetsInit, FrontmostPID
  <2> HIDE DEF normal
  <2> QED
    BY <2>1, <2>2
<1>3. call \in ToolCall
  BY WindowTargetsAssumption DEF TargetsInit, ToolCall
<1>4. info \in Seq(Window) /\ Len(info) <= 1
  BY DEF TargetsInit
<1> QED
  BY <1>1, <1>2, <1>3, <1>4, WindowTargetsAssumption DEF TargetsInit, TargetsTypeOK

\* What a step does to the windows and to the active application.
LEMMA ScreenStep ==
  ASSUME TargetsTypeOK, [TargetsNext]_targetVars
  PROVE  desk' \in Seq(Window) /\ docked' \in Seq(Window) /\ frontmost' \in Nat \cup {Nobody}
<1> DEFINE Goal == desk' \in Seq(Window) /\ docked' \in Seq(Window) /\ frontmost' \in Nat \cup {Nobody}
<1> SUFFICES Goal
  OBVIOUS
<1>a. desk \in Seq(Window) /\ docked \in Seq(Window) /\ frontmost \in Nat \cup {Nobody}
  BY DEF TargetsTypeOK
<1>b. ASSUME NEW w \in AXFirst(info[1].pid)
      PROVE  w \in Window /\ w.layer = 0 /\ w.pid \in Nat
  <2>1. desk \o docked \in Seq(Window)
    BY <1>a
  <2>2. w \in ToSet(desk \o docked) /\ w.layer = 0
    BY <1>b DEF AXFirst
  <2>3. w \in Window
    BY ONLY <2>1, <2>2 DEF ToSet
  <2> QED
    BY <2>2, <2>3 DEF Window
<1>c. ASSUME NEW w \in ToSet(desk), w.layer = 0
      PROVE  Raised(desk, w) \in Seq(Window) /\ w.pid \in Nat
  <2>1. w \in Window
    BY <1>a DEF ToSet
  <2> QED
    BY <1>a, <1>c, <2>1, RaisedWindows DEF Window
<1>d. ASSUME NEW w \in AXFirst(info[1].pid)
      PROVE  (IF w \in ToSet(desk) THEN Raised(desk, w) ELSE desk) \in Seq(Window)
  BY <1>a, <1>b, <1>c
<1>1. CASE FocusWindow
  <2>1. CASE UNCHANGED <<desk, frontmost, docked>>
    BY <1>a, <2>1
  <2>2. ASSUME NEW w \in AXFirst(info[1].pid),
               desk' = (IF w \in ToSet(desk) THEN Raised(desk, w) ELSE desk),
               frontmost' = info[1].pid, UNCHANGED docked
        PROVE Goal
    <3>1. info[1].pid = w.pid
      BY DEF AXFirst
    <3> QED
      BY <1>a, <1>b, <1>d, <2>2, <3>1
  <2> QED
    BY <1>1, <2>1, <2>2 DEF FocusWindow
<1>2. ASSUME NEW p, NEW press \in BOOLEAN, Event(p, press), UNCHANGED docked PROVE Goal
  <2> DEFINE under == Under(Absolute(info[1].rect, p))
             top == desk[Min(under)]
  <2>1. under \in SUBSET DOMAIN desk
    BY DEF Under
  <2>2. under # {}
    BY <1>2 DEF Event
  <2>3. \/ top.layer = 0 /\ desk' = Raised(desk, top) /\ frontmost' = top.pid
        \/ UNCHANGED <<desk, frontmost>>
    BY <1>2 DEF Event
  <2> HIDE DEF under
  <2>4. top \in ToSet(desk)
    BY <1>a, <2>1, <2>2, FirstWindow DEF ToSet
  <2> HIDE DEF top
  <2> QED
    BY <1>a, <1>c, <1>2, <2>3, <2>4
<1>3. CASE Click
  BY <1>2, <1>3 DEF Click, Pointed
<1>4. CASE Move
  BY <1>2, <1>4 DEF Move, Pointed
<1>5. CASE Drag
  BY <1>2, <1>5 DEF Drag, Pointed
<1>6. ASSUME NEW w, Command(w) PROVE Goal
  <2>1. w \in AXFirst(info[1].pid)
    BY <1>6 DEF Command, Focus, Minimize, Restore, Close, Resize, Commanding, Commanded
  <2>2. CASE Focus(w)
    BY <1>a, <1>b, <1>d, <2>1, <2>2 DEF Focus
  <2>3. CASE Minimize(w)
    <3>1. Without(docked, w) \o <<w>> \in Seq(Window)
      BY <1>a, <1>b, <2>1, WithoutWindow
    <3> QED
      BY <1>a, <2>3, <3>1, WithoutWindow DEF Minimize
  <2>4. CASE Restore(w)
    <3>1. Append(desk, w) \in Seq(Window) /\ w \in ToSet(Append(desk, w))
      <4>1. w \in Window
        BY <1>b, <2>1
      <4>2. Append(desk, w) \in Seq(Window)
        BY <1>a, <4>1
      <4>3. Len(desk) + 1 \in DOMAIN Append(desk, w) /\ Append(desk, w)[Len(desk) + 1] = w
        BY <1>a, <4>1
      <4> QED
        BY <4>2, <4>3 DEF ToSet
    <3>2. Raised(Append(desk, w), w) \in Seq(Window)
      BY <1>b, <2>1, <3>1, RaisedWindows
    <3> QED
      BY <1>a, <2>4, <3>2, WithoutWindow DEF Restore
  <2>5. CASE Close(w)
    BY <1>a, <2>5, WithoutWindow DEF Close
  <2>6. CASE Resize(w)
    <3>1. PICK size \in NewSizes : desk' = Resized(desk, w, size) /\ docked' = Resized(docked, w, size)
      BY <2>6 DEF Resize
    <3>2. size \in (Nat \ {0}) \X (Nat \ {0})
      BY WindowTargetsAssumption
    <3> QED
      BY <1>a, <2>6, <3>1, <3>2, ResizedWindows DEF Resize
  <2> QED
    BY <1>6, <2>2, <2>3, <2>4, <2>5, <2>6 DEF Command
<1>7. CASE User
  <2>1. ASSUME NEW i \in DOMAIN desk, NEW p \in Spots,
               desk' = [desk EXCEPT ![i].rect.x = p[1], ![i].rect.y = p[2]], UNCHANGED <<frontmost, docked>>
        PROVE Goal
    <3>1. p[1] \in Int /\ p[2] \in Int
      BY WindowTargetsAssumption
    <3>2. desk[i] \in Window /\ DOMAIN desk = 1..Len(desk) /\ Len(desk) \in Nat
      BY <1>a
    <3>3. [desk[i] EXCEPT !.rect.x = p[1], !.rect.y = p[2]] \in Window
      BY <3>1, <3>2 DEF Window, Rect
    <3>4. desk' = [desk EXCEPT ![i] = [desk[i] EXCEPT !.rect.x = p[1], !.rect.y = p[2]]]
      BY <2>1
    <3>5. desk' \in Seq(Window)
      BY <1>a, <3>3, <3>4
    <3> QED
      BY <1>a, <2>1, <3>5
  <2> QED
    BY <1>a, <1>c, <1>7, <2>1 DEF User
<1>8. CASE Ask \/ Find \/ Misses \/ CommandFails \/ Capture \/ NothingAsked \/ UNCHANGED targetVars
  BY <1>a, <1>8 DEF Ask, Find, Misses, Pointed, CommandFails, Capture, NothingAsked, screen, targetVars
<1> QED
  BY <1>1, <1>3, <1>4, <1>5, <1>6, <1>7, <1>8 DEF TargetsNext

LEMMA TargetsTypeStep ==
  ASSUME TargetsTypeOK, [TargetsNext]_targetVars
  PROVE  TargetsTypeOK'
<1> DEFINE Rest == /\ stage' \in {"idle", "find", "front", "act"}
                   /\ call' \in ToolCall
                   /\ info' \in Seq(Window) /\ Len(info') <= 1
                   /\ (stage' \in {"front", "act"} => info' # <<>> /\ Listed(info'[1]))
                   /\ (image' = <<>> \/ image' \in Queries \X (Titles \cup {NoName}) \X (Nat \ {0}))
                   /\ hit' \in Nat /\ acted' \in Nat
                   /\ calls' \in 0..MaxCalls /\ acts' \in 0..MaxUser
<1> SUFFICES Rest
  BY ScreenStep DEF TargetsTypeOK, Listed
<1> USE DEF TargetsTypeOK, Stage, Reply
<1>i. ASSUME NEW w \in ToSet(desk \o docked) PROVE w.id \in Nat
  <2>1. desk \o docked \in Seq(Window)
    OBVIOUS
  <2>2. w \in Window
    BY ONLY <2>1, <1>i DEF ToSet
  <2> QED
    BY <2>2 DEF Window
<1>1. CASE Ask
  <2>1. calls' \in 0..MaxCalls
    BY <1>1, WindowTargetsAssumption DEF Ask
  <2> QED
    BY <1>1, <2>1 DEF Ask
<1>2. CASE Find
  <2>1. \/ info' = <<>> /\ stage' = "idle"
        \/ \E i \in DOMAIN desk : info' = <<desk[i]>> /\ Listed(desk[i])
    BY <1>2, FoundMatches DEF Find
  <2>2. stage' \in {"idle", "front", "act"}
    BY <1>2 DEF Find
  <2>3. CASE info' = <<>> /\ stage' = "idle"
    BY <1>2, <2>3 DEF Find
  <2>4. ASSUME NEW i \in DOMAIN desk, info' = <<desk[i]>>, Listed(desk[i]) PROVE Rest
    <3>1. desk[i] \in Window
      OBVIOUS
    <3>2. info' \in Seq(Window) /\ Len(info') <= 1 /\ info' # <<>> /\ info'[1] = desk[i]
      BY <2>4, <3>1
    <3> QED
      BY <1>2, <2>2, <2>4, <3>2 DEF Find
  <2> QED
    BY <2>1, <2>3, <2>4
<1>3. CASE FocusWindow
  BY <1>3 DEF FocusWindow
<1>4. ASSUME NEW p, NEW press \in BOOLEAN, Event(p, press) PROVE hit' \in Nat
  <2> DEFINE under == Under(Absolute(info[1].rect, p))
  <2>1. under \in SUBSET DOMAIN desk /\ under # {} /\ hit' = desk[Min(under)].id
    BY <1>4 DEF Event, Under
  <2> HIDE DEF under
  <2>2. desk[Min(under)] \in Window
    BY <2>1, FirstWindow
  <2> QED
    BY <2>1, <2>2 DEF Window
<1>5. CASE Click
  BY <1>4, <1>5 DEF Click, Pointed
<1>6. CASE Move
  BY <1>4, <1>6 DEF Move, Pointed
<1>7. CASE Drag
  BY <1>4, <1>7 DEF Drag, Pointed
<1>8. CASE Misses
  BY <1>8 DEF Misses, Pointed
<1>9. ASSUME NEW w \in ToSet(desk \o docked), Command(w) PROVE Rest
  <2>1. \E kind : Commanding(kind, w)
    BY <1>9 DEF Command, Focus, Minimize, Restore, Close, Resize
  <2> QED
    BY <1>i, <2>1 DEF Commanding
<1>10. CASE CommandFails
  BY <1>10 DEF CommandFails
<1>11. CASE Capture
  <2>1. stage = "act" /\ info[1] \in Window /\ Listed(info[1])
    BY <1>11 DEF Capture
  <2>2. info[1].id \in Nat \ {0}
    BY <2>1 DEF Window, Listed
  <2>3. call.app \in Queries /\ call.title \in Titles \cup {NoName}
    BY DEF ToolCall
  <2> QED
    BY <1>11, <2>2, <2>3 DEF Capture
<1>12. CASE User
  <2>0. acts < MaxUser /\ acts' = acts + 1
    BY <1>12 DEF User
  <2>1. acts' \in 0..MaxUser
    BY <2>0, WindowTargetsAssumption
  <2> QED
    BY <1>12, <2>1 DEF User
<1>13. CASE NothingAsked \/ UNCHANGED targetVars
  BY <1>13 DEF NothingAsked, targetVars
<1> QED
  BY <1>1, <1>2, <1>3, <1>5, <1>6, <1>7, <1>8, <1>9, <1>10, <1>11, <1>12, <1>13 DEF TargetsNext

\* Every variable of the calls and the desktop keeps its type, and a call that
\* acts has a window that ListWindows lists.
THEOREM TargetsTypeCorrect == TargetsSpec => []TargetsTypeOK
<1> QED
  BY TargetsBegin, TargetsTypeStep, PTL DEF TargetsSpec

-----------------------------------------------------------------------------
(* The two passes and the display preference.                               *)

\* A window of a pass and of its display preference has the best grade there is.
LEMMA BestMatch ==
  ASSUME NEW windows \in Seq(Window), NEW app \in Queries, NEW title
  PROVE  LET found == FindWindowWithTitle(windows, app, title)
             rivals == {i \in DOMAIN windows : Candidate(windows[i], app, title)}
         IN IF found = <<>> THEN rivals = {}
            ELSE \E i \in rivals :
                   /\ found = <<windows[i]>>
                   /\ \A j \in rivals :
                        LET better == Grade(windows[i], app) - Grade(windows[j], app)
                        IN better < 0 \/ (better = 0 /\ i <= j)
<1> DEFINE rivals == {i \in DOMAIN windows : Candidate(windows[i], app, title)}
           owned == {i \in rivals : windows[i].owner = app}
           matches == Matches(windows, app, title)
           visible == {i \in matches : windowOverlapsDisplay(windows[i])}
           pool == IF visible # {} THEN visible ELSE matches
           found == FindWindowWithTitle(windows, app, title)
           Best(i) == \A j \in rivals :
                        LET better == Grade(windows[i], app) - Grade(windows[j], app)
                        IN better < 0 \/ (better = 0 /\ i <= j)
\* ListWindows drops no window that a pass would take.
<1>1. matches = IF owned # {} THEN owned ELSE rivals
  <2> DEFINE listed == ListWindows(windows, app)
             titled == {i \in listed : <<title, windows[i].name>> \in Within}
  <2>1. ASSUME NEW i \in DOMAIN windows, Candidate(windows[i], app, title)
        PROVE  FilterMatches(windows[i], app)
    <3>1. <<app, app>> \in Within /\ (<<app, NoName>> \in Within => app = NoName)
      BY WindowTargetsAssumption
    <3> QED
      BY <2>1, <3>1 DEF Candidate, FilterMatches
  <2>2. owned = {i \in titled : windows[i].owner = app}
    BY <2>1 DEF ListWindows, Candidate
  <2>3. ASSUME owned = {} PROVE rivals = {i \in titled : <<app, windows[i].name>> \in Within}
    BY <2>1, <2>3 DEF ListWindows, Candidate
  <2>4. matches = IF {i \in titled : windows[i].owner = app} # {}
                  THEN {i \in titled : windows[i].owner = app}
                  ELSE {i \in titled : <<app, windows[i].name>> \in Within}
    BY DEF Matches
  <2> QED
    BY <2>2, <2>3, <2>4
<1>2. found = IF matches = {} THEN <<>> ELSE <<windows[Min(pool)]>>
  BY DEF FindWindowWithTitle
<1>3. owned \subseteq rivals /\ rivals \subseteq DOMAIN windows
  OBVIOUS
<1>4. DOMAIN windows = 1..Len(windows) /\ Len(windows) \in Nat
  OBVIOUS
<1>5. \A i \in rivals : (i \in owned) <=> (windows[i].owner = app)
  OBVIOUS
<1>6. \A i \in matches : (i \in visible) <=> windowOverlapsDisplay(windows[i])
  OBVIOUS
<1>7. pool \subseteq matches /\ (matches # {} => pool # {})
  OBVIOUS
<1>8. \A j \in matches : j \notin pool => visible # {} /\ j \notin visible /\ pool = visible
  OBVIOUS
<1>9. \A i \in pool, j \in pool : (i \in visible) <=> (j \in visible)
  OBVIOUS
<1>m. pool # {} => Min(pool) \in pool /\ \A j \in pool : Min(pool) <= j
  <2>1. pool \in SUBSET DOMAIN windows
    BY <1>1, <1>3, <1>7
  <2> HIDE DEF pool
  <2> QED
    BY <2>1, FirstWindow
<1>10. CASE matches = {}
  <2>1. rivals = {}
    BY <1>1, <1>3, <1>10
  <2> QED
    BY <1>2, <1>10, <2>1
<1>11. CASE matches # {}
  <2> DEFINE i == Min(pool)
  <2>1. i \in pool /\ \A j \in pool : i <= j
    BY <1>7, <1>11, <1>m
  <2>2. i \in matches /\ i \in rivals
    BY <1>1, <1>3, <1>7, <2>1
  <2> HIDE DEF i, pool, visible, matches, owned, rivals
  <2>3. ASSUME NEW j \in rivals
        PROVE  LET better == Grade(windows[i], app) - Grade(windows[j], app)
               IN better < 0 \/ (better = 0 /\ i <= j)
    \* A rival of the other pass: the owners' pass was taken.
    <3>1. CASE j \notin matches
      <4>1. i \in owned /\ j \notin owned
        BY <1>1, <2>2, <2>3, <3>1
      <4>2. windows[i].owner = app /\ windows[j].owner # app
        BY <1>5, <2>2, <4>1
      <4>3. Grade(windows[i], app) \in 0..1 /\ Grade(windows[j], app) \in 2..3
        BY <4>2 DEF Grade
      <4> QED
        BY <4>3
    \* A rival of the same pass has the same first digit.
    <3>2. CASE j \in matches
      <4>1. (windows[i].owner = app) <=> (windows[j].owner = app)
        BY <1>1, <1>5, <2>2, <2>3, <3>2
      <4>2. CASE j \notin pool
        <5>1. windowOverlapsDisplay(windows[i]) /\ ~windowOverlapsDisplay(windows[j])
          BY <1>6, <1>8, <2>1, <2>2, <3>2, <4>2
        <5> QED
          BY <4>1, <5>1 DEF Grade
      <4>3. CASE j \in pool
        <5>1. windowOverlapsDisplay(windows[i]) <=> windowOverlapsDisplay(windows[j])
          BY <1>6, <1>9, <2>1, <2>2, <3>2, <4>3
        <5>2. Grade(windows[i], app) - Grade(windows[j], app) = 0
          BY <4>1, <5>1 DEF Grade
        <5> QED
          BY <2>1, <4>3, <5>2
      <4> QED
        BY <4>2, <4>3
    <3> QED
      BY <3>1, <3>2
  <2>4. found = <<windows[i]>> /\ found # <<>>
    BY <1>2, <1>11 DEF i
  <2> QED
    BY <2>2, <2>3, <2>4 DEF rivals
<1> QED
  BY <1>10, <1>11

\* "Two-pass: exact owner name match first, title substring match second.
\* Prefers windows overlapping an active display": for every desktop, every
\* set of displays and every app field and title, what is found is the
\* frontmost window of the best grade.
THEOREM FoundIsBest == TargetsSpec => FindIsBest
<1> DEFINE Found ==
      LET rivals == {i \in DOMAIN desk : Candidate(desk[i], call.app, call.title)}
      IN IF info' = <<>> THEN rivals = {}
         ELSE \E i \in rivals :
                /\ info' = <<desk[i]>>
                /\ \A j \in rivals :
                     LET better == Grade(desk[i], call.app) - Grade(desk[j], call.app)
                     IN better < 0 \/ (better = 0 /\ i <= j)
<1>1. ASSUME TargetsTypeOK, TargetsNext, stage = "find", stage' # "find" PROVE Found
  <2>1. Find
    BY <1>1 DEF TargetsNext, Ask, Stage, FocusWindow, Click, Move, Drag, Misses, Pointed, Command,
       Focus, Minimize, Restore, Close, Resize, Commanding, CommandFails, Capture, User, NothingAsked
  <2>2. desk \in Seq(Window) /\ call.app \in Queries
    BY <1>1 DEF TargetsTypeOK, ToolCall
  <2>3. info' = FindWindowWithTitle(desk, call.app, call.title)
    BY <2>1 DEF Find
  <2> QED
    BY <2>2, <2>3, BestMatch
<1>2. TargetsTypeOK /\ [TargetsNext]_targetVars =>
        [stage = "find" /\ stage' # "find" => Found]_targetVars
  BY <1>1
<1> QED
  BY <1>2, TargetsTypeCorrect, PTL DEF TargetsSpec, FindIsBest

-----------------------------------------------------------------------------
(* From the image to the window under the pointer.                          *)

Shown(windows, app, title, id) == \E i \in Matches(windows, app, title) : windows[i].id = id

\* A call past its lookup has neither hit nor acted yet; one that points has
\* its application in front; and the window of the last image, like the one
\* that a capture is about to show, goes by the image's app field and title
\* until a command changes the windows there are.
TargetsInv ==
  /\ stage # "idle" => hit = 0 /\ acted = 0
  /\ stage = "front" => call.kind \in Pointing /\ info[1] \in ToSet(desk)
  /\ stage = "act" /\ call.kind \in Pointing => frontmost = info[1].pid
  /\ stage = "act" /\ call.kind = "capture" => Shown(desk, call.app, call.title, info[1].id)
  /\ image # <<>> => Shown(desk, image[1], image[2], image[3])

\* What goes by a name does not depend on the order of the windows.
LEMMA ShownReordered ==
  ASSUME NEW d, NEW e, ToSet(e) = ToSet(d), NEW app, NEW title, NEW id, Shown(d, app, title, id)
  PROVE  Shown(e, app, title, id)
<1> DEFINE Titled(s) == {i \in ListWindows(s, app) : <<title, s[i].name>> \in Within}
           Owned(s) == {i \in Titled(s) : s[i].owner = app}
           Named(s) == {i \in Titled(s) : <<app, s[i].name>> \in Within}
<1>1. ASSUME NEW s, NEW t, ToSet(s) = ToSet(t)
      PROVE  /\ \A i \in Owned(s) : \E j \in Owned(t) : t[j] = s[i]
             /\ \A i \in Named(s) : \E j \in Named(t) : t[j] = s[i]
  <2>1. ASSUME NEW i \in Titled(s) PROVE \E j \in Titled(t) : t[j] = s[i]
    <3>1. i \in DOMAIN s
      BY DEF ListWindows
    <3>2. PICK j \in DOMAIN t : t[j] = s[i]
      BY <1>1, <3>1 DEF ToSet
    <3> QED
      BY <3>2 DEF ListWindows
  <2> QED
    BY <2>1
<1>2. \A s : Matches(s, app, title) = IF Owned(s) # {} THEN Owned(s) ELSE Named(s)
  BY DEF Matches
<1> HIDE DEF Owned, Named
<1>3. PICK i \in Matches(d, app, title) : d[i].id = id
  BY DEF Shown
<1>4. \E j \in Matches(e, app, title) : e[j] = d[i]
  BY <1>1, <1>2, <1>3
<1> QED
  BY <1>3, <1>4 DEF Shown

\* Nor on where the windows are.
LEMMA ShownMoved ==
  ASSUME NEW d, NEW e, NEW app, NEW title, NEW id, Shown(d, app, title, id),
         DOMAIN e = DOMAIN d,
         \A i \in DOMAIN d : /\ e[i].id = d[i].id /\ e[i].owner = d[i].owner
                             /\ e[i].name = d[i].name /\ e[i].layer = d[i].layer
                             /\ e[i].rect.width = d[i].rect.width
                             /\ e[i].rect.height = d[i].rect.height
  PROVE  Shown(e, app, title, id)
<1>1. ListWindows(e, app) = ListWindows(d, app)
  BY DEF ListWindows, Listed, FilterMatches
<1>2. ListWindows(d, app) \subseteq DOMAIN d
  BY DEF ListWindows
<1>3. Matches(e, app, title) = Matches(d, app, title) /\ Matches(d, app, title) \subseteq DOMAIN d
  BY <1>1, <1>2 DEF Matches
<1> QED
  BY <1>3 DEF Shown

\* A command forgets the image; no other step changes which windows there are.
LEMMA ShownStep ==
  ASSUME TargetsTypeOK, [TargetsNext]_targetVars, image' # <<>>,
         NEW app, NEW title, NEW id, Shown(desk, app, title, id)
  PROVE  Shown(desk', app, title, id)
<1>0. desk \in Seq(Window) /\ desk' \in Seq(Window)
  BY ScreenStep DEF TargetsTypeOK
<1>1. ASSUME NEW w \in ToSet(desk), w.layer = 0, desk' = Raised(desk, w)
      PROVE  Shown(desk', app, title, id)
  <2>1. ToSet(desk') = ToSet(desk)
    BY <1>0, <1>1, RaisedWindows
  <2> QED
    BY <2>1, ShownReordered
<1>2. CASE desk' = desk
  BY <1>2
<1>3. CASE FocusWindow
  <2>1. \/ desk' = desk
        \/ \E w \in AXFirst(info[1].pid) : w \in ToSet(desk) /\ desk' = Raised(desk, w)
    BY <1>3 DEF FocusWindow
  <2> QED
    BY <1>1, <1>2, <2>1 DEF AXFirst
<1>4. ASSUME NEW p, NEW press \in BOOLEAN, Event(p, press) PROVE Shown(desk', app, title, id)
  <2> DEFINE under == Under(Absolute(info[1].rect, p))
             top == desk[Min(under)]
  <2>1. under \in SUBSET DOMAIN desk /\ under # {}
    BY <1>4 DEF Event, Under
  <2>2. \/ top.layer = 0 /\ desk' = Raised(desk, top)
        \/ desk' = desk
    BY <1>4 DEF Event
  <2> HIDE DEF under
  <2>3. top \in ToSet(desk)
    BY <1>0, <2>1, FirstWindow DEF ToSet
  <2> HIDE DEF top
  <2> QED
    BY <1>1, <1>2, <2>2, <2>3
<1>5. CASE Click
  BY <1>4, <1>5 DEF Click
<1>6. CASE Move
  BY <1>4, <1>6 DEF Move
<1>7. CASE Drag
  BY <1>4, <1>7 DEF Drag
<1>8. CASE User
  <2>1. ASSUME NEW i \in DOMAIN desk, NEW p \in Spots,
               desk' = [desk EXCEPT ![i].rect.x = p[1], ![i].rect.y = p[2]]
        PROVE Shown(desk', app, title, id)
    <3>1. DOMAIN desk' = DOMAIN desk
      BY <2>1
    <3>2. \A j \in DOMAIN desk : desk[j] \in Window
      BY <1>0
    <3>3. \A j \in DOMAIN desk : j # i => desk'[j] = desk[j]
      BY <2>1
    <3>4. desk'[i] = [desk[i] EXCEPT !.rect.x = p[1], !.rect.y = p[2]]
      BY <2>1
    <3>5. \A j \in DOMAIN desk :
            /\ desk'[j].id = desk[j].id /\ desk'[j].owner = desk[j].owner
            /\ desk'[j].name = desk[j].name /\ desk'[j].layer = desk[j].layer
            /\ desk'[j].rect.width = desk[j].rect.width
            /\ desk'[j].rect.height = desk[j].rect.height
      <4> TAKE j \in DOMAIN desk
      <4>1. CASE j = i
        <5>1. desk[i] \in Window /\ desk[i].rect \in Rect
          BY <3>2 DEF Window
        <5>2. /\ desk'[i].id = desk[i].id /\ desk'[i].owner = desk[i].owner
              /\ desk'[i].name = desk[i].name /\ desk'[i].layer = desk[i].layer
          BY ONLY <3>4, <5>1 DEF Window
        <5>3. desk'[i].rect = [desk[i].rect EXCEPT !.x = p[1], !.y = p[2]]
          BY ONLY <3>4, <5>1 DEF Window
        <5>4. desk'[i].rect.width = desk[i].rect.width /\ desk'[i].rect.height = desk[i].rect.height
          BY ONLY <5>1, <5>3 DEF Rect
        <5> QED
          BY <4>1, <5>2, <5>4
      <4> QED
        BY <3>3, <4>1
    <3>6. Shown(desk, app, title, id)
      OBVIOUS
    <3> QED
      BY ONLY <3>1, <3>5, <3>6, ShownMoved
  <2> QED
    BY <1>1, <1>2, <1>8, <2>1 DEF User
<1>9. ASSUME NEW w, Command(w) PROVE FALSE
  BY <1>9 DEF Command, Focus, Minimize, Restore, Close, Resize, Commanding
<1>10. CASE Ask \/ Find \/ Misses \/ CommandFails \/ Capture \/ NothingAsked \/ UNCHANGED targetVars
  BY <1>2, <1>10 DEF Ask, Find, Misses, CommandFails, Capture, NothingAsked, screen, targetVars
<1> QED
  BY <1>3, <1>5, <1>6, <1>7, <1>8, <1>9, <1>10 DEF TargetsNext

LEMMA TargetsInvStep ==
  ASSUME TargetsTypeOK, TargetsInv, [TargetsNext]_targetVars
  PROVE  TargetsInv'
<1> USE DEF TargetsInv, Stage, Reply
<1>1. CASE Ask
  BY <1>1 DEF Ask, screen
<1>2. CASE Find
  <2>1. \/ info' = <<>> /\ stage' = "idle"
        \/ \E i \in Matches(desk, call.app, call.title) : info' = <<desk[i]>>
    BY <1>2, FoundMatches DEF Find, TargetsTypeOK
  <2>2. stage' = "act" => Shown(desk, call.app, call.title, info'[1].id)
    BY <2>1 DEF Shown
  <2>3. stage' = "front" => call.kind \in Pointing /\ info'[1] \in ToSet(desk)
    <3>1. \A i \in Matches(desk, call.app, call.title) : desk[i] \in ToSet(desk)
      BY DEF Matches, ListWindows, ToSet
    <3> QED
      BY <1>2, <2>1, <3>1 DEF Find
  <2>4. stage' = "act" /\ call.kind \in Pointing => frontmost = info'[1].pid
    BY <1>2 DEF Find
  <2> QED
    BY <1>2, <2>2, <2>3, <2>4 DEF Find, screen
<1>3. CASE FocusWindow
  <2>1. stage = "front" /\ call.kind \in Pointing /\ UNCHANGED <<call, info, image, hit, acted>>
    BY <1>3 DEF FocusWindow
  <2>2. stage' = "idle" \/ (stage' = "act" /\ frontmost' = info[1].pid)
    BY <1>3 DEF FocusWindow
  <2>3. call.kind # "capture"
    BY <2>1 DEF Pointing
  <2>4. image # <<>> => Shown(desk', image[1], image[2], image[3])
    BY <2>1, ShownStep
  <2> QED
    BY <2>1, <2>2, <2>3, <2>4
<1>4. CASE Capture
  <2>1. stage' = "idle" /\ UNCHANGED desk /\ call.kind = "capture" /\ stage = "act"
    BY <1>4 DEF Capture, screen
  <2>2. image' = image \/ image' = <<call.app, call.title, info[1].id>>
    BY <1>4 DEF Capture
  <2> QED
    BY <2>1, <2>2
\* The other steps of a call end it.
<1>5. ASSUME stage' = "idle", image' = image PROVE TargetsInv'
  BY <1>5, ShownStep
<1>6. CASE Click \/ Move \/ Drag \/ Misses \/ CommandFails
  BY <1>5, <1>6 DEF Click, Move, Drag, Misses, Pointed, CommandFails
<1>7. ASSUME NEW w, Command(w) PROVE TargetsInv'
  BY <1>7 DEF Command, Focus, Minimize, Restore, Close, Resize, Commanding
<1>8. CASE User
  <2>1. stage' = "idle" /\ image' = image
    BY <1>8 DEF User
  <2> QED
    BY <1>5, <2>1
<1>9. CASE NothingAsked \/ UNCHANGED targetVars
  BY <1>9 DEF NothingAsked, targetVars, screen
<1> QED
  BY <1>1, <1>2, <1>3, <1>4, <1>6, <1>7, <1>8, <1>9 DEF TargetsNext

LEMMA TargetsInvInit == TargetsInit => TargetsInv
BY DEF TargetsInit, TargetsInv

LEMMA TargetsInvCorrect == TargetsSpec => [](TargetsTypeOK /\ TargetsInv)
<1>1. TargetsTypeOK /\ TargetsInv /\ [TargetsNext]_targetVars => TargetsInv'
  BY TargetsInvStep
<1> QED
  BY <1>1, TargetsInvInit, TargetsTypeCorrect, PTL DEF TargetsSpec

\* A pixel of a window is under that window wherever it is, and an event there
\* goes to it when no window is in front of it.
LEMMA TopIsHit ==
  ASSUME TargetsTypeOK, stage = "act", desk[1] = info[1], 1 \in DOMAIN desk,
         NEW p \in Pixels, checkWindowBounds(info[1].rect, p),
         NEW press \in BOOLEAN, Event(p, press)
  PROVE  hit' = info[1].id
<1> DEFINE under == Under(Absolute(info[1].rect, p))
<1>1. desk \in Seq(Window) /\ desk[1] \in Window
  BY DEF TargetsTypeOK
<1>2. desk[1].rect \in Rect /\ p[1] \in Int /\ p[2] \in Int
  BY <1>1, WindowTargetsAssumption DEF Window
<1>3. Covers(desk[1].rect, Absolute(desk[1].rect, p))
  BY <1>2 DEF Covers, Absolute, checkWindowBounds, Rect
<1>4. 1 \in under /\ under \in SUBSET DOMAIN desk
  BY <1>3 DEF Under
<1> HIDE DEF under
<1>5. Min(under) \in under /\ Min(under) <= 1
  BY <1>1, <1>4, FirstWindow
<1>6. Min(under) = 1
  BY <1>1, <1>4, <1>5
<1> QED
  BY <1>6 DEF Event, under

\* "Pixel coordinates in this image map directly to do() x,y values": for every
\* desktop and every number of calls and of acts of the user, if the app field
\* names the one window of an application and nothing covers that window, the
\* pointer event at a pixel of the last image goes to the window the image
\* shows, and a command acts on the window that was found.
THEOREM TargetIsActedOn == TargetsSpec => ActsOnFound
<1> DEFINE Aimed ==
      /\ hit' # 0 /\ image # <<>> /\ image[1] = call.app /\ image[2] = NoName => hit' = image[3]
      /\ acted' # 0 => acted' = info[1].id
<1>1. ASSUME TargetsTypeOK, TargetsInv, TargetsNext, stage = "act", Unambiguous(info[1], call.app)
      PROVE  Aimed
  <2>1. hit = 0 /\ acted = 0
    BY <1>1 DEF TargetsInv
  \* A step that points at a pixel.
  <2>2. ASSUME NEW p \in Pixels, NEW press \in BOOLEAN, call.kind \in Pointing,
               checkWindowBounds(info[1].rect, p), Event(p, press), acted' = acted
        PROVE  Aimed
    <3>1. frontmost = info[1].pid
      BY <1>1, <2>2 DEF TargetsInv
    <3>2. desk[1] = info[1]
      BY <1>1, <3>1 DEF Unambiguous
    <3>3. 1 \in DOMAIN desk
      <4>1. DOMAIN desk = 1..Len(desk) /\ Len(desk) \in Nat
        BY <1>1 DEF TargetsTypeOK
      <4>2. PICK i \in DOMAIN desk : TRUE
        BY <2>2 DEF Event, Under
      <4> QED
        BY <4>1, <4>2
    <3>4. hit' = info[1].id
      BY <1>1, <2>2, <3>2, <3>3, TopIsHit
    <3>5. ASSUME image # <<>>, image[1] = call.app, image[2] = NoName PROVE image[3] = info[1].id
      <4>1. PICK i \in Matches(desk, call.app, NoName) : desk[i].id = image[3]
        BY <1>1, <3>5 DEF TargetsInv, Shown
      <4>2. desk[i] = info[1]
        BY <1>1, <4>1 DEF Unambiguous
      <4> QED
        BY <4>1, <4>2
    <3> QED
      BY <2>1, <2>2, <3>4, <3>5
  <2>3. CASE Click
    BY <2>2, <2>3 DEF Click, Pointed, Pointing
  <2>4. CASE Move
    BY <2>2, <2>4 DEF Move, Pointed, Pointing
  <2>5. CASE Drag
    BY <2>2, <2>5 DEF Drag, Pointed, Pointing
  <2>6. ASSUME NEW w, Command(w) PROVE Aimed
    <3>1. PICK kind : Commanding(kind, w)
      BY <2>6 DEF Command, Focus, Minimize, Restore, Close, Resize
    <3>2. w = info[1]
      BY <1>1, <3>1 DEF Commanding, Commanded, Unambiguous
    <3> QED
      BY <2>1, <3>1, <3>2 DEF Commanding
  <2>7. CASE Misses \/ CommandFails \/ Capture
    BY <2>1, <2>7 DEF Misses, Pointed, CommandFails, Capture
  <2>8. ~(Ask \/ Find \/ FocusWindow \/ User \/ NothingAsked)
    BY <1>1 DEF Ask, Stage, Find, FocusWindow, User, NothingAsked
  <2> QED
    BY <1>1, <2>3, <2>4, <2>5, <2>6, <2>7, <2>8 DEF TargetsNext
<1>2. TargetsTypeOK /\ TargetsInv /\ [TargetsNext]_targetVars =>
        [stage = "act" /\ Unambiguous(info[1], call.app) => Aimed]_targetVars
  BY <1>1
<1> QED
  BY <1>2, TargetsInvCorrect, PTL DEF TargetsSpec, ActsOnFound

\* What "automatically focus the target window" gives: when the application is
\* not active, has no other window and no window of another layer is in front,
\* the window found is in front of every window once FocusWindow has returned.
THEOREM FocusUncovers ==
  TargetsSpec =>
    [][stage = "front" /\ stage' = "act" /\ AXFirst(info[1].pid) = {info[1]} /\ desk[1].layer = 0
         => desk'[1] = info[1]]_targetVars
<1>1. ASSUME TargetsTypeOK, TargetsInv, TargetsNext, stage = "front", stage' = "act",
             AXFirst(info[1].pid) = {info[1]}, desk[1].layer = 0
      PROVE  desk'[1] = info[1]
  <2> DEFINE normal == {i \in DOMAIN desk : desk[i].layer = 0}
             raised == Raised(desk, info[1])
  <2>1. FocusWindow
    BY <1>1 DEF TargetsNext, Ask, Stage, Find, Click, Move, Drag, Misses, Pointed, Command,
       Focus, Minimize, Restore, Close, Resize, Commanding, CommandFails, Capture, User, NothingAsked
  <2>2. info[1] \in ToSet(desk) /\ desk' = raised
    BY <1>1, <2>1 DEF TargetsInv, FocusWindow, Reply
  <2>3. desk \in Seq(Window) /\ DOMAIN desk = 1..Len(desk) /\ Len(desk) \in Nat /\ 1 \in DOMAIN desk
    <3>1. DOMAIN desk = 1..Len(desk) /\ Len(desk) \in Nat /\ desk \in Seq(Window)
      BY <1>1 DEF TargetsTypeOK
    <3> QED
      BY <2>2, <3>1 DEF ToSet
  <2>4. Min(normal) = 1
    <3>1. 1 \in normal /\ normal \in SUBSET DOMAIN desk
      BY <1>1, <2>3
    <3> HIDE DEF normal
    <3>2. Min(normal) \in normal /\ Min(normal) <= 1
      BY <2>3, <3>1, FirstWindow
    <3> QED
      BY <2>3, <3>1, <3>2
  <2>5. raised[1] = info[1]
    BY <2>3, <2>4 DEF Raised
  <2> QED
    BY <2>2, <2>5
<1>2. TargetsTypeOK /\ TargetsInv /\ [TargetsNext]_targetVars =>
        [stage = "front" /\ stage' = "act" /\ AXFirst(info[1].pid) = {info[1]} /\ desk[1].layer = 0
           => desk'[1] = info[1]]_targetVars
  BY <1>1
<1> QED
  BY <1>2, TargetsInvCorrect, PTL DEF TargetsSpec
=============================================================================
