--------------------------- MODULE RsRuntimeProofs ---------------------------
(***************************************************************************)
(* For every alphabet, keymap, set of texts and bound: the Rust typer      *)
(* implements TypingSession (TypesTheText), and if the link never goes the *)
(* daemon leaves the host as it found it (LeavesHostTidy).                 *)
(*                                                                         *)
(* Unlike the Python typer it needs no exception for refused releases: a   *)
(* send fails only without a link, and then the host has lifted the key.   *)
(* That the gadget's disconnect lifts nothing does no harm because main    *)
(* disconnects after it has awaited both tasks (InOrder).                  *)
(***************************************************************************)
EXTENDS RsRuntime, HostKeyboardProofs

Midway ==
  /\ pc \in Typing => rest # <<>>
  /\ pc \notin Typing => rest = <<>>

\* No key is down between keystrokes.
Idle == pc \notin Holding => held = NoKey

\* The wrong character is the last of the document until it is corrected.
WrongIsLast ==
  pc \in {"typoHold", "typoGap"} =>
    /\ doc # <<>>
    /\ Last(doc) \in Near[Head(rest)]

\* A host without a link holds no key.
DeadLinkLifts == ~connected => held = NoKey

\* main awaits the jiggler, then the typer, then the rest.
InOrder ==
  /\ main \in {"typer", "api", "disconnect", "exited"} => jiggler = "ended"
  /\ main \in {"api", "disconnect", "exited"} => pc = "ended"

\* As long as the link has never gone: it is up until main is done, the
\* document is what was wanted unless the typer may have panicked, and no
\* move but that of the jiggle that runs is still to be undone.
NeverLost ==
  links = 0 =>
    /\ main # "exited" => connected
    /\ sound => Shown = wanted
    /\ off = IF jiggler = "away" THEN 1 ELSE 0

\* A jiggle half way has moved the pointer.
Moved == jiggler = "away" => off # 0

IInv ==
  /\ TypeOK /\ Midway /\ Idle /\ WrongIsLast /\ DeadLinkLifts
  /\ InOrder /\ NeverLost /\ Moved

-----------------------------------------------------------------------------
\* The head and the tail of what is still to be typed.
LEMMA RestParts ==
  ASSUME TypeOK, rest # <<>>
  PROVE  Head(rest) \in Char /\ Tail(rest) \in Seq(Char)
BY HeadTailProperties DEF TypeOK, TyperTypeOK

LEMMA InitIInv == Init => IInv
<1> SUFFICES ASSUME Init PROVE IInv
  OBVIOUS
<1>1. TypeOK
  <2>1. <<>> \in Seq(Char) /\ <<>> \in Seq(Mapped)
    OBVIOUS
  <2>2. 0 \in 0 .. MaxLinks /\ 0 \in 0 .. MaxSessions
    BY TyperAssumption
  <2> QED  BY <2>1, <2>2 DEF Init, TyperInit, TypeOK, TyperTypeOK
<1>2. pc \in {"wait", "ended"} /\ rest = <<>> /\ doc = wanted /\ held = NoKey
  BY DEF Init, TyperInit
<1>3. main = "running" /\ connected /\ off = 0 /\ jiggler # "away"
  BY DEF Init, TyperInit
<1> QED
  BY <1>1, <1>2, <1>3 DEF IInv, Typing, Holding, Midway, Idle, WrongIsLast,
     DeadLinkLifts, InOrder, NeverLost, Moved, Shown

-----------------------------------------------------------------------------
\* What each press does to the document.
LEMMA PressTypoEffect ==
  ASSUME IInv, PressTypo
  PROVE  /\ rest # <<>> /\ held' \in Char
         /\ doc' \in Seq(Char) /\ doc' # <<>>
         /\ Front(doc') = doc /\ Last(doc') \in Near[Head(rest)]
<1>1. PICK wrong \in Near[Head(rest)] : Press(wrong)
  BY DEF PressTypo
<1>2. rest # <<>> /\ held = NoKey
  BY DEF PressTypo, Goto, IInv, Midway, Idle, Typing, Holding
<1>3. Head(rest) \in Char /\ wrong \in Char
  BY <1>2, RestParts, KeyboardAssumption DEF IInv
<1>4. held # wrong /\ wrong # Backspace
  BY <1>2, <1>3, KeyboardAssumption
<1>5. doc' = Append(doc, wrong) /\ held' = wrong
  BY <1>1, <1>4 DEF Press, Edit
<1>6. /\ doc' \in Seq(Char) /\ doc' # <<>>
      /\ Front(doc') = doc /\ Last(doc') = wrong
  BY <1>3, <1>5, FrontOfAppend DEF IInv, TypeOK, TyperTypeOK
<1> QED  BY <1>2, <1>3, <1>5, <1>6

LEMMA PressBackspaceEffect ==
  ASSUME IInv, PressBackspace
  PROVE  doc' = Front(doc) /\ doc' \in Seq(Char) /\ held' = Backspace
<1>1. held = NoKey /\ doc # <<>>
  BY DEF PressBackspace, Goto, IInv, Idle, WrongIsLast, Holding
<1>2. doc' = Front(doc) /\ held' = Backspace
  BY <1>1, KeyboardAssumption DEF PressBackspace, Press, Edit
<1> QED  BY <1>1, <1>2, AppendOfFront DEF IInv, TypeOK, TyperTypeOK

LEMMA PressCharEffect ==
  ASSUME IInv, PressChar
  PROVE  /\ rest # <<>> /\ Head(rest) \in Mapped
         /\ doc' = Append(doc, Head(rest)) /\ doc' \in Seq(Char)
         /\ wanted' = Append(wanted, Head(rest)) /\ wanted' \in Seq(Mapped)
         /\ held' \in Char
<1>1. rest # <<>> /\ held = NoKey
  BY DEF PressChar, AtCharacter, IInv, Midway, Idle, Typing, Holding
<1>2. Head(rest) \in Char /\ Head(rest) \in Mapped
  BY <1>1, RestParts DEF PressChar, IInv
<1>3. doc' = Append(doc, Head(rest)) /\ held' = Head(rest)
  BY <1>1, <1>2, KeyboardAssumption DEF PressChar, Press, Edit
<1>4. wanted' = Append(wanted, Head(rest))
  BY DEF PressChar
<1> QED  BY <1>1, <1>2, <1>3, <1>4, AppendProperties DEF IInv, TypeOK, TyperTypeOK

-----------------------------------------------------------------------------
\* The invariant of the typer alone, preserved by its steps; main and the
\* other tasks stand still in them.
LEMMA FetchIInv ==
  ASSUME IInv, UNCHANGED <<main, tasks>>,
         Wake \/ StopSeen \/ FetchText \/ FetchEmpty \/ FetchFails \/ BackoffOver
  PROVE  IInv'
<1> USE DEF IInv, TypeOK, TyperTypeOK, Typing, Holding, Midway, Idle, WrongIsLast,
        DeadLinkLifts, InOrder, NeverLost, Moved, Shown, outside, host, tasks, Goto, Sends
<1>1. CASE Wake
  BY <1>1 DEF Wake
<1>2. CASE StopSeen
  BY <1>2 DEF StopSeen
<1>3. CASE FetchText
  <2>1. rest' \in Seq(Char) /\ rest' # <<>>
    BY <1>3, TyperAssumption DEF FetchText
  <2>2. sessions' \in 0 .. MaxSessions
    BY <1>3, TyperAssumption DEF FetchText
  <2> QED  BY <1>3, <2>1, <2>2 DEF FetchText
<1>4. CASE FetchEmpty
  BY <1>4 DEF FetchEmpty
<1>5. CASE FetchFails
  BY <1>5 DEF FetchFails
<1>6. CASE BackoffOver
  BY <1>6 DEF BackoffOver
<1> QED  BY <1>1, <1>2, <1>3, <1>4, <1>5, <1>6

LEMMA PressTypoIInv ==
  ASSUME IInv, UNCHANGED <<main, tasks>>, PressTypo
  PROVE  IInv'
<1>1. /\ rest # <<>> /\ held' \in Char
      /\ doc' \in Seq(Char) /\ doc' # <<>>
      /\ Front(doc') = doc /\ Last(doc') \in Near[Head(rest)]
  BY PressTypoEffect
<1>2. /\ connected /\ pc = "char" /\ pc' = "typoHold"
      /\ UNCHANGED <<usb, sound, rest, wanted, stop, connected, polls, links, sessions>>
      /\ UNCHANGED <<main, jiggler, api, off>>
  BY DEF PressTypo, Goto, outside, tasks, Sends
<1>3. Shown = doc /\ Shown' = doc
  BY <1>1, <1>2 DEF Shown
<1> QED
  BY <1>1, <1>2, <1>3 DEF IInv, TypeOK, TyperTypeOK, Typing, Holding, Midway, Idle,
     WrongIsLast, DeadLinkLifts, InOrder, NeverLost, Moved

LEMMA ReleaseIInv ==
  ASSUME IInv, UNCHANGED <<main, tasks>>,
         ReleaseTypo \/ ReleaseBackspace \/ ReleaseChar
  PROVE  IInv'
BY DEF ReleaseTypo, ReleaseBackspace, ReleaseChar, Release, AllUp, Goto, IInv, TypeOK,
   TyperTypeOK, Typing, Holding, Midway, Idle, WrongIsLast, DeadLinkLifts, InOrder,
   NeverLost, Moved, Shown, outside, tasks, Sends

LEMMA PressBackspaceIInv ==
  ASSUME IInv, UNCHANGED <<main, tasks>>, PressBackspace
  PROVE  IInv'
<1>1. doc' = Front(doc) /\ doc' \in Seq(Char) /\ held' = Backspace
  BY PressBackspaceEffect
<1>2. /\ connected /\ pc = "typoGap" /\ pc' = "bsHold"
      /\ UNCHANGED <<usb, sound, rest, wanted, stop, connected, polls, links, sessions>>
      /\ UNCHANGED <<main, jiggler, api, off>>
  BY DEF PressBackspace, Goto, outside, tasks, Sends
<1>3. Shown' = Shown
  BY <1>1, <1>2 DEF Shown
<1> QED
  BY <1>1, <1>2, <1>3 DEF IInv, TypeOK, TyperTypeOK, Typing, Holding, Midway, Idle,
     WrongIsLast, DeadLinkLifts, InOrder, NeverLost, Moved

LEMMA PressCharIInv ==
  ASSUME IInv, UNCHANGED <<main, tasks>>, PressChar
  PROVE  IInv'
<1>1. /\ rest # <<>>
      /\ doc' = Append(doc, Head(rest)) /\ doc' \in Seq(Char)
      /\ wanted' = Append(wanted, Head(rest)) /\ wanted' \in Seq(Mapped)
      /\ held' \in Char
  BY PressCharEffect
<1>2. /\ connected /\ pc \in {"char", "bsGap"} /\ pc' = "hold"
      /\ UNCHANGED <<usb, sound, rest, stop, connected, polls, links, sessions>>
      /\ UNCHANGED <<main, jiggler, api, off>>
  BY DEF PressChar, AtCharacter, outside, tasks, Sends
<1>3. Shown = doc /\ Shown' = doc'
  BY <1>2 DEF Shown
<1> QED
  BY <1>1, <1>2, <1>3 DEF IInv, TypeOK, TyperTypeOK, Typing, Holding, Midway, Idle,
     WrongIsLast, DeadLinkLifts, InOrder, NeverLost, Moved

LEMMA SkipNextIInv ==
  ASSUME IInv, UNCHANGED <<main, tasks>>, SkipChar \/ NextChar
  PROVE  IInv'
<1> USE DEF IInv, TypeOK, TyperTypeOK, Typing, Holding, Midway, Idle, WrongIsLast,
        DeadLinkLifts, InOrder, NeverLost, Moved, Shown, outside, host, tasks
<1>1. CASE SkipChar
  BY <1>1 DEF SkipChar, AtCharacter
<1>2. CASE NextChar
  <2>1. pc = "gap" /\ rest # <<>>
    BY <1>2 DEF NextChar
  <2>2. rest' \in Seq(Char)
    BY <1>2, <2>1, RestParts DEF NextChar
  <2> QED  BY <1>2, <2>1, <2>2 DEF NextChar
<1> QED  BY <1>1, <1>2

\* A text is dropped before a character, because the link is gone, or with
\* the task.
LEMMA DropIInv ==
  ASSUME IInv, main # "exited", UNCHANGED <<main, tasks>>,
         StopBetween \/ SendFails \/ Panics
  PROVE  IInv'
<1> USE DEF IInv, TypeOK, TyperTypeOK, Typing, Holding, Midway, Idle, WrongIsLast,
        DeadLinkLifts, InOrder, NeverLost, Moved, Shown, outside, host, tasks, Goto, Sends
<1>1. CASE StopBetween
  BY <1>1, EmptySeq DEF StopBetween
<1>2. CASE SendFails
  <2>1. held = NoKey /\ links # 0
    BY <1>2 DEF SendFails
  <2>2. pc \in Typing
    BY <1>2 DEF SendFails, AtCharacter
  <2> QED  BY <1>2, <2>1, <2>2, EmptySeq DEF SendFails
<1>3. CASE Panics
  <2>1. held = NoKey /\ ~sound
    BY <1>3 DEF Panics
  <2> QED  BY <1>3, <2>1, EmptySeq DEF Panics
<1> QED  BY <1>1, <1>2, <1>3

LEMMA TypeTextIInv == ASSUME IInv, TypeText PROVE IInv'
<1> USE DEF TypeText
<1>1. main # "exited" /\ UNCHANGED <<main, tasks>>
  OBVIOUS
<1> QED
  BY <1>1, FetchIInv, PressTypoIInv, ReleaseIInv, PressBackspaceIInv, PressCharIInv,
     SkipNextIInv, DropIInv DEF TyperStep

-----------------------------------------------------------------------------
\* The steps of the link, of the other tasks and of main.
LEMMA LinkIInv == ASSUME IInv, Link PROVE IInv'
<1> USE DEF IInv, TypeOK, TyperTypeOK, Midway, Idle, WrongIsLast, DeadLinkLifts, InOrder,
        NeverLost, Moved, Shown, host, tasks
<1>1. CASE LinkLost
  <2>1. links' = links + 1 /\ links \in Nat /\ links < MaxLinks
    BY <1>1 DEF LinkLost
  <2>2. links' \in 0 .. MaxLinks /\ links' # 0
    BY <2>1, TyperAssumption
  <2>3. /\ connected' = FALSE /\ doc' = doc /\ held' = NoKey
        /\ UNCHANGED <<usb, sound, pc, rest, wanted, stop, sessions>> /\ polls' = TRUE
        /\ UNCHANGED <<main, jiggler, api, off>>
    BY <1>1 DEF LinkLost, AllUp, Link
  <2>4. TypeOK'
    BY <2>2, <2>3
  <2>5. Midway' /\ Idle' /\ WrongIsLast' /\ DeadLinkLifts' /\ Moved'
    BY <2>3
  <2>6. InOrder' /\ NeverLost'
    BY <2>2, <2>3
  <2> QED  BY <2>4, <2>5, <2>6
<1>2. CASE LinkRestored
  BY <1>2 DEF LinkRestored, Link
<1>3. CASE HostSleeps \/ HostWakes
  <2>1. UNCHANGED <<usb, sound, pc, rest, wanted, stop, connected, sessions, links, doc, held>>
    BY <1>3 DEF HostSleeps, HostWakes
  <2>2. polls' \in BOOLEAN /\ UNCHANGED <<main, jiggler, api, off>>
    BY <1>3 DEF HostSleeps, HostWakes, Link
  <2> QED  BY <2>1, <2>2
<1> QED  BY <1>1, <1>2, <1>3 DEF Link

LEMMA OthersIInv == ASSUME IInv, Jiggle \/ Serve PROVE IInv'
<1> USE DEF IInv, TypeOK, InOrder
<1>1. TyperTypeOK' /\ Midway' /\ Idle' /\ WrongIsLast' /\ DeadLinkLifts'
  BY DEF Jiggle, Serve, JiggleOut, JiggleBack, JigglerPanics, JigglerStops, ApiBinds,
     ApiFails, typer, TyperTypeOK, Midway, Idle, WrongIsLast, DeadLinkLifts
<1>2. UNCHANGED <<main, pc, sound, links, connected, wanted, Shown>>
  BY DEF Jiggle, Serve, JiggleOut, JiggleBack, JigglerPanics, JigglerStops, ApiBinds,
     ApiFails, typer, Shown
<1>3. CASE JiggleOut
  BY <1>1, <1>2, <1>3 DEF JiggleOut, NeverLost, Moved, TyperTypeOK
<1>4. CASE JiggleBack
  <2>1. connected \in BOOLEAN /\ main # "exited"
    BY <1>4 DEF TyperTypeOK, JiggleBack
  <2> QED  BY <1>1, <1>2, <1>4, <2>1 DEF JiggleBack, NeverLost, Moved
<1>5. CASE JigglerPanics \/ JigglerStops
  BY <1>1, <1>2, <1>5 DEF JigglerPanics, JigglerStops, NeverLost, Moved
<1>6. CASE Serve
  BY <1>1, <1>2, <1>6 DEF Serve, ApiBinds, ApiFails, NeverLost, Moved
<1> QED  BY <1>3, <1>4, <1>5, <1>6 DEF Jiggle

LEMMA MainIInv == ASSUME IInv, CtrlC \/ Finish PROVE IInv'
<1> USE DEF IInv, TypeOK, TyperTypeOK, Midway, Idle, WrongIsLast, DeadLinkLifts, InOrder,
        NeverLost, Moved, Shown, typer, tasks, GotoMain
<1>1. CASE CtrlC
  BY <1>1 DEF CtrlC, host
<1>2. CASE JigglerJoined
  BY <1>2 DEF JigglerJoined
<1>3. CASE TyperJoined
  BY <1>3 DEF TyperJoined
<1>4. CASE ApiJoined
  BY <1>4 DEF ApiJoined
<1>5. CASE Disconnect
  <2>1. pc = "ended" /\ held = NoKey
    BY <1>5 DEF Disconnect, Holding
  <2>2. UNCHANGED <<doc, held>>
    BY <1>5, <2>1 DEF Disconnect, AllUp, host
  <2> QED  BY <1>5, <2>1, <2>2 DEF Disconnect
<1> QED  BY <1>1, <1>2, <1>3, <1>4, <1>5 DEF Finish

LEMMA Invariance == Spec => []IInv
<1>1. IInv /\ [Next]_vars => IInv'
  <2> SUFFICES ASSUME IInv, [Next]_vars PROVE IInv'
    OBVIOUS
  <2>1. CASE UNCHANGED vars
    BY <2>1 DEF vars, typer, IInv, TypeOK, TyperTypeOK, Midway, Idle, WrongIsLast,
       DeadLinkLifts, InOrder, NeverLost, Moved, Shown
  <2> QED  BY <2>1, TypeTextIInv, LinkIInv, OthersIInv, MainIInv DEF Next
<1> QED  BY <1>1, InitIInv, PTL DEF Spec

\* Type correctness of the Rust daemon.
THEOREM TypeCorrect == Spec => []TypeOK
<1>1. IInv => TypeOK
  BY DEF IInv
<1> QED  BY <1>1, Invariance, PTL

\* main.rs:161: however Ctrl+C falls between the reports of the two tasks, if
\* the link never went no key is down at the end and the pointer is back, and
\* unless a range of the configuration is empty the document is what was to
\* be typed.
THEOREM LeavesHostTidyHolds == Spec => []LeavesHostTidy
<1>1. IInv => LeavesHostTidy
  <2> SUFFICES ASSUME IInv, main = "exited", links = 0
               PROVE  held = NoKey /\ off = 0 /\ (sound => doc = wanted)
    BY DEF LeavesHostTidy
  <2>1. pc = "ended" /\ jiggler = "ended"
    BY DEF IInv, InOrder
  <2> QED  BY <2>1 DEF IInv, Idle, Holding, NeverLost, Shown
<1> QED  BY <1>1, Invariance, PTL

-----------------------------------------------------------------------------
\* The refinement: what each step does to Shown and Remaining.
LEMMA FetchRefines ==
  ASSUME IInv,
         Wake \/ StopSeen \/ FetchText \/ FetchEmpty \/ FetchFails \/ BackoffOver
  PROVE  [Session!Next]_<<Shown, Remaining>>
BY DEF IInv, Midway, Typing, Holding, Wake, StopSeen, FetchText, FetchEmpty, FetchFails,
   BackoffOver, Goto, host, Shown, Remaining, Session!Next, Session!Begin

LEMMA CorrectionRefines ==
  ASSUME IInv, \/ PressTypo \/ PressBackspace
               \/ ReleaseTypo \/ ReleaseBackspace \/ ReleaseChar
  PROVE  UNCHANGED <<Shown, Remaining>>
<1>1. CASE PressTypo
  BY <1>1, PressTypoEffect DEF PressTypo, Goto, Shown, Remaining
<1>2. CASE PressBackspace
  BY <1>2, PressBackspaceEffect DEF PressBackspace, Goto, Shown, Remaining
<1>3. CASE ReleaseTypo \/ ReleaseBackspace \/ ReleaseChar
  BY <1>3 DEF ReleaseTypo, ReleaseBackspace, ReleaseChar, Release, AllUp, Goto, Shown,
     Remaining
<1> QED  BY <1>1, <1>2, <1>3

LEMMA CharacterRefines ==
  ASSUME IInv, PressChar \/ SkipChar \/ NextChar
  PROVE  [Session!Next]_<<Shown, Remaining>>
<1>1. CASE PressChar
  <2>1. Shown = doc /\ Shown' = doc' /\ Remaining = rest /\ Remaining' = Tail(rest)
    BY <1>1 DEF PressChar, AtCharacter, Shown, Remaining
  <2> QED  BY <1>1, <2>1, PressCharEffect DEF Session!Next, Session!Type
<1>2. CASE SkipChar
  <2>1. rest # <<>> /\ Head(rest) \notin Mapped
    BY <1>2 DEF SkipChar, AtCharacter, IInv, Midway, Typing
  <2>2. Shown = doc /\ Shown' = doc /\ Remaining = rest /\ Remaining' = Tail(rest)
    BY <1>2 DEF SkipChar, AtCharacter, Shown, Remaining, host
  <2> QED  BY <2>1, <2>2 DEF Session!Next, Session!Type
<1>3. CASE NextChar
  BY <1>3 DEF NextChar, Shown, Remaining, host
<1> QED  BY <1>1, <1>2, <1>3

\* Giving up in the middle of a typo leaves the wrong character; after the
\* last character it is no giving up at all.
LEMMA DropRefines ==
  ASSUME IInv, StopBetween \/ SendFails \/ Panics
  PROVE  [Session!Next]_<<Shown, Remaining>>
<1> USE DEF IInv
<1>1. doc' = doc /\ rest' = <<>> /\ pc' \in {"wait", "ended"}
  BY DEF StopBetween, SendFails, Panics, Goto, host
<1>2. Shown' = doc /\ Remaining' = <<>>
  BY <1>1 DEF Shown, Remaining
<1>3. CASE pc \in {"typoHold", "typoGap"}
  <2>1. /\ rest # <<>> /\ Remaining = rest /\ Shown = Front(doc)
        /\ doc # <<>> /\ Last(doc) \in Near[Head(rest)]
    BY <1>3 DEF Midway, Typing, Holding, WrongIsLast, Shown, Remaining
  <2>2. doc = Append(Shown, Last(doc))
    BY <2>1, AppendOfFront DEF TypeOK, TyperTypeOK
  <2> QED  BY <1>2, <2>1, <2>2 DEF Session!Next, Session!GiveUp
<1>4. CASE pc \notin {"typoHold", "typoGap"}
  <2>1. Shown = doc
    BY <1>4 DEF Shown
  <2> QED  BY <1>2, <2>1 DEF Session!Next, Session!GiveUp
<1> QED  BY <1>3, <1>4

LEMMA OthersRefine ==
  ASSUME IInv, Link \/ Jiggle \/ Serve \/ CtrlC \/ Finish
  PROVE  UNCHANGED <<Shown, Remaining>>
<1>1. UNCHANGED <<pc, rest, doc>>
  BY DEF Link, LinkLost, LinkRestored, HostSleeps, HostWakes, Jiggle, JiggleOut, JiggleBack, JigglerPanics,
     JigglerStops, Serve, ApiBinds, ApiFails, CtrlC, Finish, JigglerJoined, TyperJoined,
     ApiJoined, Disconnect, AllUp, typer, host
<1> QED  BY <1>1 DEF Shown, Remaining

\* The Rust typer, with its typos, its stop channel, its panics and a link
\* that goes and comes back, implements TypingSession: the text of a session reaches the
\* document in order and exactly once.
THEOREM TypesTheTextHolds == Spec => TypesTheText
<1>1. Init => Session!Init
  BY DEF Init, TyperInit, Session!Init, Shown, Remaining
<1>2. IInv /\ [Next]_vars => [Session!Next]_<<Shown, Remaining>>
  <2> SUFFICES ASSUME IInv, [Next]_vars
               PROVE  [Session!Next]_<<Shown, Remaining>>
    OBVIOUS
  <2>1. CASE TypeText
    BY <2>1, FetchRefines, CorrectionRefines, CharacterRefines, DropRefines
    DEF TypeText, TyperStep
  <2>2. CASE UNCHANGED vars
    BY <2>2 DEF vars, typer, Shown, Remaining
  <2> QED  BY <2>1, <2>2, OthersRefine DEF Next
<1> QED  BY <1>1, <1>2, Invariance, PTL DEF Spec, TypesTheText, Session!Spec, Session!vars
=============================================================================
