---------------------------- MODULE PyTyperProofs ----------------------------
(***************************************************************************)
(* For every alphabet, keymap, set of texts and bound, and whichever       *)
(* reports the device refuses: no key is down between keystrokes but one   *)
(* whose release was refused (IdleReleased), and the engine implements     *)
(* TypingSession (TypesTheText), whatever the order of reports, typos,     *)
(* lost links, failed writes, retries and the shutdown, except for a text  *)
(* that begins with the key that is still down.                            *)
(*                                                                         *)
(* TypesTheText needs to know that the wrong character of a typo is the    *)
(* last of the document until it is corrected (WrongIsLast).  A press of a *)
(* key that is still down is what the history swallowed records.           *)
(***************************************************************************)
EXTENDS PyTyper, HostKeyboardProofs

Midway ==
  /\ pc \in Typing => rest # <<>>
  /\ pc \notin Typing => rest = <<>>

Retrying == pc = "retry" => attempt < MaxAttempts

WrongIsLast ==
  ~swallowed /\ pc \in {"typoHold", "typoGap"} =>
    /\ doc # <<>>
    /\ Last(doc) \in Near[Head(rest)]

\* A host without a link holds no key.
DeadLinkLifts == ~connected => held = NoKey

IInv == TypeOK /\ Midway /\ Retrying /\ IdleReleased /\ WrongIsLast /\ DeadLinkLifts

-----------------------------------------------------------------------------
\* The head and the tail of what is still to be typed.
LEMMA RestParts ==
  ASSUME TypeOK, rest # <<>>
  PROVE  Head(rest) \in Char /\ Tail(rest) \in Seq(Char)
BY HeadTailProperties DEF TypeOK

\* A key goes down; unless it was down before, the document is edited with it.
LEMMA DownEffect ==
  ASSUME TypeOK, NEW k \in Char \cup {Backspace}, Down(k)
  PROVE  /\ doc' \in Seq(Char)
         /\ held' \in Char \cup {NoKey, Backspace}
         /\ refused' = FALSE /\ swallowed' \in BOOLEAN
         /\ ~swallowed' => ~swallowed /\ doc' = Edit(k)
<1>1. Press(k) /\ refused' = FALSE /\ swallowed' = (swallowed \/ held = k)
  BY DEF Down
<1> QED  BY <1>1, PressKeepsTypes DEF TypeOK

LEMMA InitIInv == Init => IInv
<1> SUFFICES ASSUME Init PROVE IInv
  OBVIOUS
<1>1. TypeOK
  <2>1. <<>> \in Seq(Char)
    OBVIOUS
  <2>2. 0 \in 0 .. MaxAttempts /\ 0 \in 0 .. MaxSessions /\ 0 \in 0 .. MaxLinks
    BY TyperAssumption
  <2>3. refused \in BOOLEAN /\ swallowed \in BOOLEAN /\ connected \in BOOLEAN
    BY DEF Init
  <2> QED  BY <2>1, <2>2, <2>3 DEF Init, TypeOK, Places
<1>2. Midway /\ Retrying /\ IdleReleased /\ WrongIsLast /\ DeadLinkLifts
  BY DEF Init, Typing, Holding, Midway, Retrying, IdleReleased, WrongIsLast, DeadLinkLifts
<1> QED  BY <1>1, <1>2 DEF IInv

-----------------------------------------------------------------------------
\* Each lemma below is the step of one group of actions.
LEMMA FetchIInv ==
  ASSUME IInv, Wake \/ FetchText \/ FetchEmpty \/ FetchFails \/ Retry
  PROVE  IInv'
<1> USE DEF IInv, TypeOK, Places, Typing, Holding, Midway, Retrying, IdleReleased,
        WrongIsLast, DeadLinkLifts, link, host, history, Goto
<1>1. CASE Wake
  BY <1>1, TyperAssumption DEF Wake
<1>2. CASE FetchText
  <2>1. rest' \in Seq(Char) /\ rest' # <<>>
    BY <1>2, TyperAssumption DEF FetchText
  <2>2. /\ pc = "fetch" /\ pc' = "char" /\ swallowed' = FALSE
        /\ UNCHANGED <<attempt, connected, links, doc, held, refused>>
    BY <1>2 DEF FetchText
  <2>3. sessions' \in 0 .. MaxSessions
    BY <1>2, TyperAssumption DEF FetchText
  <2>4. TypeOK'
    BY <2>1, <2>2, <2>3
  <2>5. Midway' /\ Retrying' /\ IdleReleased' /\ WrongIsLast' /\ DeadLinkLifts'
    BY <2>1, <2>2
  <2> QED  BY <2>4, <2>5
<1>3. CASE FetchEmpty
  BY <1>3 DEF FetchEmpty
<1>4. CASE FetchFails
  BY <1>4 DEF FetchFails
<1>5. CASE Retry
  BY <1>5, TyperAssumption DEF Retry
<1> QED  BY <1>1, <1>2, <1>3, <1>4, <1>5

LEMMA PressTypoEffect ==
  ASSUME IInv, PressTypo, ~swallowed'
  PROVE  /\ ~swallowed /\ doc' \in Seq(Char) /\ doc' # <<>>
         /\ Front(doc') = doc /\ Last(doc') \in Near[Head(rest)]
<1>1. PICK wrong \in Near[Head(rest)] : Down(wrong)
  BY DEF PressTypo
<1>2. rest # <<>>
  BY DEF PressTypo, Goto, IInv, Midway, Typing, Holding
<1>3. wrong \in Char /\ wrong # Backspace
  BY <1>2, RestParts, KeyboardAssumption DEF IInv
<1>4. ~swallowed /\ doc' = Append(doc, wrong)
  BY <1>1, <1>3, DownEffect DEF Edit, IInv
<1> QED  BY <1>3, <1>4, FrontOfAppend DEF IInv, TypeOK

LEMMA PressTypoIInv == ASSUME IInv, PressTypo PROVE IInv'
<1>1. PICK wrong \in Near[Head(rest)] : Down(wrong)
  BY DEF PressTypo
<1>2. rest # <<>>
  BY DEF PressTypo, Goto, IInv, Midway, Typing, Holding
<1>3. wrong \in Char
  BY <1>2, RestParts, KeyboardAssumption DEF IInv
<1>4. /\ doc' \in Seq(Char) /\ held' \in Char \cup {NoKey, Backspace}
      /\ refused' = FALSE /\ swallowed' \in BOOLEAN
  BY <1>1, <1>3, DownEffect DEF IInv
<1>5. /\ connected /\ pc' = "typoHold"
      /\ UNCHANGED <<attempt, rest, sessions, connected, links>>
  BY DEF PressTypo, Goto, link
<1>6. WrongIsLast'
  BY <1>5, PressTypoEffect DEF WrongIsLast
<1> QED
  BY <1>2, <1>4, <1>5, <1>6 DEF IInv, TypeOK, Places, Typing, Holding, Midway,
     Retrying, IdleReleased, DeadLinkLifts

LEMMA ReleaseIInv ==
  ASSUME IInv, ReleaseTypo \/ ReleaseBackspace \/ ReleaseChar
  PROVE  IInv'
BY DEF ReleaseTypo, ReleaseBackspace, ReleaseChar, Release, Up, AllUp, Goto, IInv, TypeOK,
   Places, Typing, Holding, Midway, Retrying, IdleReleased, WrongIsLast, DeadLinkLifts, link

LEMMA PressBackspaceIInv == ASSUME IInv, PressBackspace PROVE IInv'
<1> USE DEF IInv
<1>1. Down(Backspace)
  BY DEF PressBackspace
<1>2. /\ doc' \in Seq(Char) /\ held' \in Char \cup {NoKey, Backspace}
      /\ refused' = FALSE /\ swallowed' \in BOOLEAN
  BY <1>1, DownEffect
<1>3. /\ connected /\ pc = "typoGap" /\ pc' = "bsHold"
      /\ UNCHANGED <<attempt, rest, sessions, connected, links>>
  BY DEF PressBackspace, Goto, link
<1> QED
  BY <1>2, <1>3 DEF TypeOK, Places, Typing, Holding, Midway, Retrying, IdleReleased,
     WrongIsLast, DeadLinkLifts

LEMMA PressCharIInv == ASSUME IInv, PressChar PROVE IInv'
<1> USE DEF IInv
<1>1. Down(Head(rest)) /\ Head(rest) \in Char
  BY KeyboardAssumption DEF PressChar
<1>2. /\ doc' \in Seq(Char) /\ held' \in Char \cup {NoKey, Backspace}
      /\ refused' = FALSE /\ swallowed' \in BOOLEAN
  BY <1>1, DownEffect
<1>3. /\ connected /\ pc \in {"char", "bsGap"} /\ pc' = "hold"
      /\ UNCHANGED <<attempt, rest, sessions, connected, links>>
  BY DEF PressChar, link
<1> QED
  BY <1>2, <1>3 DEF TypeOK, Places, Typing, Holding, Midway, Retrying, IdleReleased,
     WrongIsLast, DeadLinkLifts

LEMMA SkipNextIInv == ASSUME IInv, SkipChar \/ NextChar PROVE IInv'
<1> USE DEF IInv, TypeOK, Places, Typing, Holding, Midway, Retrying, IdleReleased,
        WrongIsLast, DeadLinkLifts, link, host, history
<1>1. CASE SkipChar
  BY <1>1 DEF SkipChar
<1>2. CASE NextChar
  <2>1. pc = "gap" /\ rest # <<>>
    BY <1>2 DEF NextChar
  <2>2. rest' \in Seq(Char)
    BY <1>2, <2>1, RestParts DEF NextChar
  <2> QED  BY <1>2, <2>1, <2>2 DEF NextChar
<1> QED  BY <1>1, <1>2

\* The only step that can leave a key down is a refused release.
LEMMA SendRaisesIInv ==
  ASSUME IInv, SendRaises
  PROVE  IInv'
<1>1. held # NoKey => refused'
  BY DEF SendRaises, IInv, IdleReleased, Holding, DeadLinkLifts
<1> QED
  BY <1>1, EmptySeq DEF SendRaises, IInv, TypeOK, Places, Typing, Holding, Midway,
     Retrying, IdleReleased, WrongIsLast, DeadLinkLifts, link, host, history

LEMMA EndIInv == ASSUME IInv, Cancel \/ Disconnect PROVE IInv'
BY EmptySeq DEF Cancel, Disconnect, Up, AllUp, IInv, TypeOK, Places, Typing, Holding,
   Midway, Retrying, IdleReleased, WrongIsLast, DeadLinkLifts, link, host, history

LEMMA LinkIInv == ASSUME IInv, LinkLost \/ LinkRestored PROVE IInv'
<1> USE DEF IInv, TypeOK, Midway, Retrying, IdleReleased, WrongIsLast, DeadLinkLifts
<1>1. CASE LinkLost
  <2>1. /\ links' = links + 1 /\ links < MaxLinks /\ connected' = FALSE
        /\ doc' = doc /\ held' = NoKey /\ refused' = FALSE
        /\ UNCHANGED <<pc, attempt, rest, sessions, swallowed>>
    BY <1>1 DEF LinkLost, Up, AllUp
  <2>2. links' \in 0 .. MaxLinks
    BY <2>1, TyperAssumption
  <2>3. TypeOK'
    BY <2>1, <2>2
  <2>4. Midway' /\ Retrying' /\ WrongIsLast'
    BY <2>1
  <2>5. IdleReleased' /\ DeadLinkLifts'
    BY <2>1
  <2> QED  BY <2>3, <2>4, <2>5
<1>2. CASE LinkRestored
  <2>1. connected' = TRUE /\ UNCHANGED <<pc, attempt, rest, sessions, links, doc, held, history>>
    BY <1>2 DEF LinkRestored, host
  <2> QED  BY <2>1 DEF history
<1> QED  BY <1>1, <1>2

LEMMA StepIInv == IInv /\ [Next]_vars => IInv'
<1> SUFFICES ASSUME IInv, [Next]_vars PROVE IInv'
  OBVIOUS
<1>1. CASE TyperStep
  BY <1>1, FetchIInv, PressTypoIInv, ReleaseIInv, PressBackspaceIInv, PressCharIInv,
     SkipNextIInv, SendRaisesIInv DEF TyperStep
<1>2. CASE UNCHANGED vars
  BY <1>2 DEF vars, history, IInv, TypeOK, Midway, Retrying, IdleReleased, WrongIsLast,
     DeadLinkLifts
<1> QED  BY <1>1, <1>2, EndIInv, LinkIInv DEF Next

LEMMA Invariance == Spec => []IInv
BY InitIInv, StepIInv, PTL DEF Spec

\* Type correctness of the typing engine.
THEOREM TypeCorrect == Spec => []TypeOK
<1>1. IInv => TypeOK
  BY DEF IInv
<1> QED  BY <1>1, Invariance, PTL

\* typer.py:105: no key stays down between keystrokes or between sessions but
\* one whose release the device refused, and that only until a report gets
\* through or the link goes.
THEOREM IdleReleasedHolds == Spec => []IdleReleased
<1>1. IInv => IdleReleased
  BY DEF IInv
<1> QED  BY <1>1, Invariance, PTL

-----------------------------------------------------------------------------
\* The refinement: what each step does to Shown and Remaining.
LEMMA FetchRefines ==
  ASSUME IInv, Wake \/ FetchText \/ FetchEmpty \/ FetchFails \/ Retry
  PROVE  [Session!Next]_<<Shown, Remaining>>
BY DEF IInv, Midway, Typing, Holding, Wake, FetchText, FetchEmpty, FetchFails, Retry,
   Goto, host, Shown, Remaining, Session!Next, Session!Begin

LEMMA PressTypoRefines ==
  ASSUME IInv, PressTypo, ~swallowed' PROVE UNCHANGED <<Shown, Remaining>>
BY PressTypoEffect DEF PressTypo, Goto, Shown, Remaining

LEMMA ReleaseRefines ==
  ASSUME IInv, ReleaseTypo \/ ReleaseBackspace \/ ReleaseChar
  PROVE  UNCHANGED <<Shown, Remaining>>
BY DEF ReleaseTypo, ReleaseBackspace, ReleaseChar, Release, Up, AllUp, Goto, Shown, Remaining

LEMMA PressBackspaceRefines ==
  ASSUME IInv, PressBackspace, ~swallowed' PROVE UNCHANGED <<Shown, Remaining>>
<1>1. Down(Backspace)
  BY DEF PressBackspace
<1>2. ~swallowed /\ doc' = Edit(Backspace)
  BY <1>1, DownEffect DEF IInv
<1>3. doc # <<>>
  BY <1>2 DEF PressBackspace, Goto, IInv, WrongIsLast
<1>4. doc' = Front(doc)
  BY <1>2, <1>3 DEF Edit
<1> QED  BY <1>4 DEF PressBackspace, Goto, Shown, Remaining

LEMMA PressCharRefines ==
  ASSUME IInv, PressChar, ~swallowed' PROVE [Session!Next]_<<Shown, Remaining>>
<1>1. rest # <<>> /\ Down(Head(rest))
  BY DEF PressChar, IInv, Midway, Typing, Holding
<1>2. Head(rest) \in Char /\ Head(rest) \in Mapped
  BY <1>1, RestParts DEF PressChar, IInv
<1>3. doc' = Append(doc, Head(rest))
  BY <1>1, <1>2, DownEffect, KeyboardAssumption DEF Edit, IInv
<1>4. Shown' = doc' /\ Shown = doc /\ Remaining = rest /\ Remaining' = Tail(rest)
  BY DEF PressChar, Shown, Remaining
<1> QED  BY <1>1, <1>2, <1>3, <1>4 DEF Session!Next, Session!Type

LEMMA SkipNextRefines ==
  ASSUME IInv, SkipChar \/ NextChar PROVE [Session!Next]_<<Shown, Remaining>>
<1>1. CASE SkipChar
  <2>1. rest # <<>> /\ Head(rest) \notin Mapped
    BY <1>1 DEF SkipChar, IInv, Midway, Typing
  <2>2. Shown' = doc /\ Shown = doc /\ Remaining = rest /\ Remaining' = Tail(rest)
    BY <1>1 DEF SkipChar, Shown, Remaining, host
  <2> QED  BY <2>1, <2>2 DEF Session!Next, Session!Type
<1>2. CASE NextChar
  BY <1>2 DEF NextChar, Shown, Remaining, host
<1> QED  BY <1>1, <1>2

\* Giving up in the middle of a typo leaves the wrong character; after the
\* last character it is no giving up at all.
LEMMA GiveUpRefines ==
  ASSUME IInv, SendRaises \/ Cancel, ~swallowed'
  PROVE  [Session!Next]_<<Shown, Remaining>>
<1> USE DEF IInv
<1>1. /\ doc' = doc /\ rest' = <<>>
      /\ pc' \in {"sleep", "stopped"} /\ ~swallowed
  BY DEF SendRaises, Cancel, host, history
<1>2. Shown' = doc /\ Remaining' = <<>>
  BY <1>1 DEF Shown, Remaining
<1>3. CASE pc \in {"typoHold", "typoGap"}
  <2>1. /\ rest # <<>> /\ Remaining = rest /\ Shown = Front(doc)
        /\ Last(doc) \in Near[Head(rest)]
        /\ doc # <<>>
    BY <1>1, <1>3 DEF Midway, Typing, Holding, WrongIsLast, Shown, Remaining
  <2>2. doc = Append(Shown, Last(doc))
    BY <2>1, AppendOfFront DEF TypeOK
  <2> QED  BY <1>2, <2>1, <2>2 DEF Session!Next, Session!GiveUp
<1>4. CASE pc \notin {"typoHold", "typoGap"}
  <2>1. Shown = doc
    BY <1>4 DEF Shown
  <2> QED  BY <1>2, <2>1 DEF Session!Next, Session!GiveUp
<1> QED  BY <1>3, <1>4

LEMMA LinkRefines ==
  ASSUME IInv, Disconnect \/ LinkLost \/ LinkRestored
  PROVE  UNCHANGED <<Shown, Remaining>>
BY DEF Disconnect, LinkLost, LinkRestored, Up, AllUp, host, Shown, Remaining

\* The engine with its typos, retries, refused reports, lost links and shutdown
\* implements TypingSession: a text reaches the document in order and each
\* character exactly once, unless it begins with a key that is still down.
THEOREM TypesTheTextHolds == Spec => TypesTheText
<1>1. Init => Session!Init
  BY DEF Init, Session!Init, Shown, Remaining
<1>2. IInv /\ [Next]_vars => [~swallowed' => Session!Next]_<<Shown, Remaining>>
  <2> SUFFICES ASSUME IInv, [Next]_vars, ~swallowed'
               PROVE  [Session!Next]_<<Shown, Remaining>>
    OBVIOUS
  <2>1. CASE TyperStep
    BY <2>1, FetchRefines, PressTypoRefines, ReleaseRefines, PressBackspaceRefines,
       PressCharRefines, SkipNextRefines, GiveUpRefines DEF TyperStep
  <2>2. CASE UNCHANGED vars
    BY <2>2 DEF vars, Shown, Remaining
  <2> QED  BY <2>1, <2>2, GiveUpRefines, LinkRefines DEF Next
<1> QED  BY <1>1, <1>2, Invariance, PTL DEF Spec, TypesTheText, Session!vars
=============================================================================
