---------------------------- MODULE TypingSession ----------------------------
(***************************************************************************)
(* What a typing session promises to the document: the characters of the   *)
(* text arrive one by one, in order, each exactly once, and those without  *)
(* a key are left out; a session may be given up half way, and then leaves *)
(* at most one wrong character behind, a neighbour of the one that was     *)
(* next.  How keys go down and up, typos and their corrections, retries    *)
(* and pauses are no part of it.                                           *)
(***************************************************************************)
EXTENDS Sequences

CONSTANTS Char, Mapped, Near, Texts

VARIABLES
  doc,  \* the document
  rest  \* what is still to be typed; empty between sessions

vars == <<doc, rest>>

Init == doc = <<>> /\ rest = <<>>

Begin ==
  /\ rest = <<>>
  /\ rest' \in Texts
  /\ doc' = doc

Type ==
  /\ rest # <<>>
  /\ doc' = IF Head(rest) \in Mapped THEN Append(doc, Head(rest)) ELSE doc
  /\ rest' = Tail(rest)

GiveUp ==
  /\ rest # <<>>
  /\ rest' = <<>>
  /\ doc' = doc \/ \E wrong \in Near[Head(rest)] : doc' = Append(doc, wrong)

Next == Begin \/ Type \/ GiveUp

Spec == Init /\ [][Next]_vars
=============================================================================
