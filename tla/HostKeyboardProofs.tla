-------------------------- MODULE HostKeyboardProofs --------------------------
(***************************************************************************)
(* What the proofs about the typers need to know of the host: a document   *)
(* is edited at its end, by one character and back.                        *)
(***************************************************************************)
EXTENDS HostKeyboard, SequenceTheorems, TLAPS

\* Front undoes Append, and Last returns what was appended.
LEMMA FrontOfAppend ==
  ASSUME NEW S, NEW s \in Seq(S), NEW x \in S
  PROVE  /\ Append(s, x) \in Seq(S) /\ Append(s, x) # <<>>
         /\ Front(Append(s, x)) = s
         /\ Last(Append(s, x)) = x
<1>1. Append(s, x) \in Seq(S) /\ Len(Append(s, x)) = Len(s) + 1
  BY AppendProperties
<1>2. Front(Append(s, x)) = s
  BY <1>1, SubSeqProperties, AppendProperties, SeqEqual DEF Front
<1> QED  BY <1>1, <1>2 DEF Last

\* A non-empty sequence is its Front with its Last appended.
LEMMA AppendOfFront ==
  ASSUME NEW S, NEW s \in Seq(S), s # <<>>
  PROVE  /\ Front(s) \in Seq(S)
         /\ Last(s) \in S
         /\ Append(Front(s), Last(s)) = s
<1>1. Len(s) \in Nat \ {0}
  BY EmptySeq
<1>2. /\ Front(s) \in Seq(S) /\ Len(Front(s)) = Len(s) - 1
      /\ \A i \in 1 .. Len(s) - 1 : Front(s)[i] = s[i]
  <2> DEFINE n == Len(s) - 1
  <2>1. n \in Nat
    BY <1>1
  <2>2. \A i \in 1 .. n : s[i] \in S
    BY <1>1, ElementOfSeq
  <2> HIDE DEF n
  <2>3. /\ SubSeq(s, 1, n) \in Seq(S)
        /\ Len(SubSeq(s, 1, n)) = IF 1 <= n THEN n - 1 + 1 ELSE 0
        /\ \A i \in 1 .. n - 1 + 1 : SubSeq(s, 1, n)[i] = s[1 + i - 1]
    BY <2>1, <2>2, SubSeqProperties
  <2>4. Len(SubSeq(s, 1, n)) = n /\ \A i \in 1 .. n : SubSeq(s, 1, n)[i] = s[i]
    BY <2>1, <2>3
  <2> QED  BY <2>3, <2>4 DEF Front, n
<1>3. Last(s) \in S
  BY <1>1, ElementOfSeq DEF Last
<1>4. Append(Front(s), Last(s)) = s
  <2>2. /\ Append(Front(s), Last(s)) \in Seq(S)
        /\ Len(Append(Front(s), Last(s))) = Len(s)
    BY <1>1, <1>2, <1>3, AppendProperties
  <2>3. ASSUME NEW i \in 1 .. Len(s)
        PROVE  Append(Front(s), Last(s))[i] = s[i]
    BY <1>1, <1>2, <1>3, AppendProperties DEF Last
  <2> QED  BY <2>2, <2>3, SeqEqual
<1> QED  BY <1>2, <1>3, <1>4

\* Pressing a key that is up edits the document with it.
LEMMA PressKeepsTypes ==
  ASSUME doc \in Seq(Char), held \in Char \cup {NoKey, Backspace},
         NEW k \in Char \cup {Backspace}, Press(k)
  PROVE  /\ doc' \in Seq(Char)
         /\ held' \in Char \cup {NoKey, Backspace}
         /\ held # k => doc' = Edit(k)
<1>1. Edit(k) \in Seq(Char)
  <2>1. CASE k = Backspace /\ doc # <<>>
    BY <2>1, AppendOfFront DEF Edit
  <2>2. CASE k = Backspace /\ doc = <<>>
    BY <2>2 DEF Edit
  <2>3. CASE k # Backspace
    BY <2>3 DEF Edit
  <2> QED  BY <2>1, <2>2, <2>3
<1> QED  BY <1>1 DEF Press
=============================================================================
