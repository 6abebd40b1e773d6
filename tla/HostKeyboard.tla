---------------------------- MODULE HostKeyboard ----------------------------
(***************************************************************************)
(* The host at the other end of the HID link, as the typers use it: it     *)
(* turns keyboard reports into edits of the document that has the focus.   *)
(* A report that shows a key down that was up before types that key once;  *)
(* when the link goes, the host lifts every key.  That the host repeats a  *)
(* key that stays down is left out: it matters only if one does.           *)
(*                                                                         *)
(* A character stands for the report the keymap encodes it to: Mapped are  *)
(* the characters that have one, and different characters have different   *)
(* reports.                                                                *)
(***************************************************************************)
EXTENDS Integers, Sequences, SequencesExt

CONSTANTS
  Char,      \* characters of the generated text
  Mapped,    \* those in KEYMAP
  Near,      \* NEARBY_KEYS: the neighbours get_neighbor picks from
  NoKey,     \* no key is down
  Backspace  \* the key of encode_backspace_report

ASSUME KeyboardAssumption ==
  /\ Mapped \subseteq Char
  /\ Near \in [Char -> SUBSET Mapped]
  /\ NoKey \notin Char /\ Backspace \notin Char /\ NoKey # Backspace

VARIABLES
  doc,  \* the text in the focused document
  held  \* the key the host believes is down

Edit(k) == IF k = Backspace
           THEN IF doc = <<>> THEN doc ELSE Front(doc)
           ELSE Append(doc, k)

\* A report with key k down.
Press(k) ==
  /\ doc' = IF held = k THEN doc ELSE Edit(k)
  /\ held' = k

\* An all-zero report, or the end of the link.
AllUp ==
  /\ held' = NoKey
  /\ doc' = doc
=============================================================================
