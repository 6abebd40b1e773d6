------------------------------ MODULE CKeymap ------------------------------
(***************************************************************************)
(* The keymap of the C port (c/src/keymap.c): KEYMAP, NEARBY_KEYS and the  *)
(* reports made from them.  Characters are their ASCII codes, and runs of  *)
(* the table that follow the order of ASCII are written as runs.           *)
(***************************************************************************)
EXTENDS Integers, Sequences, Functions

NoModifier == \h00
LeftShift == \h02

Entry(ch, modifier, keycode) == [ch |-> ch, modifier |-> modifier, keycode |-> keycode]

Whitespace == {Entry(32, NoModifier, \h2C), Entry(10, NoModifier, \h28), Entry(9, NoModifier, \h2B)}

Lowercase == {Entry(97 + i, NoModifier, \h04 + i) : i \in 0 .. 25}
Uppercase == {Entry(65 + i, LeftShift, \h04 + i) : i \in 0 .. 25}

Numbers == {Entry(49 + i, NoModifier, \h1E + i) : i \in 0 .. 8} \cup {Entry(48, NoModifier, \h27)}

\* ! @ # $ % ^ & * ( ), the number keys with shift.
NumberSymbols ==
  LET symbols == <<33, 64, 35, 36, 37, 94, 38, 42, 40, 41>>
  IN {Entry(symbols[i], LeftShift, \h1D + i) : i \in DOMAIN symbols}

\* The other keys: their keycode, what they type, and what they type with
\* shift: - _ = + [ { ] } \ | ; : ' " ` ~ , < . > / ?
Punctuation ==
  LET keys == {<<\h2D, 45, 95>>, <<\h2E, 61, 43>>, <<\h2F, 91, 123>>, <<\h30, 93, 125>>,
               <<\h31, 92, 124>>, <<\h33, 59, 58>>, <<\h34, 39, 34>>, <<\h35, 96, 126>>,
               <<\h36, 44, 60>>, <<\h37, 46, 62>>, <<\h38, 47, 63>>}
  IN {Entry(k[2], NoModifier, k[1]) : k \in keys} \cup {Entry(k[3], LeftShift, k[1]) : k \in keys}

KEYMAP == Whitespace \cup Lowercase \cup Uppercase \cup Numbers \cup NumberSymbols \cup Punctuation

Mapped == {e.ch : e \in KEYMAP}

\* Mutant of char_to_hid_report: the reserved byte is left out.
ReportUnreserved(c) ==
  LET e == CHOOSE f \in KEYMAP : f.ch = c
  IN <<1, e.modifier, e.keycode, 0, 0, 0, 0, 0>>

char_to_hid_report(c) ==
  LET e == CHOOSE f \in KEYMAP : f.ch = c
  IN <<1, e.modifier, 0, e.keycode, 0, 0, 0, 0>>

release_report == <<1, 0, 0, 0, 0, 0, 0, 0>>

\* send_backspace, in typer.c.
backspace_report == <<1, 0, 0, \h2A, 0, 0, 0, 0>>

\* NEARBY_KEYS of a to z, as the places of the neighbours in the alphabet.
NEARBY_KEYS ==
  << {19, 17, 23, 26}, {22, 7, 8, 14}, {24, 4, 6, 22}, {19, 6, 7, 24, 3, 5},
     {23, 19, 4, 18}, {4, 7, 18, 20, 22, 3}, {6, 8, 20, 25, 2, 22}, {7, 10, 25, 21, 14},
     {21, 15, 10, 11}, {8, 11, 21, 9, 13}, {10, 12, 15, 9}, {11, 15, 16},
     {14, 10, 11}, {2, 8, 13, 10}, {9, 11, 12, 16}, {15, 12}, {23, 1},
     {5, 20, 6, 4}, {1, 4, 23, 24, 26, 5}, {18, 25, 6, 7}, {25, 8, 10, 9},
     {3, 6, 7, 2}, {17, 1, 19, 5}, {26, 19, 4, 3}, {20, 7, 8, 21}, {1, 19, 24} >>

Lower(c) == IF c \in 65 .. 90 THEN c + 32 ELSE c

\* should_typo: only letters are mistyped.
MayTypo(c) == Lower(c) \in 97 .. 122

\* get_neighbor_key
Neighbors(c) == IF MayTypo(c) THEN {96 + n : n \in NEARBY_KEYS[Lower(c) - 96]} ELSE {c}
=============================================================================
