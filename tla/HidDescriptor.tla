--------------------------- MODULE HidDescriptor ---------------------------
(***************************************************************************)
(* The report descriptor of the C port (c/src/transport.c, the same bytes  *)
(* as in the other ports' Bluetooth transport), and the host that reads    *)
(* it item by item.  Over Bluetooth the host gets all of it; the USB       *)
(* set-up gives a part of it to each of its two functions.                 *)
(*                                                                         *)
(* The host's rules are those of Linux: an item that is cut off, an end of *)
(* a collection that was not begun, or a collection without an end, and    *)
(* the whole descriptor is rejected.  Where items carry data the host      *)
(* uses, it is one byte.                                                   *)
(***************************************************************************)
EXTENDS Integers, Sequences, Functions

HID_DESCRIPTOR == <<
  \h05, \h01, \h09, \h06, \hA1, \h01, \h85, \h01,
  \h05, \h07, \h19, \hE0, \h29, \hE7, \h15, \h00,
  \h25, \h01, \h75, \h01, \h95, \h08, \h81, \h02,
  \h95, \h01, \h75, \h08, \h81, \h03, \h95, \h06,
  \h75, \h08, \h15, \h00, \h25, \h65, \h05, \h07,
  \h19, \h00, \h29, \h65, \h81, \h00,
  \h05, \h08, \h19, \h01, \h29, \h05, \h95, \h05,
  \h75, \h01, \h91, \h02, \h95, \h01, \h75, \h03,
  \h91, \h03, \hC0,
  \h05, \h01, \h09, \h02, \hA1, \h01, \h85, \h02,
  \h09, \h01, \hA1, \h00, \h05, \h09, \h19, \h01,
  \h29, \h03, \h15, \h00, \h25, \h01, \h95, \h03,
  \h75, \h01, \h81, \h02, \h95, \h01, \h75, \h05,
  \h81, \h03, \h05, \h01, \h09, \h30, \h09, \h31,
  \h09, \h38, \h15, \h81, \h25, \h7F, \h75, \h08,
  \h95, \h03, \h81, \h06, \hC0, \hC0 >>

KeyboardId == 1
MouseId == 2

\* Where usb_setup_gadget cuts.
KeyboardEnd == 63

Bytes ==
  [combined |-> HID_DESCRIPTOR,
   keyboard |-> SubSeq(HID_DESCRIPTOR, 1, KeyboardEnd),
   mouse |-> SubSeq(HID_DESCRIPTOR, KeyboardEnd + 1, Len(HID_DESCRIPTOR))]

VARIABLES
  part,    \* which descriptor the host reads
  at,      \* bytes read
  depth,   \* collections begun and not ended
  globals, \* what the next field inherits: page, size, count, id, min
  bits,    \* bits[id]: length of the input report so far
  fields,  \* the fields of the input reports
  verdict  \* reading, accepted or rejected

hid == <<part, at, depth, globals, bits, fields, verdict>>

HidInit ==
  /\ part \in DOMAIN Bytes
  /\ at = 0 /\ depth = 0
  /\ globals = [page |-> 0, size |-> 0, count |-> 0, id |-> 0, min |-> 0]
  /\ bits = [id \in {0, KeyboardId, MouseId} |-> 0]
  /\ fields = {}
  /\ verdict = "reading"

-----------------------------------------------------------------------------
\* An item is a byte that says what it is and how much data follows.
Left == Len(Bytes[part]) - at
Prefix == Bytes[part][at + 1]
Item == Prefix - (Prefix % 4)
DataLength == <<0, 1, 2, 4>>[(Prefix % 4) + 1]
Whole == Left > 0 /\ DataLength < Left
Data == IF DataLength = 0 THEN 0 ELSE Bytes[part][at + 2]

Input == \h80
Collection == \hA0
EndCollection == \hC0
Global == [page |-> \h04, min |-> \h14, size |-> \h74, id |-> \h84, count |-> \h94]

Take ==
  /\ verdict = "reading" /\ Whole
  /\ at' = at + 1 + DataLength
  /\ UNCHANGED <<part, verdict>>

TakeGlobal(g) ==
  /\ Take /\ Item = Global[g]
  /\ globals' = [globals EXCEPT ![g] = Data]
  /\ UNCHANGED <<depth, bits, fields>>

TakeInput ==
  /\ Take /\ Item = Input
  /\ fields' = fields \cup {[globals |-> globals, at |-> bits[globals.id], flags |-> Data]}
  /\ bits' = [bits EXCEPT ![globals.id] = @ + globals.size * globals.count]
  /\ UNCHANGED <<depth, globals>>

Begin ==
  /\ Take /\ Item = Collection
  /\ depth' = depth + 1
  /\ UNCHANGED <<globals, bits, fields>>

End ==
  /\ Take /\ Item = EndCollection
  /\ depth > 0
  /\ depth' = depth - 1
  /\ UNCHANGED <<globals, bits, fields>>

\* Usages, logical maxima, outputs, and the items the host does not know.
TakeOther ==
  /\ Take
  /\ Item \notin Range(Global) \cup {Input, Collection, EndCollection}
  /\ UNCHANGED <<depth, globals, bits, fields>>

Broken == ~Whole \/ (Item = EndCollection /\ depth = 0)

Reject ==
  /\ verdict = "reading" /\ Left > 0 /\ Broken
  /\ verdict' = "rejected"
  /\ UNCHANGED <<part, at, depth, globals, bits, fields>>

ReadAll ==
  /\ verdict = "reading" /\ Left = 0
  /\ verdict' = IF depth = 0 THEN "accepted" ELSE "rejected"
  /\ UNCHANGED <<part, at, depth, globals, bits, fields>>

HostReads ==
  \/ \E g \in DOMAIN Global : TakeGlobal(g)
  \/ TakeInput \/ Begin \/ End \/ TakeOther \/ Reject \/ ReadAll

-----------------------------------------------------------------------------
\* What the host makes of a report r, whose first byte is its ID.  Bytes that
\* are missing at the end count as zero.
Slot(r, f, i) ==
  LET bit == f.at + i * f.globals.size
      byte == IF 2 + bit \div 8 \in DOMAIN r THEN r[2 + bit \div 8] ELSE 0
  IN (byte \div 2^(bit % 8)) % 2^f.globals.size

\* A negative minimum makes the field a signed one.
Value(r, f, i) ==
  LET n == Slot(r, f, i) IN
  IF f.globals.min >= 128 /\ n >= 128 THEN n - 256 ELSE n

\* The values in the field of r with that page and those flags.
Values(r, page, flags) ==
  LET f == CHOOSE g \in fields : g.globals.id = r[1] /\ g.globals.page = page /\ g.flags = flags
  IN [i \in 1 .. f.globals.count |-> Value(r, f, i - 1)]

Modifiers(r) == {i \in 1 .. 8 : Values(r, \h07, \h02)[i] = 1}
Keys(r) == Range(Values(r, \h07, \h00)) \ {0}
Movement(r) == Values(r, \h01, \h06)
=============================================================================
