-------------------------------- MODULE CHid --------------------------------
(***************************************************************************)
(* The reports of the C port and the host that reads them: the host reads  *)
(* a descriptor (HidDescriptor); when it accepts one that has a mouse, the *)
(* jiggler (CJiggler) moves its pointer, and what the typer sends is       *)
(* decoded by the fields the host found (CKeymap).                         *)
(***************************************************************************)
EXTENDS CKeymap, CJiggler, FiniteSets

reports == <<hid, jiggler>>

ReportsInit == HidInit /\ JigglerInit

Read == HostReads /\ UNCHANGED jiggler

Jiggle ==
  /\ verdict = "accepted"
  /\ JigglerStep
  /\ UNCHANGED hid

ReportsNext == Read \/ Jiggle

ReportsSpec == ReportsInit /\ [][ReportsNext]_reports

-----------------------------------------------------------------------------
\* usb_setup_gadget: "keyboard descriptor ends at byte 63".  Whatever part the
\* host is given, it can read it.
EveryPartIsAccepted == verdict # "rejected"

\* The host takes the whole descriptor, as Bluetooth presents it, and from
\* then on reads one key from the report of a character, with shift or without:
\* from no two characters the same, and from none the one that deletes.  A
\* release shows no key, the neighbour a typo presses is another key that has a
\* report, and every printable character, newline and tab has one.
Keystroke(r) == <<Modifiers(r), Keys(r)>>

ReportsDecode ==
  /\ Mapped = 32 .. 126 \cup {9, 10}
  /\ \A c \in Mapped :
       /\ Cardinality(Keys(char_to_hid_report(c))) = 1
       /\ Modifiers(char_to_hid_report(c)) \subseteq {2}
       /\ \A n \in Neighbors(c) :
            /\ n \in Mapped
            /\ MayTypo(c) => Keys(char_to_hid_report(n)) # Keys(char_to_hid_report(c))
  /\ Cardinality({Keystroke(char_to_hid_report(c)) : c \in Mapped}) = Cardinality(Mapped)
  /\ Keystroke(backspace_report) \notin {Keystroke(char_to_hid_report(c)) : c \in Mapped}
  /\ Keystroke(release_report) = <<{}, {}>>

KeystrokesArrive ==
  [][part = "combined" /\ verdict # verdict' => verdict' = "accepted" /\ ReportsDecode]_reports

\* As long as max_delta is at most 126 either way, a jiggle whose reports reach
\* the host moves the pointer and brings it back to within one of where it was.
\* From 127 on the way back may wrap around in its byte.
JiggleSeenAndUndone ==
  max_delta \in -126 .. 126 /\ ~lost =>
    /\ jpc = "moved" => pointer # <<0, 0>>
    /\ jpc = "waiting" => \A i \in 1 .. 2 : pointer[i] \in -1 .. 1
=============================================================================
