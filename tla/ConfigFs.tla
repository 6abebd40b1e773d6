------------------------------ MODULE ConfigFs ------------------------------
(***************************************************************************)
(* External: the gadget directory of the kernel's ConfigFS, as far as the  *)
(* USB transports of the three ports use it.  A gadget has strings, one    *)
(* configuration with strings of its own, and two HID functions; the       *)
(* functions are linked into the configuration, the gadget is bound to the *)
(* UDC, and a bound function has a device node /dev/hidg0 or /dev/hidg1,   *)
(* numbered in the order the functions were made.                          *)
(*                                                                         *)
(* The tree outlives the processes that build it.                          *)
(***************************************************************************)
EXTENDS Integers

VARIABLES
  here,    \* the directories that exist
  written, \* those whose attributes have been written
  linked,  \* the functions linked into the configuration
  bound,   \* the functions the UDC exposes; none if the gadget is not bound
  number,  \* the number of each function's device node
  handle   \* what the two open files of the transport refer to

gadget == <<here, written, linked, bound, number>>

Function == {"keyboard", "mouse"}
Dir == {"gadget", "strings", "config", "config_strings"} \cup Function

\* The directories above d.
Above(d) ==
  CASE d = "gadget" -> {}
    [] d = "config_strings" -> {"gadget", "config"}
    [] OTHER -> {"gadget"}

\* The device file each report goes to: /dev/hidg0 and /dev/hidg1.
Node == [f \in Function |-> IF f = "keyboard" THEN 0 ELSE 1]

NoHandles == [f \in Function |-> "none"]

\* An open file is of no use once its function is unbound.
Stale == [f \in Function |-> IF handle[f] = "none" THEN "none" ELSE "stale"]

FsInit ==
  /\ here = {} /\ written = {} /\ linked = {} /\ bound = {}
  /\ number = Node
  /\ handle = NoHandles

-----------------------------------------------------------------------------
\* mkdir -p, which an existing directory does not disturb.  A new function
\* takes the lowest number that is free.
Mkdir(d) ==
  /\ here' = here \cup {d} \cup Above(d)
  /\ number' = IF d \in Function \ here
               THEN LET taken == {number[f] : f \in Function \cap here} IN
                    [number EXCEPT ![d] = IF 0 \in taken THEN 1 ELSE 0]
               ELSE number
  /\ UNCHANGED <<written, linked, bound, handle>>

\* The attributes of a linked function cannot be written.
Write(d) ==
  /\ d \in here \ linked
  /\ written' = written \cup {d}
  /\ UNCHANGED <<here, linked, bound, number, handle>>

\* A link that is there already is refused.
Link(f) ==
  /\ {f, "config"} \subseteq here /\ f \notin linked
  /\ linked' = linked \cup {f}
  /\ UNCHANGED <<here, written, bound, number, handle>>

\* A gadget that is bound, or has no function, is refused.
Bind ==
  /\ bound = {} /\ linked # {}
  /\ bound' = linked
  /\ UNCHANGED <<here, written, linked, number, handle>>

Open(f) ==
  /\ \E g \in bound :
       /\ number[g] = Node[f]
       /\ handle' = [handle EXCEPT ![f] = g]
  /\ UNCHANGED gadget

\* Whether an empty text that is written to UDC reaches the kernel is left open.
Unbind ==
  /\ \/ bound' = {} /\ handle' = Stale
     \/ UNCHANGED <<bound, handle>>
  /\ UNCHANGED <<here, written, linked, number>>

\* Removing a link unbinds the gadget.
Unlink(f) ==
  /\ IF f \in linked
     THEN linked' = linked \ {f} /\ bound' = {} /\ handle' = Stale
     ELSE UNCHANGED <<linked, bound, handle>>
  /\ UNCHANGED <<here, written, number>>

\* Only an empty directory can be removed, and only a function without a link.
Rmdir(d) ==
  /\ \A e \in here : d \notin Above(e)
  /\ d \notin linked /\ (d = "config" => linked = {})
  /\ here' = here \ {d}
  /\ written' = written \ {d}
  /\ UNCHANGED <<linked, bound, number, handle>>

-----------------------------------------------------------------------------
FsTypeOK ==
  /\ here \subseteq Dir /\ written \subseteq here
  /\ linked \subseteq here \cap Function /\ bound \subseteq linked
  /\ number \in [Function -> 0 .. 1]
  /\ handle \in [Function -> Function \cup {"none", "stale"}]
=============================================================================
