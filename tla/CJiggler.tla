------------------------------ MODULE CJiggler ------------------------------
(***************************************************************************)
(* The mouse jiggler of the C port (c/src/jiggler.c), the report its moves *)
(* become and the pointer of a host that has read the descriptor           *)
(* (HidDescriptor).  Deltas are ints in jiggle_once and bytes in a report. *)
(* Waiting has no duration here: running may be cleared at any moment.     *)
(***************************************************************************)
EXTENDS HidDescriptor

CONSTANTS
  MaxDeltas, \* values of jiggler.max_delta, which is any int
  Sample     \* bound: the deltas and offsets rand() gives

ASSUME JigglerAssumption == MaxDeltas \subseteq Int /\ Sample \subseteq Int

VARIABLES
  max_delta,
  jpc,      \* where the thread is: off, waiting, moved, ended
  jrunning, \* jiggler.running
  delta,    \* dx and dy of the move out
  pointer,  \* where the pointer is, from where it was before the jiggle
  lost      \* history: whether a report of the jiggle did not reach the host

jiggler == <<max_delta, jpc, jrunning, delta, pointer, lost>>

JigglerInit ==
  /\ max_delta \in MaxDeltas
  /\ jpc = "off" /\ jrunning = FALSE
  /\ delta = <<0, 0>> /\ pointer = <<0, 0>> /\ lost = FALSE

\* Mutant of Byte: a delta is cut at its ends instead of wrapped.
ByteClamped(n) == IF n < 0 THEN 0 ELSE IF n > 127 THEN 127 ELSE n

\* (int8_t), and (uint8_t) in the report
Byte(n) == n % 256

MouseReport(d) == <<MouseId, 0, Byte(d[1]), Byte(d[2]), 0>>

\* rand_range
RandRange(lo, hi) == IF lo >= hi THEN {lo} ELSE (lo .. hi) \cap Sample

\* Avoid zero movement
NonZero(d) == IF d = <<0, 0>> THEN <<1, 0>> ELSE d

\* The result of the send is not looked at.
SendMouse(d) ==
  \/ /\ pointer' = [i \in 1 .. 2 |-> pointer[i] + Movement(MouseReport(d))[i]]
     /\ lost' = lost
  \/ /\ lost' = TRUE
     /\ pointer' = pointer

StartJiggler ==
  /\ jpc = "off" /\ jpc' = "waiting"
  /\ jrunning' = TRUE
  /\ UNCHANGED <<max_delta, delta, pointer, lost>>

StopJiggler ==
  /\ jrunning /\ jrunning' = FALSE
  /\ UNCHANGED <<max_delta, jpc, delta, pointer, lost>>

\* Where the pointer is now is where the next jiggle begins.
Rest ==
  /\ jpc = "waiting" /\ (pointer # <<0, 0>> \/ lost)
  /\ pointer' = <<0, 0>> /\ lost' = FALSE /\ delta' = <<0, 0>>
  /\ UNCHANGED <<max_delta, jpc, jrunning>>

NoTrace == pointer = <<0, 0>> /\ ~lost

\* The first half of jiggle_once, with a small move or, sometimes, a bigger.
Move ==
  /\ jpc = "waiting" /\ jrunning /\ NoTrace
  /\ \E max_d \in {max_delta} \cup RandRange(10, 20) :
       \E dx, dy \in RandRange(-max_d, max_d) :
         /\ delta' = NonZero(<<dx, dy>>)
         /\ SendMouse(NonZero(<<dx, dy>>))
  /\ jpc' = "moved"
  /\ UNCHANGED <<max_delta, jrunning>>

\* And the second, which a stop does not prevent.
Return ==
  /\ jpc = "moved" /\ jpc' = "waiting"
  /\ \E ox, oy \in RandRange(-1, 1) : SendMouse(<<ox - delta[1], oy - delta[2]>>)
  /\ UNCHANGED <<max_delta, jrunning, delta>>

JigglerEnds ==
  /\ jpc = "waiting" /\ ~jrunning
  /\ jpc' = "ended"
  /\ UNCHANGED <<max_delta, jrunning, delta, pointer, lost>>

JigglerStep == StartJiggler \/ StopJiggler \/ Rest \/ Move \/ Return \/ JigglerEnds
=============================================================================
