------------------------- MODULE TransportProofs -------------------------
(***************************************************************************)
(* The transports: how the USB gadget is set up, and what its host reads.  *)
(*                                                                         *)
(* For any number of requests, faults and crashes: a transport that says   *)
(* it is connected works (ReadyWhenConnected), no connect fails because of *)
(* what was left behind (FailureIsEarned), and a disconnect without a      *)
(* fault leaves nothing (TidyAfterDisconnect).  While no two calls have    *)
(* overlapped, one call at most is at work (Alone).  It has come to some   *)
(* place in the list of its operations, and what it has done so far still  *)
(* stands (Progress), because nobody undoes it.  An operation may have     *)
(* been without effect, through a fault that its port ignores: but not a   *)
(* write or an open, except in the C port.                                 *)
(*                                                                         *)
(* For any max_delta from -126 to 126 and any rand(): a jiggle of the C    *)
(* port is seen and undone (JiggleSeenAndUndone).  A host that reads the   *)
(* descriptor is always at the beginning of an item it can be at (Placed), *)
(* with what the items before it have set (Inherited, Length); so the one  *)
(* field of the mouse with movements is Pointer (PointerFound), which      *)
(* reads the bytes of a report as the signed numbers they were made from   *)
(* (Moves).                                                                *)
(***************************************************************************)
EXTENDS UsbTransport, CHid, SequenceTheorems, TLAPS

Op == ({"mkdir", "write", "rmdir"} \X Dir) \cup ({"link", "unlink", "open"} \X Function)
      \cup ({"bind", "unbind"} \X {"gadget"})

\* What op is for.
Holds(op) ==
  CASE op[1] = "mkdir" -> op[2] \in here
    [] op[1] = "write" -> op[2] \in written
    [] op[1] = "link" -> op[2] \in linked
    [] op[1] = "bind" -> bound = Function
    [] op[1] = "open" -> op[2] \in bound /\ handle[op[2]] = op[2]
    [] op[1] = "unlink" -> op[2] \notin linked
    [] op[1] = "rmdir" -> op[2] \notin here
    [] OTHER -> TRUE

\* The exceptions of ReadyWhenConnected do not apply.
Sane == ~overlapped /\ (port = "c" => faults = 0)

\* What c has done stands: all of it if it has met no fault, and in any case
\* what it opened and wrote.
Kept(c, op) == Sane /\ (c \notin faulted \/ op[1] \in {"write", "open"}) => Holds(op)
Done(c, plan, i) == \A j \in 1 .. i - 1 : Kept(c, plan[j])

\* Call c has come to the place i of plan.
At(c, plan, i) ==
  /\ i \in 1 .. Len(plan) + 1
  /\ todo[c] = SubSeq(plan, i, Len(plan))
  /\ Done(c, plan, i)

\* A Python call that met no fault sets up from nothing: what it has not come
\* to is not there.
Fresh(c, i) ==
  Sane /\ port = "py" /\ c \notin faulted =>
    \A j \in i .. Len(Setup) : Setup[j][1] \in {"link", "bind"} =>
      bound = {} /\ Setup[j][2] \notin linked

Progress(c) ==
  /\ job[c] \in {"idle", "failed", "connect"} => todo[c] = <<>>
  /\ job[c] \in {"tidy", "close"} =>
       IF port = "py" THEN \E f, g \in Function, i \in Nat : f # g /\ At(c, Teardown(f, g), i)
       ELSE job[c] = "close" /\ todo[c] = <<>>
  /\ job[c] = "setup" => \E i \in Nat : At(c, Setup, i) /\ Fresh(c, i)
  /\ job[c] = "open" => /\ \E i \in Nat : At(c, OpenDevices, i)
                        /\ Done(c, Setup, Len(Setup) + 1)

\* Where main is, and its call.
Control ==
  /\ job[Main] \in {"connect", "tidy", "setup", "open"} <=> proc = "starting"
  /\ job[Main] = "close" <=> proc = "leaving"
  /\ proc = "starting" => ~connected /\ \A c \in Requests : Idle(c)
  /\ port # "py" => \A c \in Requests : job[c] = "idle"
  /\ faulted # {} => faults > 0

\* While no two calls have overlapped, one is at work at most, and none once
\* the transport is connected or main has disconnected it.
Alone ==
  ~overlapped =>
    /\ \A c, d \in Call : ~Idle(c) /\ ~Idle(d) => c = d
    /\ connected \/ proc = "ending" => \A c \in Call : Idle(c)

\* What is left of a call are operations.
Lists == todo \in [Call -> Seq(Op)]

\* The directories above one that is here are here.
Closure == \A d \in here : Above(d) \subseteq here

\* The keyboard is made before the mouse, a function is linked when it has its
\* attributes, and the C port binds both functions at once.
Ordered ==
  Sane =>
    /\ \A f \in Function \cap here : number[f] = Node[f]
    /\ linked \subseteq written
    /\ port = "c" /\ bound # {} => bound = Function

\* What main's disconnect leaves.
Tidy ==
  port = "py" /\ proc \in {"ending", "stopped"} /\ ~overlapped /\ Main \notin faulted
    => here = {}

IInv ==
  /\ TypeOK /\ Lists /\ Closure /\ Control /\ Alone /\ Ordered
  /\ \A c \in Call : Progress(c)
  /\ ReadyWhenConnected /\ FailureIsEarned /\ Tidy
-----------------------------------------------------------------------------
\* The lists.

Making == ({"mkdir", "write"} \X Dir) \cup ({"link"} \X Function) \cup ({"bind"} \X {"gadget"})
Unmaking == ({"unlink"} \X Function) \cup ({"rmdir"} \X Dir) \cup ({"unbind"} \X {"gadget"})
Opening == {"open"} \X Function

LEMMA OpParts ==
  /\ Making \cup Unmaking \cup Opening \subseteq Op
  /\ \A op \in Op : op = <<op[1], op[2]>> /\ op[2] \in Dir
  /\ \A op \in Making : /\ op[1] \in {"mkdir", "write", "link", "bind"}
                        /\ op[1] = "link" => op[2] \in Function
  /\ \A op \in Unmaking : /\ op[1] \in {"unlink", "rmdir", "unbind"}
                          /\ op[1] = "unlink" => op[2] \in Function
  /\ \A op \in Opening : op[1] = "open" /\ op[2] \in Function
BY DEF Making, Unmaking, Opening, Op, Dir, Function

\* mkdir -p makes the configuration with its strings.
MadeWith(d) == IF d = "config" THEN "config_strings" ELSE d

\* op comes before the place i of plan.
Before(op, plan, i) == \E j \in 1 .. i - 1 : plan[j] = op

\* In both orders of the set-up an attribute is written when its directory is
\* made, a link is made when both its ends are, and the gadget is bound last.
LEMMA SetupOrder ==
  ASSUME port \in {"py", "rs", "c"}
  PROVE  /\ Setup \in Seq(Making) /\ Len(Setup) = 14
         /\ \A i \in 1 .. 14 :
              /\ Setup[i][1] = "write" => Before(<<"mkdir", MadeWith(Setup[i][2])>>, Setup, i)
              /\ Setup[i] = <<"mkdir", "mouse">> => Before(<<"write", "keyboard">>, Setup, i)
              /\ Setup[i][1] = "link" => /\ Before(<<"write", Setup[i][2]>>, Setup, i)
                                        /\ Before(<<"write", "config">>, Setup, i)
              /\ Setup[i][1] = "bind" =>
                   i = 14 /\ \A f \in Function : Before(<<"link", f>>, Setup, i)
              /\ \A j \in 1 .. 14 : Setup[j] = Setup[i] => j = i
         /\ \A d \in Dir : Before(<<"write", d>>, Setup, 15)
         /\ \A f \in Function : Before(<<"link", f>>, Setup, 15)
         /\ Before(<<"bind", "gadget">>, Setup, 15)
<1>1. /\ PySetup \in Seq(Making) /\ Len(PySetup) = 14
      /\ RsSetup \in Seq(Making) /\ Len(RsSetup) = 14
      /\ CSetup = PySetup
  <2> USE DEF Made, Config, Functions, Exposed
  <2>1. Len(PySetup) = 14 /\ Len(RsSetup) = 14 /\ CSetup = PySetup
    BY DEF PySetup, RsSetup, CSetup
  <2>2. /\ \A d \in Dir : Made(d) \in Seq(Making)
        /\ Config \in Seq(Making) /\ Exposed \in Seq(Making)
    BY DEF Making, Dir, Function
  <2>3. PySetup \in Seq(Making) /\ RsSetup \in Seq(Making)
    BY <2>2, ConcatProperties DEF PySetup, RsSetup, Dir, Function
  <2> QED  BY <2>1, <2>3
<1>2. ASSUME port # "rs"
      PROVE  /\ Setup[1] = <<"mkdir", "gadget">> /\ Setup[2] = <<"write", "gadget">>
             /\ Setup[3] = <<"mkdir", "strings">> /\ Setup[4] = <<"write", "strings">>
             /\ Setup[5] = <<"mkdir", "config_strings">> /\ Setup[6] = <<"write", "config_strings">>
             /\ Setup[7] = <<"write", "config">>
             /\ Setup[8] = <<"mkdir", "keyboard">> /\ Setup[9] = <<"write", "keyboard">>
             /\ Setup[10] = <<"mkdir", "mouse">> /\ Setup[11] = <<"write", "mouse">>
             /\ Setup[12] = <<"link", "keyboard">> /\ Setup[13] = <<"link", "mouse">>
             /\ Setup[14] = <<"bind", "gadget">>
  BY <1>2 DEF Setup, PySetup, CSetup, Made, Config, Functions, Exposed
<1>3. ASSUME port = "rs"
      PROVE  /\ Setup[1] = <<"mkdir", "gadget">> /\ Setup[2] = <<"write", "gadget">>
             /\ Setup[3] = <<"mkdir", "strings">> /\ Setup[4] = <<"write", "strings">>
             /\ Setup[5] = <<"mkdir", "keyboard">> /\ Setup[6] = <<"write", "keyboard">>
             /\ Setup[7] = <<"mkdir", "mouse">> /\ Setup[8] = <<"write", "mouse">>
             /\ Setup[9] = <<"mkdir", "config_strings">> /\ Setup[10] = <<"write", "config_strings">>
             /\ Setup[11] = <<"write", "config">>
             /\ Setup[12] = <<"link", "keyboard">> /\ Setup[13] = <<"link", "mouse">>
             /\ Setup[14] = <<"bind", "gadget">>
  BY <1>3 DEF Setup, RsSetup, Made, Config, Functions, Exposed
<1>4. Setup \in Seq(Making) /\ Len(Setup) = 14
  BY <1>1 DEF Setup
<1>5. ASSUME NEW i \in 1 .. 14
      PROVE  /\ Setup[i][1] = "write" => Before(<<"mkdir", MadeWith(Setup[i][2])>>, Setup, i)
             /\ Setup[i] = <<"mkdir", "mouse">> => Before(<<"write", "keyboard">>, Setup, i)
  <2>1. CASE port # "rs"
    BY <1>2, <2>1 DEF Before, MadeWith
  <2>2. CASE port = "rs"
    BY <1>3, <2>2 DEF Before, MadeWith
  <2> QED  BY <2>1, <2>2
<1>6. ASSUME NEW i \in 1 .. 14
      PROVE  /\ Setup[i][1] = "link" => /\ Before(<<"write", Setup[i][2]>>, Setup, i)
                                       /\ Before(<<"write", "config">>, Setup, i)
             /\ Setup[i][1] = "bind" =>
                  i = 14 /\ \A f \in Function : Before(<<"link", f>>, Setup, i)
             /\ \A j \in 1 .. 14 : Setup[j] = Setup[i] => j = i
  <2>1. CASE port # "rs"
    BY <1>2, <2>1 DEF Before, Function
  <2>2. CASE port = "rs"
    BY <1>3, <2>2 DEF Before, Function
  <2> QED  BY <2>1, <2>2
<1>7. /\ \A d \in Dir : Before(<<"write", d>>, Setup, 15)
      /\ \A f \in Function : Before(<<"link", f>>, Setup, 15)
      /\ Before(<<"bind", "gadget">>, Setup, 15)
  <2>1. CASE port # "rs"
    BY <1>2, <2>1 DEF Before, Function, Dir
  <2>2. CASE port = "rs"
    BY <1>3, <2>2 DEF Before, Function, Dir
  <2> QED  BY <2>1, <2>2
<1> QED  BY <1>4, <1>5, <1>6, <1>7

\* A tear-down removes the links first, and the gadget when it is empty.
LEMMA TeardownOrder ==
  ASSUME NEW f \in Function, NEW g \in Function, f # g
  PROVE  /\ Teardown(f, g) \in Seq(Unmaking) /\ Len(Teardown(f, g)) = 9
         /\ \A i \in 1 .. 9 :
              /\ Teardown(f, g)[i][1] = "rmdir" =>
                   \A h \in Function : Before(<<"unlink", h>>, Teardown(f, g), i)
              /\ Teardown(f, g)[i] = <<"rmdir", "config">> =>
                   Before(<<"rmdir", "config_strings">>, Teardown(f, g), i)
              /\ Teardown(f, g)[i] = <<"rmdir", "gadget">> =>
                   \A d \in Dir \ {"gadget"} : Before(<<"rmdir", d>>, Teardown(f, g), i)
         /\ \A d \in Dir : Before(<<"rmdir", d>>, Teardown(f, g), 10)
<1> DEFINE plan == Teardown(f, g)
<1>1. plan \in Seq(Unmaking) /\ Len(plan) = 9
  BY DEF Teardown, Unmaking, Dir, Function
<1>2. /\ plan[1] = <<"unbind", "gadget">> /\ plan[2] = <<"unlink", f>> /\ plan[3] = <<"unlink", g>>
      /\ plan[4] = <<"rmdir", "config_strings">> /\ plan[5] = <<"rmdir", "config">>
      /\ plan[6] = <<"rmdir", f>> /\ plan[7] = <<"rmdir", g>>
      /\ plan[8] = <<"rmdir", "strings">> /\ plan[9] = <<"rmdir", "gadget">>
  BY DEF Teardown
<1> HIDE DEF plan
<1>3. \A h \in Function : h = f \/ h = g
  BY DEF Function
<1>4. f # "config" /\ f # "gadget" /\ g # "config" /\ g # "gadget"
  BY DEF Function
<1>5. ASSUME NEW i \in 1 .. 9
      PROVE  /\ plan[i][1] = "rmdir" => \A h \in Function : Before(<<"unlink", h>>, plan, i)
             /\ plan[i] = <<"rmdir", "config">> => Before(<<"rmdir", "config_strings">>, plan, i)
  BY <1>2, <1>3, <1>4 DEF Before
<1>6. ASSUME NEW i \in 1 .. 9, plan[i] = <<"rmdir", "gadget">>
      PROVE  \A d \in Dir \ {"gadget"} : Before(<<"rmdir", d>>, plan, i)
  <2>1. i = 9
    BY <1>2, <1>4, <1>6
  <2> QED  BY <1>2, <1>3, <2>1 DEF Before, Dir
<1>7. \A d \in Dir : Before(<<"rmdir", d>>, plan, 10)
  BY <1>2, <1>3 DEF Before, Dir
<1> QED  BY <1>1, <1>5, <1>6, <1>7 DEF plan

LEMMA OpenOrder ==
  /\ OpenDevices \in Seq(Opening) /\ Len(OpenDevices) = 2
  /\ \A f \in Function : Before(<<"open", f>>, OpenDevices, 3)
<1>1. OpenDevices \in Seq(Opening) /\ Len(OpenDevices) = 2
  BY DEF OpenDevices, Opening, Function
<1>2. OpenDevices[1] = <<"open", "keyboard">> /\ OpenDevices[2] = <<"open", "mouse">>
  BY DEF OpenDevices
<1> QED  BY <1>1, <1>2 DEF Before, Function

\* A call begins at the first place of its list,
LEMMA FirstPlace ==
  ASSUME NEW c, NEW S, NEW plan \in Seq(S), todo'[c] = plan
  PROVE  At(c, plan, 1)'
BY SubSeqFull, LenProperties DEF At, Done

\* goes on to the next,
LEMMA NextPlace ==
  ASSUME NEW c, NEW S, NEW plan \in Seq(S), NEW i, At(c, plan, i), todo[c] # <<>>
  PROVE  /\ i \in 1 .. Len(plan)
         /\ Head(todo[c]) = plan[i] /\ Head(todo[c]) \in S
         /\ Tail(todo[c]) = SubSeq(plan, i + 1, Len(plan))
<1>1. i \in 1 .. Len(plan) + 1 /\ todo[c] = SubSeq(plan, i, Len(plan)) /\ Len(plan) \in Nat
  BY LenProperties DEF At
<1>2. i # Len(plan) + 1
  BY <1>1, SubSeqEmpty
<1>3. i \in 1 .. Len(plan)
  BY <1>1, <1>2
<1> QED  BY <1>1, <1>3, HeadTailOfSubSeq, ElementOfSeq

\* and is done behind the last.
LEMMA LastPlace ==
  ASSUME NEW c, NEW S, NEW plan \in Seq(S), NEW i, At(c, plan, i), todo[c] = <<>>
  PROVE  i = Len(plan) + 1
<1>1. i \in 1 .. Len(plan) + 1 /\ <<>> = SubSeq(plan, i, Len(plan)) /\ Len(plan) \in Nat
  BY LenProperties DEF At
<1>2. \A j \in i .. Len(plan) : plan[j] \in S
  BY <1>1, ElementOfSeq
<1>3. Len(SubSeq(plan, i, Len(plan))) = IF i <= Len(plan) THEN Len(plan) - i + 1 ELSE 0
  BY <1>1, <1>2, SubSeqProperties
<1>4. Len(SubSeq(plan, i, Len(plan))) = 0
  BY <1>1, EmptySeq
<1> QED  BY <1>1, <1>3, <1>4

-----------------------------------------------------------------------------
\* The operations.

\* None breaks the types of the tree, or leaves a directory without those above.
LEMMA OperationTypes ==
  ASSUME FsTypeOK, Closure, NEW op \in Op, Operation(op)
  PROVE  FsTypeOK' /\ Closure'
<1> USE DEF FsTypeOK, Closure
<1>1. CASE op[1] = "mkdir"
  <2>1. Mkdir(op[2]) /\ op[2] \in Dir
    BY <1>1 DEF Operation, Op
  <2>2. Above(op[2]) \subseteq Dir /\ \A d \in Above(op[2]) : Above(d) \subseteq Above(op[2])
    BY <2>1 DEF Above, Dir
  <2>3. number' \in [Function -> 0 .. 1]
    BY <2>1 DEF Mkdir
  <2> QED  BY <2>1, <2>2, <2>3 DEF Mkdir
<1>2. CASE op[1] = "write"
  BY <1>2 DEF Operation, Write
<1>3. CASE op[1] = "link"
  BY <1>3 DEF Operation, Link, Op, Function
<1>4. CASE op[1] = "bind"
  BY <1>4 DEF Operation, Bind
<1>5. CASE op[1] = "open"
  BY <1>5 DEF Operation, Open, gadget
<1>6. CASE op[1] = "unbind"
  BY <1>6 DEF Operation, Unbind, Stale
<1>7. CASE op[1] = "unlink"
  BY <1>7 DEF Operation, Unlink, Stale
<1>8. CASE op[1] = "rmdir"
  BY <1>8 DEF Operation, Rmdir
<1> QED  BY <1>1, <1>2, <1>3, <1>4, <1>5, <1>6, <1>7, <1>8 DEF Op

\* What has been made stays while more is made,
LEMMA MakingKeeps ==
  ASSUME FsTypeOK, NEW op \in Making, Operation(op), NEW p \in Making, Holds(p)
  PROVE  Holds(p)'
<1>1. here \subseteq here' /\ written \subseteq written' /\ linked \subseteq linked'
      /\ (bound = Function => bound' = Function)
  BY DEF Making, Operation, Mkdir, Write, Link, Bind, FsTypeOK, Function
<1> QED  BY <1>1 DEF Holds, Making

\* while files are opened,
LEMMA OpeningKeeps ==
  ASSUME FsTypeOK, NEW op \in Opening, Operation(op), NEW p \in Making \cup Opening, Holds(p),
         op[2] # p[2] \/ p \notin Opening
  PROVE  Holds(p)'
BY DEF Making, Opening, Operation, Open, Holds, gadget, FsTypeOK, Function

\* and what has been removed while more is removed.
LEMMA UnmakingKeeps ==
  ASSUME FsTypeOK, NEW op \in Unmaking, Operation(op), NEW p \in Unmaking, Holds(p)
  PROVE  Holds(p)'
<1>1. here' \subseteq here /\ linked' \subseteq linked
  BY DEF Unmaking, Operation, Unbind, Unlink, Rmdir
<1> QED  BY <1>1 DEF Holds, Unmaking

-----------------------------------------------------------------------------
\* The next operation of a call succeeds.

LEMMA StepInSetup ==
  ASSUME IInv, NEW c \in Call, job[c] = "setup", Step(c)
  PROVE  Progress(c)' /\ Ordered' /\ FsTypeOK' /\ Closure' /\ Tail(todo[c]) \in Seq(Op)
<1>1. PICK i \in Nat : At(c, Setup, i) /\ Fresh(c, i)
  BY DEF IInv, Progress
<1>2. /\ port \in {"py", "rs", "c"} /\ port' = port /\ Setup' = Setup
      /\ FsTypeOK /\ Closure /\ job' = job /\ faulted' = faulted /\ Sane' = Sane
  BY UsbAssumption DEF IInv, TypeOK, Step, Setup, Sane
<1>3. PICK op : op = Setup[i]
  OBVIOUS
<1>4. /\ Setup \in Seq(Making) /\ Len(Setup) = 14 /\ i \in 1 .. 14
      /\ op \in Making /\ Head(todo[c]) = op /\ Tail(todo[c]) = SubSeq(Setup, i + 1, 14)
  <2>1. PICK plan \in Seq(Making) : plan = Setup /\ Len(plan) = 14
    BY <1>2, SetupOrder
  <2>2. todo[c] # <<>> /\ At(c, plan, i)
    BY <1>1, <2>1 DEF Step
  <2>3. /\ i \in 1 .. Len(plan)
        /\ Head(todo[c]) = plan[i] /\ Head(todo[c]) \in Making
        /\ Tail(todo[c]) = SubSeq(plan, i + 1, Len(plan))
    BY <2>2, NextPlace
  <2> QED  BY <1>3, <2>1, <2>3
<1>5. todo'[c] = SubSeq(Setup, i + 1, 14)
  BY <1>4 DEF IInv, Lists, Step
<1>6. IF Present(op) THEN UNCHANGED <<gadget, handle>> ELSE Operation(op)
  BY <1>4 DEF Step
<1>7. op \in Op /\ Tail(todo[c]) \in Seq(Op)
  BY <1>4, HeadTailProperties, OpParts DEF IInv, Lists, Step
<1>8. /\ op[1] \in {"mkdir", "write", "link", "bind"}
      /\ op[1] = "link" => op[2] \in Function
  BY <1>4, <1>7, OpParts
<1>9. FsTypeOK' /\ Closure'
  BY <1>2, <1>6, <1>7, OperationTypes DEF FsTypeOK, Closure, gadget
<1>10. ASSUME NEW p \in Making, Holds(p) PROVE Holds(p)'
  <2>1. CASE Present(op)
    BY <1>6, <1>10, <2>1 DEF Holds, gadget
  <2>2. CASE ~Present(op)
    BY <1>2, <1>4, <1>6, <1>10, <2>2, MakingKeeps
  <2> QED  BY <2>1, <2>2
<1>11. ASSUME NEW p, Before(p, Setup, i), Sane, c \notin faulted \/ p[1] = "write"
      PROVE  Holds(p)
  BY <1>1, <1>11 DEF At, Done, Kept, Before
<1>12. ASSUME Sane, op[1] = "link" PROVE op[2] \in written
  <2>1. Holds(<<"write", op[2]>>)
    BY <1>2, <1>4, <1>11, <1>12, SetupOrder, <1>3
  <2> QED  BY <2>1 DEF Holds
<1>13. ASSUME Sane, op[1] = "bind", c \notin faulted PROVE linked = Function
  <2>1. \A f \in Function : Holds(<<"link", f>>)
    BY <1>2, <1>4, <1>11, <1>13, SetupOrder, <1>3
  <2> QED  BY <1>2, <2>1 DEF Holds, FsTypeOK
<1>14. ASSUME Sane, op = <<"mkdir", "mouse">> PROVE "keyboard" \in here
  <2>1. Holds(<<"write", "keyboard">>)
    BY <1>2, <1>4, <1>11, <1>14, SetupOrder, <1>3
  <2> QED  BY <1>2, <2>1 DEF Holds, FsTypeOK
<1>15. ASSUME Sane, c \notin faulted \/ op[1] = "write" PROVE Holds(op)'
  <2>1. CASE Present(op)
    BY <1>6, <2>1 DEF Holds, Present, gadget
  <2>2. CASE ~Present(op)
    BY <1>8, <1>6, <1>13, <1>15, <2>2 DEF Operation, Mkdir, Write, Link, Bind, Holds
  <2> QED  BY <2>1, <2>2
<1>16. At(c, Setup, i + 1)'
  <2>1. ASSUME NEW j \in 1 .. i PROVE Kept(c, Setup[j])'
    <3>1. CASE j = i
      BY <1>3, <1>2, <1>4, <1>15, <3>1 DEF Kept, Making
    <3>2. CASE j # i
      <4>1. Kept(c, Setup[j]) /\ Setup[j] \in Making
        <5>1. j \in 1 .. Len(Setup) /\ j \in 1 .. i - 1
          BY <1>4, <3>2
        <5> QED  BY <1>1, <1>4, <5>1, ElementOfSeq DEF At, Done
      <4> QED  BY <1>2, <1>10, <4>1 DEF Kept
    <3> QED  BY <3>1, <3>2
  <2> QED  BY <1>2, <1>4, <1>5, <2>1 DEF At, Done
<1>17. Fresh(c, i + 1)'
  <2> SUFFICES ASSUME Sane, port = "py", c \notin faulted, NEW j \in i + 1 .. 14,
                      Setup[j][1] \in {"link", "bind"}
               PROVE  bound' = {} /\ Setup[j][2] \notin linked'
    BY <1>2, <1>4 DEF Fresh
  <2>1. bound = {} /\ Setup[j][2] \notin linked
    BY <1>1, <1>4 DEF Fresh
  <2>2. op[1] # "bind" /\ (op[1] = "link" /\ Setup[j][1] = "link" => Setup[j] # op)
    <3>1. j \in 1 .. 14 /\ j # i /\ i # 14
      BY <1>4
    <3> QED  BY <1>3, <1>2, <1>4, <3>1, SetupOrder
  <2>3. Setup[j] \in Making /\ Setup[j] \in Op
    <3>1. j \in 1 .. Len(Setup)
      BY <1>4
    <3> QED  BY <1>4, <3>1, ElementOfSeq, OpParts
  <2>4. Setup[j] = <<Setup[j][1], Setup[j][2]>> /\ op = <<op[1], op[2]>>
    BY <1>7, <2>3, OpParts
  <2>5. op[1] = "link" => op[2] # Setup[j][2]
    <3>1. Setup[j][1] = "bind" => Setup[j][2] = "gadget"
      BY <2>3 DEF Making
    <3> QED  BY <1>8, <2>2, <2>4, <3>1 DEF Function
  <2> QED
    BY <1>8, <1>6, <2>1, <2>2, <2>5 DEF Operation, Mkdir, Write, Link, gadget
<1>18. Ordered'
  <2> SUFFICES ASSUME Sane
               PROVE  /\ \A f \in Function \cap here' : number'[f] = Node[f]
                      /\ linked' \subseteq written'
                      /\ port = "c" /\ bound' # {} => bound' = Function
    BY <1>2 DEF Ordered
  <2>1. /\ \A f \in Function \cap here : number[f] = Node[f]
        /\ linked \subseteq written
        /\ port = "c" /\ bound # {} => bound = Function
    BY DEF IInv, Ordered
  <2>2. port = "c" => c \notin faulted
    BY DEF IInv, Control, Sane, TypeOK
  <2>3. CASE Present(op)
    BY <1>6, <2>1, <2>3 DEF gadget
  <2>4. CASE ~Present(op) /\ op[1] = "mkdir"
    <3>1. Mkdir(op[2]) /\ op[2] \in Dir /\ (op[2] = "mouse" => "keyboard" \in here)
      BY <1>4, <1>6, <1>14, <2>4 DEF Operation, Making
    <3>2. \A f \in Function \cap here' : number'[f] = Node[f]
      BY <1>2, <2>1, <3>1 DEF Mkdir, FsTypeOK, Function, Node, Above
    <3> QED  BY <2>1, <3>1, <3>2 DEF Mkdir
  <2>5. CASE ~Present(op) /\ op[1] # "mkdir"
    <3>1. \/ Write(op[2])
          \/ op[1] = "link" /\ Link(op[2])
          \/ op[1] = "bind" /\ Bind
      BY <1>8, <1>6, <2>5 DEF Operation
    <3> QED  BY <1>12, <1>13, <2>1, <2>2, <3>1 DEF Write, Link, Bind
  <2> QED  BY <2>3, <2>4, <2>5
<1> QED
  BY <1>2, <1>7, <1>9, <1>16, <1>17, <1>18 DEF Progress

LEMMA StepInOpen ==
  ASSUME IInv, NEW c \in Call, job[c] = "open", Step(c)
  PROVE  Progress(c)' /\ Ordered' /\ FsTypeOK' /\ Closure' /\ Tail(todo[c]) \in Seq(Op)
<1>1. PICK i \in Nat : At(c, OpenDevices, i)
  BY DEF IInv, Progress
<1>2. /\ port \in {"py", "rs", "c"} /\ port' = port /\ Setup' = Setup
      /\ FsTypeOK /\ Closure /\ job' = job /\ faulted' = faulted /\ Sane' = Sane
      /\ Done(c, Setup, Len(Setup) + 1)
  BY UsbAssumption DEF IInv, TypeOK, Step, Setup, Sane, Progress
<1>3. PICK op \in Opening : op = OpenDevices[i] /\ op = Head(todo[c]) /\ i \in 1 .. 2
                           /\ Tail(todo[c]) = SubSeq(OpenDevices, i + 1, 2)
  <2>1. todo[c] # <<>>
    BY DEF Step
  <2>2. OpenDevices \in Seq(Opening) /\ Len(OpenDevices) = 2
    BY OpenOrder
  <2>3. /\ i \in 1 .. Len(OpenDevices)
        /\ Head(todo[c]) = OpenDevices[i] /\ Head(todo[c]) \in Opening
        /\ Tail(todo[c]) = SubSeq(OpenDevices, i + 1, Len(OpenDevices))
    BY <1>1, <2>1, <2>2, NextPlace
  <2> QED  BY <2>2, <2>3
<1>4. todo'[c] = SubSeq(OpenDevices, i + 1, 2)
  BY <1>3 DEF IInv, Lists, Step
<1>5. op \in Op /\ op[1] = "open" /\ op[2] \in Function /\ Tail(todo[c]) \in Seq(Op)
  BY <1>3, HeadTailProperties, OpParts DEF IInv, Lists, Step
<1>6. Operation(op) /\ Open(op[2])
  BY <1>3, <1>5 DEF Step, Present, Operation
<1>7. FsTypeOK' /\ Closure'
  BY <1>2, <1>5, <1>6, OperationTypes
<1>8. Ordered'
  BY <1>2, <1>6 DEF IInv, Ordered, Open, gadget
<1>9. Sane => Holds(op)'
  <2> SUFFICES ASSUME Sane PROVE Holds(op)'
    OBVIOUS
  <2>1. PICK g \in bound : number[g] = Node[op[2]] /\ handle' = [handle EXCEPT ![op[2]] = g]
    BY <1>6 DEF Open
  <2>2. g = op[2]
    BY <1>2, <1>5, <2>1 DEF IInv, Ordered, FsTypeOK, Function, Node
  <2> QED  BY <1>2, <1>5, <1>6, <2>1, <2>2 DEF Holds, Open, gadget, FsTypeOK
<1>10. ASSUME NEW p \in Making \cup Opening, p # op, Holds(p) PROVE Holds(p)'
  <2>1. op[2] # p[2] \/ p \notin Opening
    BY <1>5, <1>10, OpParts
  <2> QED  BY <1>2, <1>3, <1>6, <1>10, <2>1, OpeningKeeps
<1>11. At(c, OpenDevices, i + 1)'
  <2>1. ASSUME NEW j \in 1 .. i PROVE Kept(c, OpenDevices[j])'
    <3>1. CASE OpenDevices[j] = op
      BY <1>2, <1>9, <3>1 DEF Kept
    <3>2. CASE OpenDevices[j] # op
      <4>1. j \in 1 .. Len(OpenDevices) /\ j \in 1 .. i - 1
        <5>1. j # i /\ Len(OpenDevices) = 2
          BY <1>3, <3>2, OpenOrder
        <5> QED  BY <1>3, <5>1
      <4>2. Kept(c, OpenDevices[j]) /\ OpenDevices[j] \in Opening
        BY <1>1, <4>1, OpenOrder, ElementOfSeq DEF At, Done
      <4> QED  BY <1>2, <1>10, <3>2, <4>2 DEF Kept
    <3> QED  BY <3>1, <3>2
  <2> QED  BY <1>3, <1>4, <2>1, OpenOrder DEF At, Done
<1>12. Done(c, Setup, Len(Setup) + 1)'
  <2>1. Setup \in Seq(Making) /\ Len(Setup) = 14
    BY <1>2, SetupOrder
  <2>2. ASSUME NEW j \in 1 .. 14 PROVE Kept(c, Setup[j])'
    <3>1. PICK p \in Making : p = Setup[j]
      BY <2>1, ElementOfSeq
    <3>2. Kept(c, p) /\ p # op
      BY <1>2, <1>5, <2>1, <3>1, OpParts DEF Done
    <3>3. Kept(c, p)'
      BY <1>2, <1>10, <3>2 DEF Kept
    <3> QED  BY <1>2, <3>1, <3>3
  <2> QED  BY <1>2, <2>1, <2>2 DEF Done
<1> QED  BY <1>2, <1>5, <1>7, <1>8, <1>11, <1>12 DEF Progress

LEMMA StepInTeardown ==
  ASSUME IInv, NEW c \in Call, job[c] \in {"tidy", "close"}, Step(c)
  PROVE  Progress(c)' /\ Ordered' /\ FsTypeOK' /\ Closure' /\ Tail(todo[c]) \in Seq(Op)
<1>1. /\ port = "py" /\ port' = port /\ FsTypeOK /\ Closure
      /\ job' = job /\ faulted' = faulted /\ Sane' = Sane
  BY DEF IInv, TypeOK, Step, Sane, Progress
<1>2. PICK f \in Function, g \in Function, i \in Nat : f # g /\ At(c, Teardown(f, g), i)
  BY <1>1 DEF IInv, Progress
<1>3. PICK plan \in Seq(Unmaking) : plan = Teardown(f, g) /\ Len(plan) = 9
  BY <1>2, TeardownOrder
<1>4. PICK op \in Unmaking : op = plan[i] /\ op = Head(todo[c]) /\ i \in 1 .. 9
                            /\ Tail(todo[c]) = SubSeq(plan, i + 1, 9)
  <2>1. todo[c] # <<>> /\ At(c, plan, i)
    BY <1>2, <1>3 DEF Step
  <2>2. /\ i \in 1 .. Len(plan)
        /\ Head(todo[c]) = plan[i] /\ Head(todo[c]) \in Unmaking
        /\ Tail(todo[c]) = SubSeq(plan, i + 1, Len(plan))
    BY <2>1, NextPlace
  <2> QED  BY <1>3, <2>2
<1>5. todo'[c] = SubSeq(plan, i + 1, 9)
  BY <1>4 DEF IInv, Lists, Step
<1>6. op \in Op /\ op[1] \in {"unlink", "rmdir", "unbind"} /\ Tail(todo[c]) \in Seq(Op)
  BY <1>4, HeadTailProperties, OpParts DEF IInv, Lists, Step
<1>7. Operation(op)
  BY <1>4, <1>6 DEF Step, Present
<1>8. FsTypeOK' /\ Closure'
  BY <1>1, <1>6, <1>7, OperationTypes
<1>9. Ordered'
  <2>1. /\ here' \subseteq here /\ number' = number /\ linked' \subseteq linked
        /\ linked' \cap written \subseteq written'
    BY <1>1, <1>6, <1>7 DEF Operation, Unbind, Unlink, Rmdir
  <2> QED  BY <1>1, <2>1 DEF IInv, Ordered
<1>10. Holds(op)'
  BY <1>6, <1>7 DEF Holds, Operation, Unlink, Rmdir
<1>11. At(c, plan, i + 1)'
  <2>1. ASSUME NEW j \in 1 .. i PROVE Kept(c, plan[j])'
    <3>1. CASE j = i
      BY <1>4, <1>10, <3>1 DEF Kept
    <3>2. CASE j # i
      <4>1. j \in 1 .. Len(plan) /\ j \in 1 .. i - 1
        BY <1>3, <1>4, <3>2
      <4>2. Kept(c, plan[j]) /\ plan[j] \in Unmaking
        BY <1>2, <1>3, <4>1, ElementOfSeq DEF At, Done
      <4> QED  BY <1>1, <1>4, <1>7, <4>2, UnmakingKeeps DEF Kept
    <3> QED  BY <3>1, <3>2
  <2> QED  BY <1>3, <1>4, <1>5, <2>1 DEF At, Done
<1>12. Progress(c)'
  <2>1. At(c, Teardown(f, g), i + 1)' /\ i + 1 \in Nat
    BY <1>3, <1>11
  <2> QED  BY <1>1, <1>2, <2>1 DEF Progress
<1> QED  BY <1>6, <1>8, <1>9, <1>12

-----------------------------------------------------------------------------
\* What a step of one call leaves as it is.

\* A call at work has a process, and the others do not disturb it.
LEMMA AtWork ==
  ASSUME IInv, NEW c \in Call, ~Idle(c)
  PROVE  /\ proc \notin {"down", "stopped"}
         /\ ~overlapped => ~connected /\ proc # "ending" /\ \A d \in Call \ {c} : Idle(d)
         /\ port # "py" => c = Main /\ \A d \in Requests : job[d] = "idle"
         /\ c # Main => proc # "starting"
BY DEF IInv, TypeOK, Alone, Control, Call, Idle

\* A call with operations left is at work.
LEMMA HasOperations ==
  ASSUME IInv, NEW c \in Call, todo[c] # <<>>
  PROVE  /\ job[c] \in {"tidy", "close", "setup", "open"} /\ ~Idle(c)
         /\ job[c] \in {"tidy", "close"} => port = "py"
BY DEF IInv, TypeOK, Progress, Idle

LEMMA OthersProgress ==
  ASSUME IInv, NEW c \in Call, port' = port, Sane' => Sane,
         ~overlapped' => \A d \in Call \ {c} : Idle(d),
         \A d \in Call \ {c} : job'[d] = job[d] /\ todo'[d] = todo[d],
         NEW d \in Call \ {c}
  PROVE  Progress(d)'
<1>1. Progress(d) /\ Setup' = Setup /\ job'[d] = job[d] /\ todo'[d] = todo[d]
  BY DEF IInv, Setup
<1>2. CASE overlapped'
  <2>1. \A plan, i : At(d, plan, i) => At(d, plan, i)'
    BY <1>1, <1>2 DEF At, Done, Kept, Sane
  <2>2. \A i : Fresh(d, i)' /\ Done(d, Setup, i)'
    BY <1>2 DEF Fresh, Done, Kept, Sane
  <2> QED  BY <1>1, <2>1, <2>2 DEF Progress
<1>3. CASE ~overlapped'
  BY <1>1, <1>3 DEF Progress, Idle
<1> QED  BY <1>2, <1>3

LEMMA TreeStill ==
  ASSUME IInv, UNCHANGED gadget, port' = port, Sane' => Sane
  PROVE  Closure' /\ Ordered'
BY DEF IInv, Closure, Ordered, gadget

\* A call that failed for a reason still has it after a step of another.
LEMMA FailuresStill ==
  ASSUME IInv, NEW c \in Call, ~Idle(c), port' = port, overlapped' = overlapped,
         faulted \subseteq faulted',
         NEW d \in Call \ {c}, job[d] = "failed"
  PROVE  overlapped' \/ d \in faulted'
<1>1. overlapped \/ d \in faulted \/ (port = "c" /\ faults > 0) \/ (port = "rs" /\ linked # {})
  BY DEF IInv, FailureIsEarned
<1>2. port = "py"
  BY AtWork DEF Call
<1> QED  BY <1>1, <1>2

LEMMA StepIInv == ASSUME IInv, NEW c \in Call, Step(c) PROVE IInv'
<1>1. /\ job[c] \in {"tidy", "close", "setup", "open"} /\ ~Idle(c)
  BY HasOperations DEF Step
<1>2. Progress(c)' /\ Ordered' /\ FsTypeOK' /\ Closure' /\ Tail(todo[c]) \in Seq(Op)
  BY <1>1, StepInSetup, StepInOpen, StepInTeardown
<1>3. /\ proc \notin {"down", "stopped"}
      /\ ~overlapped => ~connected /\ proc # "ending" /\ \A d \in Call \ {c} : Idle(d)
  BY <1>1, AtWork
<1>4. /\ UNCHANGED <<port, proc, job, connected, faults, crashes, faulted, overlapped>>
      /\ todo' = [todo EXCEPT ![c] = Tail(@)]
  BY DEF Step
<1>5. TypeOK' /\ Lists'
  BY <1>2, <1>3, <1>4 DEF IInv, TypeOK, Lists
<1>6. Control' /\ Alone'
  BY <1>4 DEF IInv, Control, Alone, Idle
<1>7. \A d \in Call : Progress(d)'
  BY <1>2, <1>3, <1>4, OthersProgress DEF IInv, Lists, Sane
<1>8. ReadyWhenConnected' /\ Tidy'
  BY <1>3, <1>4 DEF ReadyWhenConnected, Tidy
<1>9. FailureIsEarned'
  BY <1>1, <1>4, FailuresStill DEF FailureIsEarned
<1> QED  BY <1>2, <1>5, <1>6, <1>7, <1>8, <1>9 DEF IInv

-----------------------------------------------------------------------------
\* The next operation of a call fails.

\* A set-up that met no fault is refused only what is there already,
LEMMA RefusedInSetup ==
  ASSUME IInv, Sane, NEW c \in Call, c \notin faulted,
         NEW i \in 1 .. 14, At(c, Setup, i), NEW op, op = Setup[i], Refused(op)
  PROVE  \/ op[1] = "write" /\ op[2] \in linked
         \/ op[1] = "link" /\ op[2] \in linked /\ port # "py"
         \/ op[1] = "bind" /\ bound # {}
<1>1. /\ port \in {"py", "rs", "c"} /\ FsTypeOK /\ Closure
      /\ Setup \in Seq(Making) /\ Len(Setup) = 14
  BY UsbAssumption, SetupOrder DEF IInv, TypeOK
<1>2. op \in Making /\ op \in Op
  BY <1>1, ElementOfSeq, OpParts
<1>3. op[1] \in {"mkdir", "write", "link", "bind"} /\ (op[1] = "link" => op[2] \in Function)
  BY <1>2, OpParts
<1>4. ASSUME NEW p, Before(p, Setup, i) PROVE Holds(p)
  BY <1>4 DEF At, Done, Kept, Before
<1>5. CASE op[1] = "mkdir"
  BY <1>5 DEF Refused
<1>6. CASE op[1] = "write"
  <2>1. Holds(<<"mkdir", MadeWith(op[2])>>)
    BY <1>1, <1>4, <1>6, SetupOrder
  <2>2. op[2] \in here
    BY <1>1, <2>1 DEF Holds, MadeWith, Closure, Above
  <2> QED  BY <1>6, <2>2 DEF Refused
<1>7. CASE op[1] = "link"
  <2>1. Holds(<<"write", op[2]>>) /\ Holds(<<"write", "config">>)
    BY <1>1, <1>4, <1>7, SetupOrder
  <2>2. {op[2], "config"} \subseteq here
    BY <1>1, <2>1 DEF Holds, FsTypeOK
  <2> QED  BY <1>7, <2>2 DEF Refused, Present
<1>8. CASE op[1] = "bind"
  <2>1. \A f \in Function : Holds(<<"link", f>>)
    BY <1>1, <1>4, <1>8, SetupOrder
  <2>2. linked # {}
    BY <2>1 DEF Holds, Function
  <2> QED  BY <1>8, <2>2 DEF Refused
<1> QED  BY <1>3, <1>5, <1>6, <1>7, <1>8

\* and a tear-down nothing.
LEMMA NotRefusedInTeardown ==
  ASSUME IInv, Sane, NEW c \in Call, c \notin faulted, NEW f \in Function, NEW g \in Function, f # g,
         NEW i \in 1 .. 9, At(c, Teardown(f, g), i), NEW op, op = Teardown(f, g)[i]
  PROVE  ~Refused(op)
<1>1. FsTypeOK /\ Closure
  BY DEF IInv, TypeOK
<1>2. PICK plan \in Seq(Unmaking) : plan = Teardown(f, g) /\ Len(plan) = 9
  BY TeardownOrder
<1>3. op \in Unmaking /\ op \in Op
  BY <1>2, ElementOfSeq, OpParts
<1>4. op[1] \in {"unlink", "rmdir", "unbind"}
  BY <1>3, OpParts
<1>5. ASSUME NEW p, Before(p, plan, i) PROVE Holds(p)
  BY <1>2, <1>5 DEF At, Done, Kept, Before
<1>6. SUFFICES ASSUME op[1] = "rmdir" PROVE ~Refused(op)
  BY <1>4 DEF Refused
<1>7. linked = {}
  <2>1. \A h \in Function : Holds(<<"unlink", h>>)
    BY <1>2, <1>5, <1>6, TeardownOrder
  <2> QED  BY <1>1, <2>1 DEF Holds, FsTypeOK
<1>8. ASSUME NEW e \in here PROVE op[2] \notin Above(e)
  <2>1. e \in Dir /\ op = <<op[1], op[2]>>
    BY <1>1, <1>3, OpParts DEF FsTypeOK
  <2>2. CASE op[2] = "config"
    <3>1. Holds(<<"rmdir", "config_strings">>)
      BY <1>2, <1>5, <1>6, <2>1, <2>2, TeardownOrder
    <3> QED  BY <2>1, <2>2, <3>1 DEF Holds, Above
  <2>3. CASE op[2] = "gadget"
    <3>1. \A d \in Dir \ {"gadget"} : Holds(<<"rmdir", d>>)
      BY <1>2, <1>5, <1>6, <2>1, <2>3, TeardownOrder
    <3>2. e = "gadget"
      BY <2>1, <3>1 DEF Holds
    <3> QED  BY <3>2 DEF Above
  <2> QED  BY <2>1, <2>2, <2>3 DEF Above
<1> QED  BY <1>6, <1>7, <1>8 DEF Refused

\* A step of one call that leaves the tree as it is.
LEMMA CallIInv ==
  ASSUME IInv, NEW c \in Call, ~Idle(c), UNCHANGED <<gadget, port, overlapped>>,
         Sane' => Sane, faulted \subseteq faulted',
         \A d \in Call \ {c} : job'[d] = job[d] /\ todo'[d] = todo[d],
         TypeOK', Lists', Control', Alone', Progress(c)', ReadyWhenConnected', Tidy',
         job'[c] = "failed" => \/ overlapped \/ c \in faulted'
                               \/ port = "c" /\ faults' > 0
                               \/ port = "rs" /\ linked # {}
  PROVE  IInv'
<1>1. Closure' /\ Ordered'
  BY TreeStill
<1>2. \A d \in Call : Progress(d)'
  <2>1. ~overlapped' => \A d \in Call \ {c} : Idle(d)
    BY AtWork
  <2> QED  BY <2>1, OthersProgress
<1>3. FailureIsEarned'
  BY FailuresStill DEF FailureIsEarned, gadget
<1> QED  BY <1>1, <1>2, <1>3 DEF IInv

LEMMA FailsTypes ==
  ASSUME IInv, NEW c \in Call, Fails(c)
  PROVE  /\ todo[c] # <<>>
         /\ faults' \in 0 .. MaxFaults /\ faulted' \subseteq Call
         /\ faulted \subseteq faulted' /\ (faulted' # {} => faults' > 0)
         /\ faults' = 0 => faults = 0
         /\ (faults' = 0 \/ c \notin faulted') => Refused(Head(todo[c])) /\ faulted' = faulted
BY UsbAssumption DEF IInv, TypeOK, Control, Fails

LEMMA SkipInSetup ==
  ASSUME IInv, NEW c \in Call, Skip(c)
  PROVE  Progress(c)' /\ port # "py" /\ Tail(todo[c]) \in Seq(Op)
<1>1. /\ FsTypeOK /\ Closure /\ Ordered /\ port \in {"py", "rs", "c"}
      /\ UNCHANGED <<gadget, handle, port, job, overlapped>>
      /\ port # "py" /\ job[c] \in {"setup", "open"} /\ Setup' = Setup
  BY UsbAssumption, FailsTypes, HasOperations DEF IInv, TypeOK, Skip, Ignores, Setup
<1>2. PICK op : op = Head(todo[c])
  OBVIOUS
<1>3. /\ Fails(c) /\ todo[c] # <<>> /\ todo' = [todo EXCEPT ![c] = Tail(@)]
      /\ (port = "rs" /\ op[1] \in {"mkdir", "link"}) \/ (port = "c" /\ op[1] # "open")
  BY <1>2, FailsTypes DEF Skip, Ignores, RsIgnores, CIgnores
<1>4. job[c] = "setup"
  <2> SUFFICES ASSUME job[c] = "open" PROVE FALSE
    BY <1>1
  <2>1. PICK i \in Nat : At(c, OpenDevices, i)
    BY DEF IInv, Progress
  <2>2. op \in Opening
    BY <1>2, <1>3, <2>1, OpenOrder, NextPlace
  <2> QED  BY <1>3, <2>2, OpParts
<1>5. PICK i \in Nat : At(c, Setup, i) /\ Fresh(c, i)
  BY <1>4 DEF IInv, Progress
<1>6. /\ Setup \in Seq(Making) /\ Len(Setup) = 14 /\ i \in 1 .. 14
      /\ op = Setup[i] /\ op \in Making /\ Tail(todo[c]) = SubSeq(Setup, i + 1, 14)
  <2>1. PICK plan \in Seq(Making) : plan = Setup /\ Len(plan) = 14
    BY <1>1, SetupOrder
  <2>2. todo[c] # <<>> /\ At(c, plan, i)
    BY <1>3, <1>5, <2>1
  <2>3. /\ i \in 1 .. Len(plan)
        /\ op = plan[i] /\ op \in Making
        /\ Tail(todo[c]) = SubSeq(plan, i + 1, Len(plan))
    BY <1>2, <2>2, NextPlace
  <2> QED  BY <2>1, <2>3
<1>7. Tail(todo[c]) \in Seq(Op)
  BY <1>3, HeadTailProperties DEF IInv, Lists
<1>8. Sane' => Sane /\ (port = "c" => faulted = {} /\ faulted' = {})
  BY <1>1, <1>3, FailsTypes DEF Sane, IInv, Control, TypeOK
\* A write is passed over only in the C port, and when it has been done.
<1>9. Kept(c, op)'
  <2> SUFFICES ASSUME Sane', c \notin faulted' \/ op[1] \in {"write", "open"}
               PROVE  Holds(op)
    BY <1>1 DEF Kept, Holds, gadget
  <2>1. Sane /\ c \notin faulted' /\ c \notin faulted /\ Refused(op)
    BY <1>2, <1>3, <1>8, FailsTypes
  <2>2. \/ op[1] = "write" /\ op[2] \in linked
        \/ op[1] = "link" /\ op[2] \in linked
        \/ op[1] = "bind" /\ bound # {}
    BY <1>5, <1>6, <2>1, RefusedInSetup
  <2>3. linked \subseteq written /\ (port = "c" /\ bound # {} => bound = Function)
    BY <1>1, <2>1 DEF Ordered
  <2> QED  BY <1>3, <2>2, <2>3 DEF Holds
<1>10. At(c, Setup, i + 1)'
  <2>1. ASSUME NEW j \in 1 .. i PROVE Kept(c, Setup[j])'
    <3>1. CASE j = i
      BY <1>1, <1>6, <1>9, <3>1
    <3>2. CASE j # i
      <4>1. Kept(c, Setup[j])
        BY <1>5, <3>2 DEF At, Done
      <4> QED  BY <1>1, <1>3, <1>8, <4>1, FailsTypes DEF Kept, Holds, gadget
    <3> QED  BY <3>1, <3>2
  <2>2. todo'[c] = SubSeq(Setup, i + 1, 14)
    BY <1>3, <1>6 DEF IInv, Lists
  <2> QED  BY <1>1, <1>6, <2>1, <2>2 DEF At, Done
<1>11. Fresh(c, i + 1)'
  BY <1>1 DEF Fresh
<1> QED  BY <1>1, <1>4, <1>7, <1>10, <1>11 DEF Progress

LEMMA SkipIInv == ASSUME IInv, NEW c \in Call, Skip(c) PROVE IInv'
<1>1. /\ Fails(c) /\ todo' = [todo EXCEPT ![c] = Tail(@)]
      /\ UNCHANGED <<gadget, handle, port, proc, job, connected, crashes, overlapped>>
  BY DEF Skip
<1>2. Progress(c)' /\ port # "py" /\ Tail(todo[c]) \in Seq(Op)
  BY SkipInSetup
<1>3. /\ ~Idle(c) /\ faults' \in 0 .. MaxFaults /\ faulted' \subseteq Call
      /\ faulted \subseteq faulted' /\ (faulted' # {} => faults' > 0)
      /\ faults' = 0 => faults = 0
  BY <1>1, HasOperations, FailsTypes
<1>4. TypeOK' /\ Lists'
  BY <1>1, <1>2, <1>3 DEF IInv, TypeOK, FsTypeOK, Lists, gadget, Idle
<1>5. Control' /\ Alone' /\ (Sane' => Sane)
  BY <1>1, <1>3 DEF IInv, Control, Alone, Idle, Sane
<1>6. ReadyWhenConnected' /\ Tidy'
  BY <1>1, <1>2, <1>3, AtWork DEF ReadyWhenConnected, Tidy
<1>7. job'[c] # "failed"
  BY <1>1, <1>3 DEF Idle
<1> QED  BY <1>1, <1>2, <1>3, <1>4, <1>5, <1>6, <1>7, CallIInv

LEMMA GiveUpTeardownIInv == ASSUME IInv, NEW c \in Call, GiveUpTeardown(c) PROVE IInv'
<1>1. /\ Fails(c) /\ job[c] \in {"tidy", "close"} /\ todo' = [todo EXCEPT ![c] = <<>>]
      /\ UNCHANGED <<gadget, handle, port, proc, job, connected, crashes, overlapped>>
  BY DEF GiveUpTeardown
<1>2. /\ ~Idle(c) /\ faults' \in 0 .. MaxFaults /\ faulted' \subseteq Call /\ todo[c] # <<>>
      /\ faulted \subseteq faulted' /\ (faulted' # {} => faults' > 0) /\ port = "py"
      /\ c \notin faulted' => Refused(Head(todo[c])) /\ faulted' = faulted
  BY <1>1, HasOperations, FailsTypes
<1>3. TypeOK' /\ Lists'
  BY <1>1, <1>2, EmptySeq DEF IInv, TypeOK, FsTypeOK, Lists, gadget, Idle
<1>4. Control' /\ Alone' /\ (Sane' => Sane)
  BY <1>1, <1>2 DEF IInv, Control, Alone, Idle, Sane
<1>5. ReadyWhenConnected' /\ Tidy'
  BY <1>1, <1>2, AtWork DEF ReadyWhenConnected, Tidy
<1>6. PICK f \in Function, g \in Function, i \in Nat : f # g /\ At(c, Teardown(f, g), i)
  BY <1>1, <1>2 DEF IInv, Progress
<1>7. PICK plan \in Seq(Unmaking) : plan = Teardown(f, g) /\ Len(plan) = 9
  BY <1>6, TeardownOrder
\* Without a fault it would not have been refused.
<1>8. Sane' => c \in faulted'
  <2> SUFFICES ASSUME Sane', c \notin faulted' PROVE FALSE
    OBVIOUS
  <2>1. At(c, plan, i) /\ todo[c] # <<>>
    BY <1>2, <1>6, <1>7
  <2>2. i \in 1 .. Len(plan) /\ Head(todo[c]) = plan[i]
    BY <2>1, NextPlace
  <2> QED  BY <1>2, <1>4, <1>6, <1>7, <2>2, NotRefusedInTeardown
<1>9. At(c, plan, 10)'
  <2>1. ASSUME NEW j \in 1 .. 9 PROVE Kept(c, plan[j])'
    <3>1. plan[j][1] \notin {"write", "open"}
      <4>1. plan[j] \in Unmaking
        BY <1>7, ElementOfSeq
      <4> QED  BY <4>1, OpParts
    <3> QED  BY <1>8, <3>1 DEF Kept
  <2>2. todo'[c] = SubSeq(plan, 10, 9)
    BY <1>1, SubSeqEmpty DEF IInv, Lists
  <2> QED  BY <1>7, <2>1, <2>2 DEF At, Done
<1>10. Progress(c)'
  <2>1. At(c, Teardown(f, g), 10)' /\ 10 \in Nat
    BY <1>7, <1>9
  <2> QED  BY <1>1, <1>2, <1>6, <2>1 DEF Progress
<1>11. job'[c] # "failed"
  BY <1>1
<1> QED  BY <1>1, <1>2, <1>3, <1>4, <1>5, <1>10, <1>11, CallIInv

\* What the set-up of a Python call, or the opening of a device, is refused is
\* nobody's left-over: it does not happen without a fault.
LEMMA RaiseIsEarned ==
  ASSUME IInv, NEW c \in Call, Raise(c), Sane, c \notin faulted, Refused(Head(todo[c]))
  PROVE  port = "rs" /\ linked # {}
<1>1. /\ FsTypeOK /\ Ordered /\ port \in {"py", "rs", "c"} /\ todo[c] # <<>>
      /\ Setup \in Seq(Making) /\ Len(Setup) = 14 /\ job[c] \in {"setup", "open"}
  BY UsbAssumption, SetupOrder, FailsTypes DEF IInv, TypeOK, Raise
<1>2. PICK op : op = Head(todo[c])
  OBVIOUS
<1>3. ~Ignores(op) /\ Refused(op)
  BY <1>2 DEF Raise
<1>4. CASE job[c] = "setup"
  <2>1. PICK i \in Nat : At(c, Setup, i) /\ Fresh(c, i)
    BY <1>4 DEF IInv, Progress
  <2>2. i \in 1 .. 14 /\ op = Setup[i] /\ op \in Making /\ op \in Op
    BY <1>1, <1>2, <2>1, NextPlace, OpParts
  <2>3. \/ op[1] = "write" /\ op[2] \in linked
        \/ op[1] = "link" /\ op[2] \in linked /\ port # "py"
        \/ op[1] = "bind" /\ bound # {}
    BY <1>3, <2>1, <2>2, RefusedInSetup
  <2>4. port # "c"
    BY <1>3, <2>2, OpParts DEF Ignores, CIgnores
  <2>5. linked # {}
    BY <1>1, <2>3 DEF FsTypeOK
  <2>6. ASSUME port = "py" PROVE FALSE
    <3>1. \A j \in i .. 14 : Setup[j][1] \in {"link", "bind"} => bound = {} /\ Setup[j][2] \notin linked
      BY <1>1, <2>1, <2>6 DEF Fresh
    <3>2. op[1] = "write" /\ op[2] \in linked /\ op[2] \in Function
      BY <1>1, <2>2, <2>3, <2>6, <3>1 DEF FsTypeOK
    <3>3. PICK k \in 1 .. 14 : Setup[k] = <<"link", op[2]>>
      BY <1>1, <3>2, SetupOrder DEF Before
    <3>4. k < i
      BY <2>2, <3>1, <3>2, <3>3
    <3>5. PICK m \in 1 .. k - 1 : Setup[m] = <<"write", op[2]>>
      BY <1>1, <3>3, SetupOrder DEF Before
    <3>6. Setup[m] = Setup[i] /\ m \in 1 .. 14 /\ m # i
      BY <2>2, <3>2, <3>4, <3>5, OpParts
    <3> QED  BY <1>1, <2>2, <3>6, SetupOrder
  <2> QED  BY <1>1, <2>4, <2>5, <2>6
<1>5. CASE job[c] = "open"
  <2>1. PICK i \in Nat : At(c, OpenDevices, i) /\ Done(c, Setup, 15)
    BY <1>1, <1>5 DEF IInv, Progress
  <2>2. op \in Opening
    BY <1>1, <1>2, <2>1, OpenOrder, NextPlace
  <2>3. bound = Function
    BY <1>1, <2>1, SetupOrder DEF Done, Kept, Before, Holds
  <2>4. op[1] = "open" /\ op[2] \in bound /\ number[op[2]] = Node[op[2]]
    BY <1>1, <2>2, <2>3, OpParts DEF Ordered, FsTypeOK
  <2> QED  BY <1>3, <2>4 DEF Refused
<1> QED  BY <1>1, <1>4, <1>5

LEMMA RaiseIInv == ASSUME IInv, NEW c \in Call, Raise(c) PROVE IInv'
<1>1. /\ Fails(c) /\ job[c] \in {"setup", "open"}
      /\ job' = [job EXCEPT ![c] = "failed"] /\ todo' = [todo EXCEPT ![c] = <<>>]
      /\ UNCHANGED <<gadget, port, connected, crashes, overlapped>>
      /\ IF c = Main THEN proc' = "down" /\ handle' = NoHandles ELSE UNCHANGED <<proc, handle>>
  BY DEF Raise, Do
<1>2. /\ ~Idle(c) /\ faults' \in 0 .. MaxFaults /\ faulted' \subseteq Call
      /\ faulted \subseteq faulted' /\ (faulted' # {} => faults' > 0)
      /\ faults' = 0 => faults = 0
      /\ (faults' = 0 \/ c \notin faulted') => Refused(Head(todo[c])) /\ faulted' = faulted
  BY <1>1, HasOperations, FailsTypes
<1>3. /\ proc \notin {"down", "stopped"}
      /\ ~overlapped => ~connected /\ proc # "ending" /\ \A d \in Call \ {c} : Idle(d)
      /\ port # "py" => c = Main /\ \A d \in Requests : job[d] = "idle"
      /\ c # Main => proc # "starting"
      /\ c = Main => proc = "starting" /\ ~connected /\ \A d \in Requests : Idle(d)
  BY <1>1, <1>2, AtWork DEF IInv, Control
<1>4. /\ job'[c] = "failed" /\ todo'[c] = <<>> /\ Main \in Call
      /\ job \in [Call -> {"idle", "failed", "connect", "tidy", "setup", "open", "close"}]
      /\ \A d \in Call \ {c} : job'[d] = job[d] /\ todo'[d] = todo[d]
  BY <1>1 DEF IInv, TypeOK, Lists, Call
<1>5. Lists'
  BY <1>1, EmptySeq DEF IInv, Lists
<1>6. TypeOK'
  <2>1. handle' \in [Function -> Function \cup {"none", "stale"}] /\ FsTypeOK
    BY <1>1 DEF IInv, TypeOK, FsTypeOK, NoHandles
  <2>2. FsTypeOK'
    BY <1>1, <2>1 DEF FsTypeOK, gadget
  <2>3. proc' \in {"down", "stopped"} =>
          handle' = NoHandles /\ ~connected' /\ \A d \in Call : Idle(d)'
    BY <1>1, <1>3, <1>4 DEF Idle, Call
  <2> QED  BY <1>1, <1>2, <2>2, <2>3 DEF IInv, TypeOK
<1>7. Control' /\ Alone' /\ (Sane' => Sane)
  <2>1. Control'
    BY <1>1, <1>2, <1>3, <1>4, UsbAssumption DEF IInv, Control, Idle, Call
  <2>2. Alone'
    BY <1>1, <1>3, <1>4 DEF Alone, Idle
  <2> QED  BY <1>1, <1>2, <2>1, <2>2 DEF Sane
<1>8. ReadyWhenConnected' /\ Tidy'
  BY <1>1, <1>3 DEF ReadyWhenConnected, Tidy
<1>9. Progress(c)'
  BY <1>4 DEF Progress
<1>10. \/ overlapped \/ c \in faulted'
       \/ port = "c" /\ faults' > 0
       \/ port = "rs" /\ linked # {}
  <2> SUFFICES ASSUME ~overlapped, c \notin faulted', port = "c" => faults' = 0
               PROVE  port = "rs" /\ linked # {}
    BY <1>2
  <2>1. Sane /\ c \notin faulted /\ Refused(Head(todo[c]))
    BY <1>2 DEF Sane
  <2> QED  BY <2>1, RaiseIsEarned
<1>11. /\ UNCHANGED <<gadget, port, overlapped>> /\ ~Idle(c) /\ faulted \subseteq faulted'
       /\ \A d \in Call \ {c} : job'[d] = job[d] /\ todo'[d] = todo[d]
  BY <1>1, <1>2, <1>4
<1> QED  BY <1>5, <1>6, <1>7, <1>8, <1>9, <1>10, <1>11, CallIInv

-----------------------------------------------------------------------------
\* A call goes on to its next list.

\* The lists are lists of operations, whatever the port.
LEMMA Plans ==
  ASSUME IInv
  PROVE  /\ Setup \in Seq(Op) /\ Setup \in Seq(Making) /\ Len(Setup) = 14
         /\ OpenDevices \in Seq(Op)
         /\ \A f, g \in Function : f # g => Teardown(f, g) \in Seq(Op)
<1>1. port \in {"py", "rs", "c"} /\ Making \cup Unmaking \cup Opening \subseteq Op
  BY UsbAssumption, OpParts DEF IInv, TypeOK
<1>2. Making \subseteq Op /\ Unmaking \subseteq Op /\ Opening \subseteq Op
  BY <1>1
<1>3. Setup \in Seq(Making) /\ Len(Setup) = 14
  BY <1>1, SetupOrder
<1>4. Setup \in Seq(Op)
  BY <1>2, <1>3, SeqMonotonic
<1>5. OpenDevices \in Seq(Op)
  BY <1>2, OpenOrder, SeqMonotonic
<1>6. ASSUME NEW f \in Function, NEW g \in Function, f # g PROVE Teardown(f, g) \in Seq(Op)
  BY <1>2, <1>6, TeardownOrder, SeqMonotonic
<1> QED  BY <1>3, <1>4, <1>5, <1>6

\* A tear-down of a call that met no fault leaves nothing.
LEMMA TornDown ==
  ASSUME IInv, NEW c \in Call, job[c] \in {"tidy", "close"}, todo[c] = <<>>,
         Sane, port = "py", c \notin faulted
  PROVE  here = {} /\ linked = {} /\ bound = {}
<1>1. PICK f \in Function, g \in Function, i \in Nat : f # g /\ At(c, Teardown(f, g), i)
  BY DEF IInv, Progress
<1>2. PICK plan \in Seq(Unmaking) : plan = Teardown(f, g) /\ Len(plan) = 9
  BY <1>1, TeardownOrder
<1>3. At(c, plan, i) /\ i = Len(plan) + 1
  <2>1. At(c, plan, i)
    BY <1>1, <1>2
  <2> QED  BY <2>1, LastPlace
<1>4. ASSUME NEW d \in Dir PROVE d \notin here
  <2>1. PICK j \in 1 .. 9 : plan[j] = <<"rmdir", d>>
    BY <1>1, <1>2, TeardownOrder DEF Before
  <2>2. Kept(c, plan[j])
    BY <1>2, <1>3, <2>1 DEF At, Done
  <2> QED  BY <2>1, <2>2 DEF Kept, Holds
<1> QED  BY <1>4 DEF IInv, TypeOK, FsTypeOK

\* Call c begins its next list, and nothing else changes.
Begins(c, what, list) ==
  /\ job' = [job EXCEPT ![c] = what] /\ todo' = [todo EXCEPT ![c] = list]
  /\ UNCHANGED <<gadget, handle, port, proc, connected, faults, crashes, faulted, overlapped>>

LEMMA BeginsIInv ==
  ASSUME IInv, NEW c \in Call, ~Idle(c), NEW what \in {"tidy", "setup", "open"}, NEW list \in Seq(Op),
         Begins(c, what, list), job[c] \in {"connect", "tidy", "setup", "open"}, Progress(c)'
  PROVE  IInv'
<1>1. /\ proc \notin {"down", "stopped"} /\ Main \in Call
      /\ job'[c] = what /\ \A d \in Call \ {c} : job'[d] = job[d] /\ todo'[d] = todo[d]
      /\ port # "py" => c = Main
      /\ c # Main => proc # "starting"
  BY AtWork DEF IInv, TypeOK, Lists, Begins, Call
<1>2. TypeOK'
  BY <1>1 DEF IInv, TypeOK, FsTypeOK, gadget, Begins
<1>3. Lists'
  BY DEF IInv, Lists, Begins
<1>4. Control'
  BY <1>1, UsbAssumption DEF IInv, Control, Idle, Call, Begins
<1>5. Alone'
  BY <1>1 DEF IInv, Alone, Idle, Begins
<1>6. ReadyWhenConnected' /\ Tidy' /\ Sane' = Sane
  <2>1. ~overlapped => ~connected /\ proc # "ending"
    BY AtWork
  <2> QED  BY <1>1, <2>1 DEF ReadyWhenConnected, Tidy, Begins, Sane
<1>7. UNCHANGED <<gadget, port, overlapped>> /\ faulted \subseteq faulted' /\ job'[c] # "failed"
  BY <1>1 DEF Begins
<1> QED  BY <1>1, <1>2, <1>3, <1>4, <1>5, <1>6, <1>7, CallIInv

\* The set-up begins where there is nothing, in a Python call that met no fault.
LEMMA SetupBegins ==
  ASSUME IInv, NEW c \in Call, ~Idle(c), job[c] \in {"connect", "tidy"},
         Begins(c, "setup", Setup),
         Sane /\ port = "py" /\ c \notin faulted => linked = {} /\ bound = {}
  PROVE  IInv'
<1>1. PICK plan \in Seq(Making) : plan = Setup /\ Setup' = plan /\ plan \in Seq(Op) /\ Len(plan) = 14
  BY Plans DEF Begins, Setup
<1>2. job'[c] = "setup" /\ todo'[c] = plan /\ UNCHANGED <<gadget, port, faulted>> /\ Sane' = Sane
  BY <1>1 DEF IInv, TypeOK, Lists, Begins, Sane
<1>3. At(c, plan, 1)'
  BY <1>2, FirstPlace
<1>4. Fresh(c, 1)'
  BY <1>2 DEF Fresh, gadget
<1>5. At(c, Setup, 1)' /\ 1 \in Nat
  BY <1>1, <1>3
<1>6. Progress(c)'
  BY <1>2, <1>4, <1>5 DEF Progress
<1> QED  BY <1>6, Plans, BeginsIInv

LEMMA PrepareIInv == ASSUME IInv, NEW c \in Call, Prepare(c) PROVE IInv'
<1>1. job[c] = "connect" /\ ~Idle(c)
  BY DEF Prepare, Idle
<1>2. CASE port = "py" /\ "gadget" \in here
  <2>1. PICK f \in Function, g \in Function : f # g /\ Begins(c, "tidy", Teardown(f, g))
    BY <1>2 DEF Prepare, Do, Begins
  <2>2. PICK plan \in Seq(Unmaking) : plan = Teardown(f, g) /\ plan \in Seq(Op)
    BY <2>1, TeardownOrder, Plans
  <2>3. job'[c] = "tidy" /\ todo'[c] = plan /\ port' = "py"
    BY <1>2, <2>1, <2>2 DEF IInv, TypeOK, Lists, Begins
  <2>4. At(c, plan, 1)'
    BY <2>3, FirstPlace
  <2>5. At(c, Teardown(f, g), 1)' /\ 1 \in Nat
    BY <2>2, <2>4
  <2>6. Progress(c)'
    BY <2>1, <2>3, <2>5 DEF Progress
  <2> QED  BY <1>1, <2>1, <2>2, <2>6, BeginsIInv
<1>3. CASE ~(port = "py" /\ "gadget" \in here)
  <2>1. Begins(c, "setup", Setup)
    BY <1>3 DEF Prepare, Do, Begins
  <2>2. port = "py" => linked = {} /\ bound = {}
    BY <1>3 DEF IInv, TypeOK, FsTypeOK, Closure, Above
  <2> QED  BY <1>1, <2>1, <2>2, SetupBegins
<1> QED  BY <1>2, <1>3

LEMMA TidiedIInv == ASSUME IInv, NEW c \in Call, Tidied(c) PROVE IInv'
<1>1. job[c] = "tidy" /\ ~Idle(c) /\ todo[c] = <<>> /\ Begins(c, "setup", Setup)
  BY DEF Tidied, Do, Begins, Idle
<1> QED  BY <1>1, TornDown, SetupBegins

LEMMA SetUpIInv == ASSUME IInv, NEW c \in Call, SetUp(c) PROVE IInv'
<1>1. /\ job[c] = "setup" /\ ~Idle(c) /\ todo[c] = <<>> /\ Begins(c, "open", OpenDevices)
  BY DEF SetUp, Do, Begins, Idle
<1>2. PICK plan \in Seq(Making) : plan = Setup /\ Setup' = plan /\ Len(plan) = 14
  BY <1>1, Plans DEF Begins, Setup
<1>3. PICK i \in Nat : At(c, plan, i)
  BY <1>1, <1>2 DEF IInv, Progress
<1>4. i = Len(plan) + 1
  BY <1>1, <1>3, LastPlace
<1>5. /\ job'[c] = "open" /\ todo'[c] = OpenDevices
      /\ UNCHANGED <<gadget, handle, port, faulted>> /\ Sane' = Sane
  BY <1>1 DEF IInv, TypeOK, Lists, Begins, Sane
<1>6. Done(c, plan, 15)'
  <2>1. ASSUME NEW j \in 1 .. 14 PROVE Kept(c, plan[j])'
    <3>1. Kept(c, plan[j])
      BY <1>2, <1>3, <1>4 DEF At, Done
    <3> QED  BY <1>5, <3>1 DEF Kept, Holds, gadget
  <2> QED  BY <2>1 DEF Done
<1>7. At(c, OpenDevices, 1)' /\ 1 \in Nat
  BY <1>5, OpenOrder, FirstPlace
<1>8. Progress(c)'
  <2>1. Done(c, Setup, Len(Setup) + 1)'
    BY <1>2, <1>6
  <2> QED  BY <1>5, <1>7, <2>1 DEF Progress
<1> QED  BY <1>1, <1>8, Plans, BeginsIInv

\* Behind the last list: every attribute is written, both functions are bound,
\* and each file is that of its function.
LEMMA Opened ==
  ASSUME IInv, Sane, NEW c \in Call, job[c] = "open", todo[c] = <<>>
  PROVE  Working
<1>1. /\ FsTypeOK /\ Ordered /\ port \in {"py", "rs", "c"}
      /\ Done(c, Setup, 15)
  <2>1. Done(c, Setup, Len(Setup) + 1)
    BY DEF IInv, Progress
  <2>2. Len(Setup) = 14
    BY Plans
  <2>3. FsTypeOK /\ Ordered /\ port \in {"py", "rs", "c"}
    BY UsbAssumption DEF IInv, TypeOK
  <2> QED  BY <2>1, <2>2, <2>3
<1>2. PICK i \in Nat : At(c, OpenDevices, i)
  BY DEF IInv, Progress
<1>3. At(c, OpenDevices, 3)
  <2>1. OpenDevices \in Seq(Opening) /\ Len(OpenDevices) = 2
    BY OpenOrder
  <2>2. i = Len(OpenDevices) + 1
    BY <1>2, <2>1, LastPlace
  <2> QED  BY <1>2, <2>1, <2>2
<1>4. \A f \in Function : f \in bound /\ handle[f] = f
  BY <1>3, OpenOrder DEF At, Done, Before, Kept, Holds
<1>5. ASSUME NEW d \in Dir PROVE d \in written
  <2>1. PICK j \in 1 .. 14 : Setup[j] = <<"write", d>>
    <3>1. Before(<<"write", d>>, Setup, 15)
      BY <1>1, SetupOrder
    <3> QED  BY <3>1 DEF Before
  <2>2. Kept(c, Setup[j])
    BY <1>1, <2>1 DEF Done
  <2> QED  BY <2>1, <2>2 DEF Kept, Holds
<1>6. written = Dir /\ bound = Function /\ \A f \in Function : number[f] = Node[f]
  BY <1>1, <1>4, <1>5 DEF FsTypeOK, Ordered
<1>7. number = Node /\ handle = [f \in Function |-> f]
  BY <1>1, <1>4, <1>6 DEF FsTypeOK, Node
<1> QED  BY <1>6, <1>7 DEF Working

LEMMA ConnectedIInv == ASSUME IInv, NEW c \in Call, Connected(c), proc # "ending" PROVE IInv'
<1>1. /\ job[c] = "open" /\ ~Idle(c) /\ todo[c] = <<>> /\ connected' = TRUE
      /\ job' = [job EXCEPT ![c] = "idle"] /\ todo' = [todo EXCEPT ![c] = <<>>]
      /\ proc' = IF c = Main THEN "running" ELSE proc
      /\ UNCHANGED <<gadget, handle, port, faults, crashes, faulted, overlapped>>
  BY DEF Connected, Do, Idle
<1>2. /\ proc \notin {"down", "stopped"} /\ Main \in Call
      /\ ~overlapped => \A d \in Call \ {c} : Idle(d)
      /\ port # "py" => c = Main
      /\ c # Main => proc # "starting"
  BY <1>1, AtWork DEF Call
<1>3. /\ job'[c] = "idle" /\ todo'[c] = <<>>
      /\ \A d \in Call \ {c} : job'[d] = job[d] /\ todo'[d] = todo[d]
  BY <1>1 DEF IInv, TypeOK, Lists
<1>4. TypeOK'
  BY <1>1, <1>2 DEF IInv, TypeOK, FsTypeOK, gadget
<1>5. Lists'
  BY <1>1, EmptySeq DEF IInv, Lists
<1>6. Control'
  BY <1>1, <1>2, <1>3, UsbAssumption DEF IInv, Control, Idle, Call
<1>7. Alone'
  BY <1>1, <1>2, <1>3 DEF Alone, Idle
<1>8. ReadyWhenConnected'
  <2>1. Sane => Working
    BY <1>1, Opened
  <2> QED  BY <1>1, <2>1 DEF ReadyWhenConnected, Sane, Working, gadget
<1>9. Tidy' /\ Progress(c)' /\ Sane' = Sane
  BY <1>1, <1>2, <1>3 DEF Tidy, Progress, Sane
<1>10. UNCHANGED <<gadget, port, overlapped>> /\ faulted \subseteq faulted' /\ job'[c] # "failed"
  BY <1>1, <1>3
<1> QED  BY <1>1, <1>3, <1>4, <1>5, <1>6, <1>7, <1>8, <1>9, <1>10, CallIInv

LEMMA ClosedIInv == ASSUME IInv, NEW c \in Call, Closed(c) PROVE IInv'
<1>1. /\ job[c] = "close" /\ ~Idle(c) /\ todo[c] = <<>>
      /\ job' = [job EXCEPT ![c] = IF c = Main THEN "idle" ELSE "connect"]
      /\ todo' = [todo EXCEPT ![c] = <<>>]
      /\ proc' = IF c = Main THEN "ending" ELSE proc
      /\ UNCHANGED <<gadget, handle, port, connected, faults, crashes, faulted, overlapped>>
  BY DEF Closed, Do, Idle
<1>2. /\ proc \notin {"down", "stopped"} /\ Main \in Call
      /\ ~overlapped => ~connected /\ proc # "ending" /\ \A d \in Call \ {c} : Idle(d)
      /\ port # "py" => c = Main
      /\ c # Main => proc # "starting"
  BY <1>1, AtWork DEF Call
<1>3. /\ job'[c] = (IF c = Main THEN "idle" ELSE "connect") /\ todo'[c] = <<>>
      /\ \A d \in Call \ {c} : job'[d] = job[d] /\ todo'[d] = todo[d]
  BY <1>1 DEF IInv, TypeOK, Lists
<1>4. TypeOK'
  BY <1>1, <1>2 DEF IInv, TypeOK, FsTypeOK, gadget
<1>5. Lists'
  BY <1>1, EmptySeq DEF IInv, Lists
<1>6. Control'
  BY <1>1, <1>2, <1>3, UsbAssumption DEF IInv, Control, Idle, Call
<1>7. Alone'
  BY <1>1, <1>2, <1>3 DEF IInv, Alone, Idle
<1>8. Tidy'
  <2> SUFFICES ASSUME port = "py", proc' \in {"ending", "stopped"}, ~overlapped, Main \notin faulted
               PROVE  here = {}
    BY <1>1 DEF Tidy, gadget
  <2>1. c = Main
    BY <1>1, <1>2
  <2> QED  BY <1>1, <2>1, TornDown DEF Sane
<1>9. ReadyWhenConnected' /\ Progress(c)' /\ Sane' = Sane
  BY <1>1, <1>2, <1>3 DEF ReadyWhenConnected, Progress, Sane
<1>10. UNCHANGED <<gadget, port, overlapped>> /\ faulted \subseteq faulted' /\ job'[c] # "failed"
  BY <1>1, <1>3
<1> QED  BY <1>1, <1>3, <1>4, <1>5, <1>6, <1>7, <1>8, <1>9, <1>10, CallIInv

LEMMA AbandonIInv == ASSUME IInv, NEW c \in Call, Abandon(c) PROVE IInv'
<1>1. /\ proc = "ending" /\ ~Idle(c)
      /\ job' = [job EXCEPT ![c] = "idle"] /\ todo' = [todo EXCEPT ![c] = <<>>]
      /\ UNCHANGED <<gadget, handle, port, proc, connected, faults, crashes, faulted, overlapped>>
  BY DEF Abandon, Do
<1>2. overlapped /\ c # Main
  BY <1>1, AtWork DEF IInv, TypeOK, Control, Idle
<1>3. /\ job'[c] = "idle" /\ todo'[c] = <<>>
      /\ \A d \in Call \ {c} : job'[d] = job[d] /\ todo'[d] = todo[d]
  BY <1>1 DEF IInv, TypeOK, Lists
<1>4. TypeOK'
  BY <1>1 DEF IInv, TypeOK, FsTypeOK, gadget
<1>5. Lists'
  BY <1>1, EmptySeq DEF IInv, Lists
<1>6. Control'
  BY <1>1, <1>2, <1>3 DEF IInv, Control, Idle, Call
<1>7. Alone' /\ ReadyWhenConnected' /\ Tidy' /\ Progress(c)' /\ Sane' = Sane
  BY <1>1, <1>2, <1>3 DEF Alone, ReadyWhenConnected, Tidy, Progress, Sane
<1>8. UNCHANGED <<gadget, port, overlapped>> /\ faulted \subseteq faulted' /\ job'[c] # "failed"
  BY <1>1, <1>3
<1> QED  BY <1>1, <1>3, <1>4, <1>5, <1>6, <1>7, <1>8, CallIInv

-----------------------------------------------------------------------------
\* The process.

\* A call that begins with a disconnect is the only one at work, or overlaps.
LEMMA DisconnectIInv ==
  ASSUME IInv, NEW c \in Call, proc = "running", Idle(c), Disconnect(c),
         c = Main \/ port = "py", proc' = IF c = Main THEN "leaving" ELSE proc,
         UNCHANGED <<gadget, port, faults, crashes>>
  PROVE  IInv'
<1>1. PICK f \in Function, g \in Function :
        /\ f # g
        /\ job' = [job EXCEPT ![c] = "close"]
        /\ todo' = [todo EXCEPT ![c] = IF port = "py" THEN Teardown(f, g) ELSE <<>>]
  BY DEF Disconnect, Do
<1>2. /\ connected' = FALSE /\ handle' = NoHandles /\ faulted' = faulted \ {c}
      /\ overlapped' = (overlapped \/ \E d \in Call \ {c} : ~Idle(d))
  BY DEF Disconnect, CloseFiles, Overlaps
<1>3. /\ job'[c] = "close" /\ todo'[c] = (IF port = "py" THEN Teardown(f, g) ELSE <<>>)
      /\ \A d \in Call \ {c} : job'[d] = job[d] /\ todo'[d] = todo[d]
  BY <1>1 DEF IInv, TypeOK, Lists
<1>4. /\ Sane' => Sane
      /\ ~overlapped' => ~overlapped /\ \A d \in Call \ {c} : Idle(d)
  BY <1>2 DEF Sane, IInv, TypeOK
<1>5. TypeOK'
  <2>1. FsTypeOK'
    BY <1>2 DEF IInv, TypeOK, FsTypeOK, gadget, NoHandles
  <2>2. /\ overlapped' \in BOOLEAN
        /\ job' \in [Call -> {"idle", "failed", "connect", "tidy", "setup", "open", "close"}]
    BY <1>1, <1>2 DEF IInv, TypeOK
  <2> QED  BY <1>2, <2>1, <2>2 DEF IInv, TypeOK
<1>6. Lists'
  <2>1. (IF port = "py" THEN Teardown(f, g) ELSE <<>>) \in Seq(Op)
    BY <1>1, Plans, EmptySeq
  <2> QED  BY <1>1, <2>1 DEF IInv, Lists
<1>7. Closure' /\ Ordered'
  BY <1>4, TreeStill
<1>8. Control'
  BY <1>2, <1>3, UsbAssumption DEF IInv, Control, Idle, Call
<1>9. Alone'
  BY <1>2, <1>3, <1>4 DEF Alone, Idle
<1>10. Progress(c)'
  <2>1. CASE port = "py"
    <3>1. PICK plan \in Seq(Unmaking) : plan = Teardown(f, g)
      BY <1>1, TeardownOrder
    <3>2. At(c, plan, 1)'
      BY <1>3, <2>1, <3>1, FirstPlace
    <3>3. At(c, Teardown(f, g), 1)' /\ 1 \in Nat
      BY <3>1, <3>2
    <3> QED  BY <1>1, <1>3, <2>1, <3>3 DEF Progress
  <2>2. CASE port # "py"
    BY <1>3, <2>2 DEF Progress
  <2> QED  BY <2>1, <2>2
<1>11. \A d \in Call : Progress(d)'
  BY <1>3, <1>4, <1>10, OthersProgress
<1>12. ReadyWhenConnected' /\ Tidy'
  BY <1>2 DEF ReadyWhenConnected, Tidy
<1>13. FailureIsEarned'
  BY <1>2, <1>3 DEF IInv, FailureIsEarned, gadget
<1> QED  BY <1>5, <1>6, <1>7, <1>8, <1>9, <1>11, <1>12, <1>13 DEF IInv

LEMMA ReconnectIInv == ASSUME IInv, NEW c \in Requests, Reconnect(c) PROVE IInv'
<1>1. c \in Call /\ c # Main
  BY UsbAssumption DEF Call
<1> QED  BY <1>1, DisconnectIInv DEF Reconnect

LEMMA LeaveIInv == ASSUME IInv, Leave PROVE IInv'
<1>1. Main \in Call /\ Idle(Main)
  BY DEF IInv, TypeOK, Control, Leave, Idle, Call
<1> QED  BY <1>1, DisconnectIInv DEF Leave

\* Where no call is at work, or only main has been called.
LEMMA RestIInv ==
  ASSUME IInv, UNCHANGED <<gadget, port, faults, overlapped>>,
         TypeOK', Lists', Control', Alone', ~connected', Tidy',
         \A c \in Call : /\ job'[c] \in {"idle", "failed", "connect"} /\ todo'[c] = <<>>
                         /\ job'[c] = "failed" =>
                              job[c] = "failed" /\ (c \in faulted => c \in faulted')
  PROVE  IInv'
<1>1. Closure' /\ Ordered'
  BY TreeStill DEF Sane
<1>2. \A c \in Call : Progress(c)'
  BY DEF Progress
<1>3. ReadyWhenConnected' /\ FailureIsEarned'
  BY DEF IInv, ReadyWhenConnected, FailureIsEarned, gadget
<1> QED  BY <1>1, <1>2, <1>3 DEF IInv

LEMMA StartIInv == ASSUME IInv, Start PROVE IInv'
<1>1. /\ proc' = "starting" /\ faulted' = {} /\ ~connected
      /\ job' = [c \in Call |-> IF c = Main THEN "connect" ELSE "idle"]
      /\ todo' = [c \in Call |-> <<>>]
      /\ UNCHANGED <<gadget, handle, port, connected, faults, crashes, overlapped>>
  BY DEF IInv, TypeOK, Start
<1>2. TypeOK'
  BY <1>1 DEF IInv, TypeOK, FsTypeOK, gadget
<1>3. Lists'
  BY <1>1, EmptySeq DEF Lists
<1>4. Control' /\ Alone'
  BY <1>1, UsbAssumption DEF Control, Alone, Idle, Call
<1>5. Tidy'
  BY <1>1 DEF Tidy
<1>6. \A c \in Call : job'[c] \in {"idle", "connect"} /\ todo'[c] = <<>>
  BY <1>1
<1> QED  BY <1>1, <1>2, <1>3, <1>4, <1>5, <1>6, RestIInv

LEMMA ExitIInv == ASSUME IInv, Exit PROVE IInv'
<1>1. /\ proc = "ending" /\ proc' = "stopped" /\ \A c \in Call : Idle(c)
      /\ connected' = FALSE /\ handle' = NoHandles
      /\ UNCHANGED <<gadget, port, job, todo, faulted, overlapped, faults, crashes>>
  BY DEF Exit, CloseFiles, calls
<1>2. TypeOK'
  BY <1>1 DEF IInv, TypeOK, FsTypeOK, gadget, NoHandles, Idle
<1>3. Lists' /\ Control' /\ Alone' /\ Tidy'
  BY <1>1 DEF IInv, Lists, Control, Alone, Tidy, Idle, gadget
<1>4. \A c \in Call : job[c] \in {"idle", "failed"} /\ todo[c] = <<>>
  BY <1>1 DEF IInv, Progress, Idle
<1> QED  BY <1>1, <1>2, <1>3, <1>4, RestIInv

LEMMA CrashIInv == ASSUME IInv, Crash PROVE IInv'
<1>1. /\ proc' = "down" /\ crashes < MaxCrashes /\ crashes' = crashes + 1
      /\ job' = [c \in Call |-> "idle"] /\ todo' = [c \in Call |-> <<>>]
      /\ connected' = FALSE /\ handle' = NoHandles
      /\ UNCHANGED <<gadget, port, faulted, overlapped, faults>>
  BY DEF Crash, CloseFiles
<1>2. TypeOK'
  <2>1. FsTypeOK'
    BY <1>1 DEF IInv, TypeOK, FsTypeOK, gadget, NoHandles
  <2>2. crashes' \in 0 .. MaxCrashes
    BY <1>1, UsbAssumption DEF IInv, TypeOK
  <2> QED  BY <1>1, <2>1, <2>2 DEF IInv, TypeOK, Idle
<1>3. Lists'
  BY <1>1, EmptySeq DEF Lists
<1>4. Control' /\ Alone' /\ Tidy'
  BY <1>1 DEF IInv, Control, Alone, Tidy, Idle, Call
<1>5. \A c \in Call : job'[c] = "idle" /\ todo'[c] = <<>>
  BY <1>1
<1> QED  BY <1>1, <1>2, <1>3, <1>4, <1>5, RestIInv

-----------------------------------------------------------------------------
LEMMA InitIInv == Init => IInv
<1> SUFFICES ASSUME Init PROVE IInv
  OBVIOUS
<1>1. /\ here = {} /\ written = {} /\ linked = {} /\ bound = {} /\ number = Node /\ handle = NoHandles
      /\ port \in Ports /\ proc = "down" /\ connected = FALSE
      /\ job = [c \in Call |-> "idle"] /\ todo = [c \in Call |-> <<>>]
      /\ faults = 0 /\ crashes = 0 /\ faulted = {} /\ overlapped = FALSE
  BY DEF Init, FsInit
<1>2. TypeOK
  <2>1. FsTypeOK
    BY <1>1 DEF FsTypeOK, NoHandles, Node
  <2>2. faults \in 0 .. MaxFaults /\ crashes \in 0 .. MaxCrashes
    BY <1>1, UsbAssumption
  <2> QED  BY <1>1, <2>1, <2>2 DEF TypeOK, Idle
<1>3. Lists
  BY <1>1, EmptySeq DEF Lists
<1>4. Closure /\ Control /\ Alone /\ Ordered /\ Tidy
  BY <1>1 DEF Closure, Control, Alone, Ordered, Tidy, Idle, Call
<1>5. \A c \in Call : Progress(c)
  BY <1>1 DEF Progress
<1>6. ReadyWhenConnected /\ FailureIsEarned
  BY <1>1 DEF ReadyWhenConnected, FailureIsEarned
<1> QED  BY <1>2, <1>3, <1>4, <1>5, <1>6 DEF IInv

LEMMA StutterIInv == ASSUME IInv, UNCHANGED vars PROVE IInv'
<1>1. /\ UNCHANGED <<here, written, linked, bound, number, handle>>
      /\ UNCHANGED <<port, proc, job, todo, faulted, overlapped, connected, faults, crashes>>
  BY DEF vars, calls
<1>2. TypeOK' /\ Lists'
  BY <1>1 DEF IInv, TypeOK, FsTypeOK, Lists, Idle
<1>3. Closure' /\ Control' /\ Alone' /\ Ordered' /\ Tidy' /\ Sane' = Sane
  BY <1>1 DEF IInv, Closure, Control, Alone, Ordered, Tidy, Idle, Sane
<1>4. ASSUME NEW c \in Call PROVE Progress(c)'
  <2>1. \A plan, i : At(c, plan, i)' = At(c, plan, i)
    BY <1>1, <1>3 DEF At, Done, Kept, Holds
  <2>2. Setup' = Setup /\ \A i : Fresh(c, i)' = Fresh(c, i) /\ Done(c, Setup, i)' = Done(c, Setup, i)
    BY <1>1, <1>3 DEF Setup, Fresh, Done, Kept, Holds
  <2> QED  BY <1>1, <2>1, <2>2 DEF IInv, Progress
<1>5. ReadyWhenConnected' /\ FailureIsEarned'
  BY <1>1 DEF IInv, ReadyWhenConnected, FailureIsEarned, Working
<1> QED  BY <1>2, <1>3, <1>4, <1>5 DEF IInv

THEOREM Invariance == Spec => []IInv
<1>1. IInv /\ [Next]_vars => IInv'
  <2> SUFFICES ASSUME IInv, [Next]_vars PROVE IInv'
    OBVIOUS
  <2>1. ASSUME NEW c \in Call, Work(c) PROVE IInv'
    BY <2>1, StepIInv, SkipIInv, GiveUpTeardownIInv, RaiseIInv, TidiedIInv,
       PrepareIInv, SetUpIInv, ConnectedIInv, ClosedIInv DEF Work
  <2>2. ASSUME NEW c \in Call, Abandon(c) PROVE IInv'
    BY <2>2, AbandonIInv
  <2>3. ASSUME NEW c \in Requests, Reconnect(c) PROVE IInv'
    BY <2>3, ReconnectIInv
  <2>4. ASSUME Start \/ Leave \/ Exit \/ Crash PROVE IInv'
    BY <2>4, StartIInv, LeaveIInv, ExitIInv, CrashIInv
  <2>5. ASSUME UNCHANGED vars PROVE IInv'
    BY <2>5, StutterIInv
  <2> QED  BY <2>1, <2>2, <2>3, <2>4, <2>5 DEF Next
<1> QED  BY <1>1, InitIInv, PTL DEF Spec

\* The types, and a process that is not there holds no file and runs no call.
THEOREM TypeCorrect == Spec => []TypeOK
<1>1. IInv => TypeOK
  BY DEF IInv
<1> QED  BY <1>1, Invariance, PTL

\* connect() says that it is connected only when the host sees both devices and
\* each file is that of its own: in the Python and in the Rust port whatever
\* operations have failed and whatever earlier processes have left, as long as
\* no two calls overlap; in the C port, which looks at few errors, as long as
\* none has failed by itself.
THEOREM ReadyWhenConnectedHolds == Spec => []ReadyWhenConnected
<1>1. IInv => ReadyWhenConnected
  BY DEF IInv
<1> QED  BY <1>1, Invariance, PTL

\* connect() does not fail because of what was left behind: in the Python port
\* only for a fault of this very call.
THEOREM FailureIsEarnedHolds == Spec => []FailureIsEarned
<1>1. IInv => FailureIsEarned
  BY DEF IInv
<1> QED  BY <1>1, Invariance, PTL

\* When the Python daemon has stopped, and its disconnect has met no fault,
\* nothing is left of the gadget, in whatever state it found it.
THEOREM TidyAfterDisconnectHolds == Spec => []TidyAfterDisconnect
<1>1. IInv => TidyAfterDisconnect
  BY DEF IInv, Tidy, TidyAfterDisconnect
<1> QED  BY <1>1, Invariance, PTL
-----------------------------------------------------------------------------
\* The reports of the C port.

\* The end of the mouse's part is that of the whole: places are counted from
\* the beginning of the whole descriptor.
Position == IF part = "mouse" THEN at + KeyboardEnd ELSE at

\* Where the items begin: those of the keyboard, those of the mouse after its
\* report ID, and what the host takes for items at the cut.
KeyboardItems == {0, 2, 4, 6, 8, 10, 12, 14, 16, 18, 20, 22, 24, 26, 28, 30, 32, 34, 36, 38, 40, 42,
                  44, 46, 48, 50, 52, 54, 56, 58, 60, 62}
BetweenItems == {64, 65, 67, 69}
MouseItems == {71, 73, 75, 77, 79, 81, 83, 85, 87, 89, 91, 93, 95, 97, 99, 101, 103, 105, 107, 109,
               111, 113, 115, 117, 118, 119}
CutItems == {63, 68}

Placed ==
  \/ part = "combined" /\ Position \in KeyboardItems \cup BetweenItems \cup MouseItems
  \/ part = "keyboard" /\ Position \in KeyboardItems
  \/ part = "mouse" /\ Position \in CutItems \cup MouseItems

Globals == [page : Int, size : Int, count : Int, id : Int, min : Int]

\* The field in which the host reads the movement.
Pointer == [globals |-> [page |-> 1, size |-> 8, count |-> 3, id |-> 2, min |-> 129],
            at |-> 8, flags |-> 6]

\* What the host has at each place when it comes to that field.
Inherited ==
  /\ globals \in Globals
  /\ Position <= 71 => globals.id # 2
  /\ Position >= 73 => globals.id = 2
  /\ Position >= 79 /\ Position <= 99 => globals.page = 9
  /\ Position >= 101 => globals.page = 1
  /\ Position >= 89 /\ Position <= 93 => globals.count = 3
  /\ Position >= 95 /\ Position <= 113 => globals.count = 1
  /\ Position >= 115 => globals.count = 3
  /\ Position >= 91 /\ Position <= 95 => globals.size = 1
  /\ Position >= 97 /\ Position <= 111 => globals.size = 5
  /\ Position >= 113 => globals.size = 8
  /\ Position >= 109 => globals.min = 129

Length ==
  /\ DOMAIN bits = {0, 1, 2}
  /\ Position <= 91 => bits[2] = 0
  /\ Position >= 93 /\ Position <= 97 => bits[2] = 3
  /\ Position >= 99 /\ Position <= 115 => bits[2] = 8

PointerFound ==
  /\ \A g \in fields : g.globals.id = 2 /\ g.globals.page = 1 => g = Pointer
  /\ Position >= 117 => Pointer \in fields

HostInv ==
  /\ part \in {"combined", "keyboard", "mouse"} /\ at \in Nat
  /\ Placed /\ Inherited /\ Length /\ PointerFound
  /\ verdict = "accepted" => Position = 119

\* The jiggle is undone from where the pointer is.
JiggleInv ==
  /\ max_delta \in Int /\ pointer[1] \in Int /\ pointer[2] \in Int
  /\ delta[1] \in Int /\ delta[2] \in Int
  /\ jpc \in {"off", "waiting", "moved", "ended"}
  /\ jpc # "off" => verdict = "accepted"
  /\ jpc = "off" => pointer[1] = 0 /\ pointer[2] = 0
  /\ max_delta \in -126 .. 126 /\ ~lost =>
       /\ jpc = "moved" => /\ pointer[1] = delta[1] /\ pointer[2] = delta[2]
                           /\ delta[1] \in -126 .. 126 /\ delta[2] \in -126 .. 126
                           /\ delta[1] # 0 \/ delta[2] # 0
       /\ jpc = "waiting" => pointer[1] \in -1 .. 1 /\ pointer[2] \in -1 .. 1

ReportsInv == HostInv /\ JiggleInv
-----------------------------------------------------------------------------
LEMMA Lengths ==
  /\ Len(HID_DESCRIPTOR) = 119 /\ DOMAIN Bytes = {"combined", "keyboard", "mouse"}
  /\ Len(Bytes["combined"]) = 119 /\ Len(Bytes["keyboard"]) = 63 /\ Len(Bytes["mouse"]) = 56
  /\ \A i \in 1 .. 119 : Bytes["combined"][i] = HID_DESCRIPTOR[i]
  /\ \A i \in 1 .. 63 : Bytes["keyboard"][i] = HID_DESCRIPTOR[i]
  /\ \A i \in 1 .. 56 : Bytes["mouse"][i] = HID_DESCRIPTOR[i + 63]
<1>1. Len(HID_DESCRIPTOR) = 119
  BY DEF HID_DESCRIPTOR
<1>2. HID_DESCRIPTOR \in Seq(Nat)
  BY DEF HID_DESCRIPTOR
<1>3. /\ Bytes["combined"] = HID_DESCRIPTOR /\ Bytes["keyboard"] = SubSeq(HID_DESCRIPTOR, 1, 63)
      /\ Bytes["mouse"] = SubSeq(HID_DESCRIPTOR, 64, 119)
      /\ DOMAIN Bytes = {"combined", "keyboard", "mouse"}
  <2>1. KeyboardEnd + 1 = 64
    BY DEF KeyboardEnd
  <2> QED
    BY <1>1, <2>1 DEF Bytes, KeyboardEnd
<1>4. /\ Len(SubSeq(HID_DESCRIPTOR, 1, 63)) = 63 /\ Len(SubSeq(HID_DESCRIPTOR, 64, 119)) = 56
      /\ \A i \in 1 .. 63 : SubSeq(HID_DESCRIPTOR, 1, 63)[i] = HID_DESCRIPTOR[i]
      /\ \A i \in 1 .. 56 : SubSeq(HID_DESCRIPTOR, 64, 119)[i] = HID_DESCRIPTOR[i + 63]
  BY <1>1, <1>2, SubSeqProperties
<1> QED
  BY <1>1, <1>3, <1>4

\* The byte that begins an item, and the one after it, by their place in the whole.
LEMMA ByPosition ==
  ASSUME HostInv
  PROVE /\ Position \in Nat
        /\ Left = (IF part = "keyboard" THEN 63 ELSE 119) - Position
        /\ Left > 0 => Prefix = HID_DESCRIPTOR[Position + 1]
        /\ Left > 1 => Bytes[part][at + 2] = HID_DESCRIPTOR[Position + 2]
<1>1. CASE part = "combined"
  <2>1. Position = at /\ at \in Nat /\ Left = 119 - at
    BY <1>1, Lengths DEF HostInv, Position, Left
  <2> QED
    BY <1>1, <2>1, Lengths DEF Prefix
<1>2. CASE part = "keyboard"
  <2>1. Position = at /\ at \in Nat /\ Left = 63 - at
    BY <1>2, Lengths DEF HostInv, Position, Left
  <2> QED
    BY <1>2, <2>1, Lengths DEF Prefix
<1>3. CASE part = "mouse"
  <2>1. Position = at + 63 /\ at \in Nat /\ Left = 56 - at
    BY <1>3, Lengths DEF HostInv, Position, Left, KeyboardEnd
  <2>2. Left > 0 => at + 1 \in 1 .. 56 /\ (at + 1) + 63 = Position + 1
    BY <2>1
  <2>3. Left > 1 => at + 2 \in 1 .. 56 /\ (at + 2) + 63 = Position + 2
    BY <2>1
  <2> QED
    BY <1>3, <2>1, <2>2, <2>3, Lengths DEF Prefix
<1> QED
  BY <1>1, <1>2, <1>3 DEF HostInv

\* A whole item in front of the mouse's report ID does not set that ID, and the
\* next one begins where one is expected.
LEMMA BeforeTheMouse ==
  ASSUME HostInv, Whole, Position \in KeyboardItems \cup BetweenItems \cup CutItems
  PROVE /\ DataLength \in {0, 1, 2, 4}
        /\ Position + 1 + DataLength \in
             IF Position \in KeyboardItems THEN KeyboardItems \cup {64}
             ELSE IF Position \in BetweenItems THEN BetweenItems \cup {71} ELSE CutItems \cup {71}
        /\ Position + 1 + DataLength <= 71
        /\ Item = \h84 => Data # 2
<1>1. Left > 0 /\ Prefix = HID_DESCRIPTOR[Position + 1]
  BY ByPosition DEF Whole
<1>2. DataLength = 1 => Data = HID_DESCRIPTOR[Position + 2]
  BY ByPosition DEF Data, Whole, HostInv
<1>3. CASE Position \in KeyboardItems
  <2>1. \A p \in KeyboardItems :
          /\ HID_DESCRIPTOR[p + 1] % 4 = 1 /\ p + 2 \in KeyboardItems \cup {64} /\ p + 2 <= 71
          /\ HID_DESCRIPTOR[p + 1] - (HID_DESCRIPTOR[p + 1] % 4) = \h84 =>
               HID_DESCRIPTOR[p + 2] # 2
    BY DEF KeyboardItems, HID_DESCRIPTOR
  <2>2. DataLength = 1
    BY <1>1, <1>3, <2>1 DEF DataLength
  <2> QED
    BY <1>1, <1>2, <1>3, <2>1, <2>2 DEF Item, KeyboardItems
<1>4. CASE Position \in BetweenItems
  <2>1. \A p \in BetweenItems :
          /\ HID_DESCRIPTOR[p + 1] % 4 = (IF p = 64 THEN 0 ELSE 1)
          /\ HID_DESCRIPTOR[p + 1] - (HID_DESCRIPTOR[p + 1] % 4) # \h84
    BY DEF BetweenItems, HID_DESCRIPTOR
  <2>2. DataLength = IF Position = 64 THEN 0 ELSE 1
    BY <1>1, <1>4, <2>1 DEF DataLength
  <2> QED
    BY <1>1, <1>4, <2>1, <2>2 DEF Item, BetweenItems, KeyboardItems
<1>5. CASE Position \in CutItems
  <2>1. \A p \in CutItems :
          /\ HID_DESCRIPTOR[p + 1] % 4 = (IF p = 63 THEN 3 ELSE 2)
          /\ HID_DESCRIPTOR[p + 1] - (HID_DESCRIPTOR[p + 1] % 4) # \h84
    BY DEF CutItems, HID_DESCRIPTOR
  <2>2. DataLength = IF Position = 63 THEN 4 ELSE 2
    BY <1>1, <1>5, <2>1 DEF DataLength, CutItems
  <2> QED
    BY <1>1, <1>5, <2>1, <2>2 DEF Item, CutItems, BetweenItems, KeyboardItems
<1> QED
  BY <1>3, <1>4, <1>5

\* The mouse's items, up to the two that end its collections.
LEMMA InTheMouse ==
  ASSUME HostInv, Whole, Position \in MouseItems
  PROVE /\ Position # 119
        /\ DataLength = (IF Position \in {117, 118} THEN 0 ELSE 1)
        /\ Position + 1 + DataLength \in MouseItems
        /\ Item = \h84 <=> Position = 71
        /\ Item = \h80 <=> Position \in {91, 97, 115}
        /\ Item = \h04 <=> Position \in {77, 99}
        /\ Item = \h74 <=> Position \in {89, 95, 111}
        /\ Item = \h94 <=> Position \in {87, 93, 113}
        /\ Item = \h14 <=> Position \in {83, 107}
        /\ Position \in {71, 77, 87, 89, 93, 95, 99, 107, 111, 113, 115} =>
             Data = (CASE Position = 71 -> 2 [] Position = 77 -> 9 [] Position = 87 -> 3
                       [] Position = 89 -> 1 [] Position = 93 -> 1 [] Position = 95 -> 5
                       [] Position = 99 -> 1 [] Position = 107 -> 129 [] Position = 111 -> 8
                       [] Position = 113 -> 3 [] Position = 115 -> 6)
<1>1. Left > 0 /\ Prefix = HID_DESCRIPTOR[Position + 1] /\ Position # 119
  BY ByPosition DEF Whole
<1>2. DataLength = 1 => Data = HID_DESCRIPTOR[Position + 2]
  BY ByPosition DEF Data, Whole, HostInv
<1>3. \A p \in MouseItems \ {119} :
        /\ HID_DESCRIPTOR[p + 1] % 4 = (IF p \in {117, 118} THEN 0 ELSE 1)
        /\ (IF p \in {117, 118} THEN p + 1 ELSE p + 2) \in MouseItems
  BY DEF MouseItems, HID_DESCRIPTOR
<1>4. \A p \in MouseItems \ {119} :
        LET item == HID_DESCRIPTOR[p + 1] - (HID_DESCRIPTOR[p + 1] % 4) IN
        /\ item = \h84 <=> p = 71
        /\ item = \h80 <=> p \in {91, 97, 115}
        /\ item = \h04 <=> p \in {77, 99}
        /\ item = \h74 <=> p \in {89, 95, 111}
        /\ item = \h94 <=> p \in {87, 93, 113}
        /\ item = \h14 <=> p \in {83, 107}
  BY DEF MouseItems, HID_DESCRIPTOR
<1>5. DataLength = IF Position \in {117, 118} THEN 0 ELSE 1
  BY <1>1, <1>3 DEF DataLength
<1>6. Position + 1 + DataLength \in MouseItems
  BY <1>1, <1>3, <1>5, ByPosition
<1>7. Position \in {71, 77, 87, 89, 93, 95, 99, 107, 111, 113, 115} =>
             Data = (CASE Position = 71 -> 2 [] Position = 77 -> 9 [] Position = 87 -> 3
                       [] Position = 89 -> 1 [] Position = 93 -> 1 [] Position = 95 -> 5
                       [] Position = 99 -> 1 [] Position = 107 -> 129 [] Position = 111 -> 8
                       [] Position = 113 -> 3 [] Position = 115 -> 6)
  BY <1>2, <1>5 DEF HID_DESCRIPTOR
<1> QED
  BY <1>1, <1>4, <1>5, <1>6, <1>7 DEF Item

LEMMA DataIsNumber ==
  ASSUME HostInv, Whole, DataLength \in {0, 1, 2, 4}
  PROVE Data \in Int
<1>1. CASE DataLength = 0
  BY <1>1 DEF Data
<1>2. CASE DataLength # 0
  <2>1. Left > 1 /\ Position + 2 \in 1 .. 119
    BY <1>2, ByPosition DEF Whole
  <2>2. \A i \in 1 .. 119 : HID_DESCRIPTOR[i] \in Int
    BY DEF HID_DESCRIPTOR
  <2>3. Data = HID_DESCRIPTOR[Position + 2]
    BY <1>2, <2>1, ByPosition DEF Data
  <2> QED
    BY <2>1, <2>2, <2>3
<1> QED
  BY <1>1, <1>2

\* From an item to the next.
LEMMA TakeMoves ==
  ASSUME HostInv, Take
  PROVE /\ part' = part /\ at' \in Nat /\ Placed' /\ verdict' = "reading"
        /\ Position' = Position + 1 + DataLength
        /\ DataLength \in {0, 1, 2, 4} /\ Data \in Int
        /\ \/ Position \in KeyboardItems \cup BetweenItems \cup CutItems /\ Position' <= 71
           \/ Position \in MouseItems
<1>1. Whole /\ at' = at + 1 + DataLength /\ part' = part /\ verdict' = "reading"
  BY DEF Take
<1>2. \/ Position \in KeyboardItems \cup BetweenItems \cup CutItems
      \/ Position \in MouseItems
  BY DEF HostInv, Placed
<1>3. DataLength \in {0, 1, 2, 4}
  BY <1>1, <1>2, BeforeTheMouse, InTheMouse
<1>4. at' \in Nat /\ Position' = Position + 1 + DataLength
  BY <1>1, <1>3 DEF HostInv, Position, KeyboardEnd
<1>5. Data \in Int
  BY <1>1, <1>3, DataIsNumber
<1>6. Position \in KeyboardItems \cup BetweenItems \cup CutItems => Position' <= 71
  BY <1>1, <1>4, BeforeTheMouse
<1>7. Placed'
  <2>1. CASE part = "keyboard"
    <3>1. Position \in KeyboardItems
      BY <2>1 DEF HostInv, Placed
    <3>2. Position' \in KeyboardItems \cup {64}
      BY <1>1, <1>4, <3>1, BeforeTheMouse
    <3>3. Position' <= 63
      BY <1>1, <1>3, <1>4, <2>1, ByPosition DEF Whole
    <3> QED
      BY <1>1, <2>1, <3>2, <3>3 DEF Placed, KeyboardItems
  <2>2. CASE part = "combined"
    <3>1. Position \in KeyboardItems \cup BetweenItems \cup MouseItems
      BY <2>2 DEF HostInv, Placed
    <3>2. Position' \in KeyboardItems \cup BetweenItems \cup MouseItems
      BY <1>1, <1>4, <3>1, BeforeTheMouse, InTheMouse DEF BetweenItems, MouseItems
    <3> QED
      BY <1>1, <2>2, <3>2 DEF Placed
  <2>3. CASE part = "mouse"
    <3>1. Position \in CutItems \cup MouseItems
      BY <2>3 DEF HostInv, Placed
    <3>2. Position \in CutItems => Position \notin KeyboardItems \cup BetweenItems
      BY DEF CutItems, KeyboardItems, BetweenItems
    <3>3. Position' \in CutItems \cup MouseItems
      BY <1>1, <1>4, <3>1, <3>2, BeforeTheMouse, InTheMouse DEF MouseItems
    <3> QED
      BY <1>1, <2>3, <3>3 DEF Placed
  <2> QED
    BY <2>1, <2>2, <2>3 DEF HostInv
<1> QED
  BY <1>1, <1>2, <1>3, <1>4, <1>5, <1>6, <1>7

\* In front of the mouse's report ID, no item adds to the mouse's report.
LEMMA TakeBefore ==
  ASSUME HostInv, Take, Position' <= 71, Position # 71,
         \/ \E g \in DOMAIN Global : TakeGlobal(g)
         \/ TakeInput
         \/ UNCHANGED <<globals, bits, fields>>,
         Position \in KeyboardItems \cup BetweenItems \cup CutItems
  PROVE Inherited' /\ Length' /\ PointerFound'
<1> DEFINE q == Position'
<1>1. /\ globals \in Globals /\ globals.id # 2 /\ Position <= 71 /\ Position \in Int
      /\ DOMAIN bits = {0, 1, 2} /\ bits[2] = 0
      /\ \A g \in fields : g.globals.id = 2 /\ g.globals.page = 1 => g = Pointer
      /\ Data \in Int /\ q \in Int
  <2>1. Position <= 71 /\ Position \in Int
    BY DEF KeyboardItems, BetweenItems, CutItems
  <2>2. q \in Int
    BY TakeMoves, <2>1
  <2> QED
    BY <2>1, <2>2, TakeMoves DEF HostInv, Inherited, Length, PointerFound
<1>2. globals' \in Globals /\ globals'.id # 2
  <2>1. ASSUME NEW g \in DOMAIN Global, TakeGlobal(g)
        PROVE globals' \in Globals /\ globals'.id # 2
    <3>1. g \in {"page", "size", "count", "id", "min"} /\ Global["id"] = \h84
      BY <2>1 DEF Global
    <3>2. g = "id" => Data # 2
      BY <2>1, <3>1, BeforeTheMouse DEF TakeGlobal, Take
    <3> QED
      BY <1>1, <2>1, <3>1, <3>2 DEF TakeGlobal, Globals
  <2> QED
    BY <1>1, <2>1 DEF TakeInput
<1>3. DOMAIN bits' = {0, 1, 2} /\ bits'[2] = 0
  BY <1>1 DEF TakeInput, TakeGlobal
<1>4. \A g \in fields' : g.globals.id = 2 /\ g.globals.page = 1 => g = Pointer
  BY <1>1 DEF TakeInput, TakeGlobal
<1> QED
  BY <1>1, <1>2, <1>3, <1>4 DEF Inherited, Length, PointerFound

\* What the mouse's items find.
LEMMA MouseHas ==
  ASSUME HostInv, Take, Position \in MouseItems
  PROVE /\ Position \in MouseItems \ {119}
        /\ Position' = (IF Position \in {117, 118} THEN Position + 1 ELSE Position + 2)
        /\ Inherited /\ Length /\ PointerFound /\ Data \in Int
<1>1. Whole
  BY DEF Take
<1> QED
  BY <1>1, TakeMoves, InTheMouse DEF HostInv, MouseItems

LEMMA GlobalInMouse ==
  ASSUME HostInv, Position \in MouseItems, NEW g \in DOMAIN Global, TakeGlobal(g)
  PROVE Inherited' /\ Length' /\ PointerFound'
<1>1. Take /\ Whole /\ Item = Global[g] /\ UNCHANGED <<bits, fields>>
      /\ globals' = [globals EXCEPT ![g] = Data]
  BY DEF TakeGlobal, Take
<1>2. /\ Position \in MouseItems \ {119}
      /\ Position' = (IF Position \in {117, 118} THEN Position + 1 ELSE Position + 2)
      /\ Inherited /\ Length /\ PointerFound /\ Data \in Int
  BY <1>1, MouseHas
<1>3. \/ g = "id" /\ <<Position, Data>> = <<71, 2>>
      \/ g = "page" /\ <<Position, Data>> \in {<<77, 9>>, <<99, 1>>}
      \/ g = "size" /\ <<Position, Data>> \in {<<89, 1>>, <<95, 5>>, <<111, 8>>}
      \/ g = "count" /\ <<Position, Data>> \in {<<87, 3>>, <<93, 1>>, <<113, 3>>}
      \/ g = "min" /\ (Position = 83 \/ <<Position, Data>> = <<107, 129>>)
  <2>1. <<g, Item>> \in {<<"id", \h84>>, <<"page", \h04>>, <<"size", \h74>>, <<"count", \h94>>,
                         <<"min", \h14>>}
    BY <1>1 DEF Global
  <2> QED
    BY <1>1, <2>1, InTheMouse
<1>4. Inherited'
  <2>1. globals' \in Globals
    BY <1>1, <1>2, <1>3 DEF Inherited, Globals
  <2>2. CASE g = "id"
    BY <1>1, <1>2, <1>3, <2>1, <2>2 DEF Inherited, Globals
  <2>3. CASE g = "page"
    BY <1>1, <1>2, <1>3, <2>1, <2>3 DEF Inherited, Globals
  <2>4. CASE g = "size"
    BY <1>1, <1>2, <1>3, <2>1, <2>4 DEF Inherited, Globals
  <2>5. CASE g = "count"
    BY <1>1, <1>2, <1>3, <2>1, <2>5 DEF Inherited, Globals
  <2>6. CASE g = "min"
    BY <1>1, <1>2, <1>3, <2>1, <2>6 DEF Inherited, Globals
  <2> QED
    BY <1>3, <2>2, <2>3, <2>4, <2>5, <2>6
<1>5. Length' /\ PointerFound'
  BY <1>1, <1>2, <1>3 DEF Length, PointerFound, MouseItems
<1> QED
  BY <1>4, <1>5

LEMMA InputInMouse ==
  ASSUME HostInv, Position \in MouseItems, TakeInput
  PROVE Inherited' /\ Length' /\ PointerFound'
<1>1. Take /\ Whole /\ Item = \h80 /\ UNCHANGED globals
      /\ fields' = fields \cup {[globals |-> globals, at |-> bits[globals.id], flags |-> Data]}
      /\ bits' = [bits EXCEPT ![globals.id] = @ + globals.size * globals.count]
  BY DEF TakeInput, Take, Input
<1>2. /\ Position \in {91, 97, 115} /\ Position' = Position + 2 /\ globals.id = 2
      /\ Inherited /\ Length /\ PointerFound /\ Data \in Int
  BY <1>1, MouseHas, InTheMouse DEF Inherited
<1>3. Inherited'
  BY <1>1, <1>2 DEF Inherited
<1>4. CASE Position = 91
  <2>1. bits[2] = 0 /\ globals.size = 1 /\ globals.count = 3 /\ globals.page = 9
    BY <1>2, <1>4 DEF Inherited, Length
  <2> QED
    BY <1>1, <1>2, <1>3, <1>4, <2>1 DEF Length, PointerFound
<1>5. CASE Position = 97
  <2>1. bits[2] = 3 /\ globals.size = 5 /\ globals.count = 1 /\ globals.page = 9
    BY <1>2, <1>5 DEF Inherited, Length
  <2> QED
    BY <1>1, <1>2, <1>3, <1>5, <2>1 DEF Length, PointerFound
<1>6. CASE Position = 115
  <2>1. bits[2] = 8 /\ Data = 6
    BY <1>1, <1>2, <1>6, InTheMouse DEF Length
  <2>2. globals = [page |-> 1, size |-> 8, count |-> 3, id |-> 2, min |-> 129]
    BY <1>2, <1>6 DEF Inherited, Globals
  <2>3. [globals |-> globals, at |-> bits[globals.id], flags |-> Data] = Pointer
    BY <1>2, <2>1, <2>2 DEF Pointer
  <2>4. PointerFound'
    BY <1>1, <1>2, <2>3 DEF PointerFound
  <2>5. Length'
    BY <1>1, <1>2, <1>6 DEF Length
  <2> QED
    BY <1>3, <2>4, <2>5
<1> QED
  BY <1>2, <1>4, <1>5, <1>6

LEMMA OtherInMouse ==
  ASSUME HostInv, Position \in MouseItems, Take, UNCHANGED <<globals, bits, fields>>,
         Item \notin {\h84, \h80, \h04, \h74, \h94, \h14}
  PROVE Inherited' /\ Length' /\ PointerFound'
<1>1. /\ Position \in MouseItems \ {119}
      /\ Position' = (IF Position \in {117, 118} THEN Position + 1 ELSE Position + 2)
      /\ Inherited /\ Length /\ PointerFound
  BY MouseHas
<1>2. Position \notin {71, 77, 83, 87, 89, 91, 93, 95, 97, 99, 107, 111, 113, 115}
  BY InTheMouse DEF Take
<1>3. Position \in {73, 75, 79, 81, 85, 101, 103, 105, 109, 117, 118}
  BY <1>1, <1>2 DEF MouseItems
<1>4. Inherited'
  BY <1>1, <1>3 DEF Inherited
<1> QED
  BY <1>1, <1>3, <1>4 DEF Length, PointerFound

LEMMA HostStarts ==
  ASSUME HidInit
  PROVE HostInv
<1>1. part \in {"combined", "keyboard", "mouse"} /\ at = 0 /\ verdict = "reading" /\ fields = {}
  BY Lengths DEF HidInit
<1>2. Position = IF part = "mouse" THEN 63 ELSE 0
  BY <1>1 DEF Position, KeyboardEnd
<1>3. Placed
  BY <1>1, <1>2 DEF Placed, KeyboardItems, CutItems
<1>4. Inherited
  BY <1>2 DEF HidInit, Inherited, Globals
<1>5. Length
  BY <1>2 DEF HidInit, Length, KeyboardId, MouseId
<1> QED
  BY <1>1, <1>2, <1>3, <1>4, <1>5 DEF HostInv, PointerFound

LEMMA HostStep ==
  ASSUME HostInv, HostReads
  PROVE HostInv'
<1>1. CASE Take /\ \/ \E g \in DOMAIN Global : TakeGlobal(g)
                   \/ TakeInput
                   \/ /\ UNCHANGED <<globals, bits, fields>>
                      /\ Item \notin {\h84, \h80, \h04, \h74, \h94, \h14}
  <2>1. Inherited' /\ Length' /\ PointerFound'
    <3>1. CASE Position \in MouseItems
      BY <1>1, <3>1, GlobalInMouse, InputInMouse, OtherInMouse
    <3>2. CASE Position \in KeyboardItems \cup BetweenItems \cup CutItems /\ Position' <= 71
      <4>1. Position # 71
        BY <3>2 DEF KeyboardItems, BetweenItems, CutItems
      <4> QED
        BY <1>1, <3>2, <4>1, TakeBefore
    <3> QED
      BY <1>1, <3>1, <3>2, TakeMoves
  <2> QED
    BY <1>1, <2>1, TakeMoves DEF HostInv
<1>2. CASE Begin \/ End \/ TakeOther
  <2>1. Take /\ UNCHANGED <<globals, bits, fields>>
    BY <1>2 DEF Begin, End, TakeOther
  <2>2. Item \notin {\h84, \h80, \h04, \h74, \h94, \h14}
    <3>1. CASE Begin \/ End
      BY <3>1 DEF Begin, End, Collection, EndCollection
    <3>2. CASE TakeOther
      <4>1. {\h84, \h04, \h74, \h94, \h14} \subseteq Range(Global)
        BY DEF Range, Global
      <4> QED
        BY <3>2, <4>1 DEF TakeOther, Input
    <3> QED
      BY <1>2, <3>1, <3>2
  <2> QED
    BY <1>1, <2>1, <2>2
<1>3. CASE Reject \/ ReadAll
  <2>1. UNCHANGED <<part, at, globals, bits, fields>> /\ Position' = Position
    BY <1>3 DEF Reject, ReadAll, Position
  <2>2. Placed' /\ Inherited' /\ Length' /\ PointerFound'
    BY <2>1 DEF HostInv, Placed, Inherited, Length, PointerFound
  <2>3. verdict' = "accepted" => Position = 119
    <3>1. verdict' = "accepted" => Left = 0
      BY <1>3 DEF Reject, ReadAll
    <3>2. part = "keyboard" => Position # 63
      BY DEF HostInv, Placed, KeyboardItems
    <3> QED
      BY <3>1, <3>2, ByPosition
  <2> QED
    BY <2>1, <2>2, <2>3 DEF HostInv
<1> QED
  BY <1>1, <1>2, <1>3 DEF HostReads, TakeGlobal, TakeInput

-----------------------------------------------------------------------------
\* A host that has read to the end moves its pointer by the bytes of a report,
\* as signed ones.
LEMMA Moves ==
  ASSUME HostInv, verdict = "accepted", NEW d, d[1] \in Int, d[2] \in Int, NEW i \in 1 .. 2
  PROVE /\ Movement(MouseReport(d))[i] \in Int
        /\ d[i] \in -128 .. 127 => Movement(MouseReport(d))[i] = d[i]
<1> DEFINE r == MouseReport(d)
           f == CHOOSE g \in fields : g.globals.id = r[1] /\ g.globals.page = \h01 /\ g.flags = \h06
<1>1. /\ DOMAIN r = 1 .. 5 /\ r[1] = 2 /\ r[3] = d[1] % 256 /\ r[4] = d[2] % 256
  BY DEF MouseReport, MouseId, Byte
<1>2. Pointer \in fields /\ \A g \in fields : g.globals.id = 2 /\ g.globals.page = 1 => g = Pointer
  BY DEF HostInv, PointerFound
<1>3. f = Pointer
  <2>1. Pointer.globals.id = 2 /\ Pointer.globals.page = 1 /\ Pointer.flags = 6
    BY DEF Pointer
  <2> QED
    BY <1>1, <1>2, <2>1
<1>4. /\ Pointer.at = 8 /\ Pointer.globals.size = 8 /\ Pointer.globals.count = 3
      /\ Pointer.globals.min = 129
  BY DEF Pointer
<1>5. Movement(r)[i] = Value(r, Pointer, i - 1)
  <2>1. Movement(r) = [j \in 1 .. f.globals.count |-> Value(r, f, j - 1)]
    BY DEF Movement, Values
  <2> HIDE DEF f
  <2>2. Movement(r) = [j \in 1 .. 3 |-> Value(r, Pointer, j - 1)]
    BY <1>3, <1>4, <2>1
  <2> QED
    BY <2>2
<1>6. Slot(r, Pointer, i - 1) = d[i] % 256
  <2>1. 2^8 = 256 /\ 2^0 = 1
    OBVIOUS
  <2>2. CASE i = 1
    <3> DEFINE bit == Pointer.at + (i - 1) * Pointer.globals.size
    <3>1. bit = 8 /\ bit \div 8 = 1 /\ bit % 8 = 0 /\ 2 + bit \div 8 \in DOMAIN r
      BY <1>1, <1>4, <2>2
    <3>2. Slot(r, Pointer, i - 1) =
            ((IF 2 + bit \div 8 \in DOMAIN r THEN r[2 + bit \div 8] ELSE 0) \div 2^(bit % 8))
              % 2^Pointer.globals.size
      BY DEF Slot
    <3> HIDE DEF bit, r
    <3> QED
      BY <1>1, <1>4, <2>1, <2>2, <3>1, <3>2
  <2>3. CASE i = 2
    <3> DEFINE bit == Pointer.at + (i - 1) * Pointer.globals.size
    <3>1. bit = 16 /\ bit \div 8 = 2 /\ bit % 8 = 0 /\ 2 + bit \div 8 \in DOMAIN r
      BY <1>1, <1>4, <2>3
    <3>2. Slot(r, Pointer, i - 1) =
            ((IF 2 + bit \div 8 \in DOMAIN r THEN r[2 + bit \div 8] ELSE 0) \div 2^(bit % 8))
              % 2^Pointer.globals.size
      BY DEF Slot
    <3> HIDE DEF bit, r
    <3> QED
      BY <1>1, <1>4, <2>1, <2>3, <3>1, <3>2
  <2> QED
    BY <2>2, <2>3
<1>7. d[i] \in Int
  OBVIOUS
<1> HIDE DEF r
<1> QED
  BY <1>4, <1>5, <1>6, <1>7 DEF Value, r

\* What becomes of the pointer when a move of d is sent.
LEMMA Sends ==
  ASSUME HostInv, JiggleInv, verdict = "accepted", NEW d, d[1] \in Int, d[2] \in Int, SendMouse(d)
  PROVE /\ pointer'[1] \in Int /\ pointer'[2] \in Int
        /\ ~lost' => ~lost
        /\ ~lost' /\ d[1] \in -128 .. 127 /\ d[2] \in -128 .. 127 =>
             pointer'[1] = pointer[1] + d[1] /\ pointer'[2] = pointer[2] + d[2]
<1>1. pointer[1] \in Int /\ pointer[2] \in Int
  BY DEF JiggleInv
<1>2. /\ Movement(MouseReport(d))[1] \in Int /\ Movement(MouseReport(d))[2] \in Int
      /\ d[1] \in -128 .. 127 => Movement(MouseReport(d))[1] = d[1]
      /\ d[2] \in -128 .. 127 => Movement(MouseReport(d))[2] = d[2]
  BY Moves
<1> QED
  BY <1>1, <1>2 DEF SendMouse

LEMMA JiggleStep ==
  ASSUME HostInv, JiggleInv, verdict = "accepted", verdict' = verdict, JigglerStep
  PROVE JiggleInv'
<1> USE DEF JiggleInv
<1>1. CASE StartJiggler
  BY <1>1 DEF StartJiggler
<1>2. CASE StopJiggler
  BY <1>2 DEF StopJiggler
<1>3. CASE Rest
  BY <1>3 DEF Rest
<1>4. CASE Move
  <2>1. PICK max_d \in {max_delta} \cup RandRange(10, 20) :
          \E dx, dy \in RandRange(-max_d, max_d) :
            delta' = NonZero(<<dx, dy>>) /\ SendMouse(NonZero(<<dx, dy>>))
    BY <1>4 DEF Move
  <2>2. PICK dx \in RandRange(-max_d, max_d), dy \in RandRange(-max_d, max_d) :
          delta' = NonZero(<<dx, dy>>) /\ SendMouse(NonZero(<<dx, dy>>))
    BY <2>1
  <2>3. max_d \in Int /\ (max_delta \in -126 .. 126 => max_d \in -126 .. 126)
    BY DEF RandRange
  <2>4. /\ dx \in Int /\ dy \in Int
        /\ max_d \in -126 .. 126 => dx \in -126 .. 126 /\ dy \in -126 .. 126
    BY <2>3 DEF RandRange
  <2>5. /\ delta'[1] \in Int /\ delta'[2] \in Int /\ (delta'[1] # 0 \/ delta'[2] # 0)
        /\ max_d \in -126 .. 126 => delta'[1] \in -126 .. 126 /\ delta'[2] \in -126 .. 126
    BY <2>2, <2>4 DEF NonZero
  <2>6. /\ pointer'[1] \in Int /\ pointer'[2] \in Int
        /\ ~lost' /\ delta'[1] \in -128 .. 127 /\ delta'[2] \in -128 .. 127 =>
             pointer'[1] = pointer[1] + delta'[1] /\ pointer'[2] = pointer[2] + delta'[2]
    BY <2>2, <2>5, Sends
  <2>7. pointer[1] = 0 /\ pointer[2] = 0 /\ max_delta' = max_delta /\ jpc' = "moved"
    BY <1>4 DEF Move, NoTrace
  <2> QED
    BY <2>3, <2>5, <2>6, <2>7
<1>5. CASE Return
  <2>1. PICK ox \in RandRange(-1, 1), oy \in RandRange(-1, 1) :
          SendMouse(<<ox - delta[1], oy - delta[2]>>)
    BY <1>5 DEF Return
  <2>2. ox \in -1 .. 1 /\ oy \in -1 .. 1
    BY DEF RandRange
  <2> DEFINE d == <<ox - delta[1], oy - delta[2]>>
  <2>3. /\ d[1] = ox - delta[1] /\ d[2] = oy - delta[2] /\ d[1] \in Int /\ d[2] \in Int
    BY <2>2
  <2>4. /\ pointer'[1] \in Int /\ pointer'[2] \in Int
        /\ ~lost' => ~lost
        /\ ~lost' /\ d[1] \in -128 .. 127 /\ d[2] \in -128 .. 127 =>
             pointer'[1] = pointer[1] + d[1] /\ pointer'[2] = pointer[2] + d[2]
    BY <2>1, <2>3, Sends
  <2>5. jpc = "moved" /\ jpc' = "waiting" /\ max_delta' = max_delta /\ delta' = delta
    BY <1>5 DEF Return
  <2>6. ASSUME max_delta \in -126 .. 126, ~lost'
        PROVE pointer'[1] = ox /\ pointer'[2] = oy
    <3>1. /\ pointer[1] = delta[1] /\ pointer[2] = delta[2]
          /\ delta[1] \in -126 .. 126 /\ delta[2] \in -126 .. 126
      BY <2>4, <2>5, <2>6
    <3>2. d[1] \in -128 .. 127 /\ d[2] \in -128 .. 127
      BY <2>2, <2>3, <3>1
    <3> QED
      BY <2>2, <2>3, <2>4, <2>6, <3>1, <3>2
  <2> QED
    BY <2>2, <2>4, <2>5, <2>6
<1>6. CASE JigglerEnds
  BY <1>6 DEF JigglerEnds
<1> QED
  BY <1>1, <1>2, <1>3, <1>4, <1>5, <1>6 DEF JigglerStep

LEMMA ReportsInvariance == ReportsSpec => []ReportsInv
<1>1. ReportsInit => ReportsInv
  <2> SUFFICES ASSUME ReportsInit PROVE ReportsInv
    OBVIOUS
  <2>1. HostInv
    BY HostStarts DEF ReportsInit
  <2>2. JiggleInv
    BY JigglerAssumption DEF ReportsInit, JigglerInit, JiggleInv
  <2> QED
    BY <2>1, <2>2 DEF ReportsInv
<1>2. ReportsInv /\ [ReportsNext]_reports => ReportsInv'
  <2> SUFFICES ASSUME HostInv, JiggleInv, [ReportsNext]_reports PROVE HostInv' /\ JiggleInv'
    BY DEF ReportsInv
  <2>1. CASE Read
    <3>1. HostReads /\ UNCHANGED jiggler
      BY <2>1 DEF Read
    <3>2. verdict = "reading"
      BY <3>1 DEF HostReads, TakeGlobal, TakeInput, Begin, End, TakeOther, Take, Reject, ReadAll
    <3>3. JiggleInv'
      BY <3>1, <3>2 DEF JiggleInv, jiggler
    <3> QED
      BY <3>1, <3>3, HostStep
  <2>2. CASE Jiggle
    <3>1. verdict = "accepted" /\ JigglerStep /\ UNCHANGED hid
      BY <2>2 DEF Jiggle
    <3>2. HostInv'
      BY <3>1 DEF hid, HostInv, Position, Placed, Inherited, Length, PointerFound
    <3> QED
      BY <3>1, <3>2, JiggleStep DEF hid
  <2>3. CASE UNCHANGED reports
    BY <2>3 DEF reports, hid, jiggler, HostInv, JiggleInv, Position, Placed, Inherited, Length,
         PointerFound
  <2> QED
    BY <2>1, <2>2, <2>3 DEF ReportsNext
<1> QED
  BY <1>1, <1>2, PTL DEF ReportsSpec

\* For any max_delta from -126 to 126, a jiggle whose reports reach the host moves
\* the pointer and brings it back to within one of where it was:
\* whatever rand() gives, in whichever part of the descriptor the host found its
\* field (usb_setup_gadget, jiggle_once).
THEOREM JiggleSeenAndUndoneHolds == ReportsSpec => []JiggleSeenAndUndone
<1>1. ReportsInv => JiggleSeenAndUndone
  BY DEF ReportsInv, JiggleInv, JiggleSeenAndUndone
<1> QED
  BY <1>1, ReportsInvariance, PTL
=============================================================================
