---------------------------- MODULE UsbTransport ----------------------------
(***************************************************************************)
(* The USB gadget transports of the three ports: src/usb_hid.py,           *)
(* rust/src/transport.rs and c/src/transport.c.  A connect is a list of    *)
(* operations on ConfigFS, a disconnect too; the ports differ in the       *)
(* lists, in the errors they ignore, and in who may call: in the Python    *)
(* port POST /reconnect runs the lists in executor threads, beside those   *)
(* of main.  An operation may fail by itself (no UDC, no memory), the      *)
(* process may be killed, and systemd restarts it.                         *)
(*                                                                         *)
(* The attributes of one directory are written in one step; so are the     *)
(* check that a thing exists and the operation that depends on it.         *)
(***************************************************************************)
EXTENDS ConfigFs, Sequences, FiniteSets

CONSTANTS
  Ports,      \* the ports to be looked at, of "py", "rs" and "c"
  Main,       \* the call of main
  Requests,   \* the calls of POST /reconnect
  MaxFaults,  \* bounds on how often an operation fails by itself,
  MaxCrashes  \* and the process is killed

ASSUME UsbAssumption ==
  /\ Ports \subseteq {"py", "rs", "c"}
  /\ Main \notin Requests
  /\ MaxFaults \in Nat /\ MaxCrashes \in Nat

Call == Requests \cup {Main}

VARIABLES
  port,
  proc,       \* where the process is
  job,        \* what each call is doing
  todo,       \* the operations left of that
  connected,  \* _connected
  faults, crashes,
  faulted,    \* history: calls in which an operation failed by itself
  overlapped  \* history: whether a call began while another was at work

calls == <<job, todo, faulted, overlapped>>
vars == <<here, written, linked, bound, number, handle,
          port, proc, calls, connected, faults, crashes>>

Init ==
  /\ FsInit
  /\ port \in Ports
  /\ proc = "down"
  /\ job = [c \in Call |-> "idle"]
  /\ todo = [c \in Call |-> <<>>]
  /\ connected = FALSE
  /\ faults = 0 /\ crashes = 0
  /\ faulted = {} /\ overlapped = FALSE

-----------------------------------------------------------------------------
\* The lists.  An operation is a pair of what is done and to what.
Made(d) == << <<"mkdir", d>>, <<"write", d>> >>

Config == << <<"mkdir", "config_strings">>, <<"write", "config_strings">>, <<"write", "config">> >>
Functions == Made("keyboard") \o Made("mouse")

Exposed == << <<"link", "keyboard">>, <<"link", "mouse">>, <<"bind", "gadget">> >>

PySetup == Made("gadget") \o Made("strings") \o Config \o Functions \o Exposed
RsSetup == Made("gadget") \o Made("strings") \o Functions \o Config \o Exposed
CSetup == Made("gadget") \o Made("strings") \o Config \o Functions \o Exposed

Setup == CASE port = "py" -> PySetup [] port = "rs" -> RsSetup [] port = "c" -> CSetup

OpenDevices == << <<"open", "keyboard">>, <<"open", "mouse">> >>

\* Mutant of Teardown: the links are left to the kernel.
TeardownLinksLast(f, g) ==
  << <<"unbind", "gadget">>, <<"rmdir", "config_strings">>, <<"rmdir", "config">>,
     <<"unlink", f>>, <<"unlink", g>>,
     <<"rmdir", f>>, <<"rmdir", g>>, <<"rmdir", "strings">>, <<"rmdir", "gadget">> >>

\* Mutant of Teardown: the strings are forgotten.
TeardownKeepsStrings(f, g) ==
  << <<"unbind", "gadget">>, <<"unlink", f>>, <<"unlink", g>>,
     <<"rmdir", "config_strings">>, <<"rmdir", "config">>,
     <<"rmdir", f>>, <<"rmdir", g>>, <<"rmdir", "gadget">> >>

\* _teardown_gadget, which meets the functions in whatever order.
Teardown(f, g) ==
  << <<"unbind", "gadget">>, <<"unlink", f>>, <<"unlink", g>>,
     <<"rmdir", "config_strings">>, <<"rmdir", "config">>,
     <<"rmdir", f>>, <<"rmdir", g>>, <<"rmdir", "strings">>, <<"rmdir", "gadget">> >>

Operation(op) ==
  CASE op[1] = "mkdir" -> Mkdir(op[2])
    [] op[1] = "write" -> Write(op[2])
    [] op[1] = "link" -> Link(op[2])
    [] op[1] = "bind" -> Bind
    [] op[1] = "open" -> Open(op[2])
    [] op[1] = "unbind" -> Unbind
    [] op[1] = "unlink" -> Unlink(op[2])
    [] op[1] = "rmdir" -> Rmdir(op[2])

\* The Python port looks whether a link exists before it makes it.
Present(op) == port = "py" /\ op[1] = "link" /\ op[2] \in linked

\* Whether the kernel refuses op.
Refused(op) ==
  CASE op[1] = "write" -> op[2] \notin here \/ op[2] \in linked
    [] op[1] = "link" -> ~({op[2], "config"} \subseteq here) \/ (op[2] \in linked /\ ~Present(op))
    [] op[1] = "bind" -> bound # {} \/ linked = {}
    [] op[1] = "open" -> \A g \in bound : number[g] # Node[op[2]]
    [] op[1] = "rmdir" -> \/ \E e \in here : op[2] \in Above(e)
                          \/ op[2] \in linked \/ (op[2] = "config" /\ linked # {})
    [] OTHER -> FALSE

\* Mutant of RsIgnores: the Rust port goes on after a failed write, too.
RsIgnoresWrites(op) == op[1] \in {"mkdir", "link", "write"}

\* The errors the Rust and the C port do not look at.
RsIgnores(op) == op[1] \in {"mkdir", "link"}
CIgnores(op) == op[1] # "open"

Ignores(op) == (port = "rs" /\ RsIgnores(op)) \/ (port = "c" /\ CIgnores(op))

-----------------------------------------------------------------------------
Do(c, what, list) ==
  /\ job' = [job EXCEPT ![c] = what]
  /\ todo' = [todo EXCEPT ![c] = list]

Idle(c) == job[c] \in {"idle", "failed"}
Overlaps(c) == overlapped \/ \E d \in Call \ {c} : ~Idle(d)

\* The next operation of a call succeeds.
Step(c) ==
  /\ todo[c] # <<>>
  /\ LET op == Head(todo[c]) IN
       IF Present(op) THEN UNCHANGED <<gadget, handle>> ELSE Operation(op)
  /\ todo' = [todo EXCEPT ![c] = Tail(@)]
  /\ UNCHANGED <<port, proc, job, connected, faults, crashes, faulted, overlapped>>

\* It fails: the kernel refuses it, or there is a fault.
Fails(c) ==
  /\ todo[c] # <<>>
  /\ \/ Refused(Head(todo[c])) /\ UNCHANGED <<faults, faulted>>
     \/ /\ faults < MaxFaults
        /\ faults' = faults + 1
        /\ faulted' = faulted \cup {c}

\* The error is ignored.
Skip(c) ==
  /\ Fails(c)
  /\ Ignores(Head(todo[c]))
  /\ todo' = [todo EXCEPT ![c] = Tail(@)]
  /\ UNCHANGED <<gadget, handle, port, proc, job, connected, crashes, overlapped>>

\* "Gadget teardown incomplete": the rest of the teardown is left out.
GiveUpTeardown(c) ==
  /\ job[c] \in {"tidy", "close"}
  /\ Fails(c)
  /\ todo' = [todo EXCEPT ![c] = <<>>]
  /\ UNCHANGED <<gadget, handle, port, proc, job, connected, crashes, overlapped>>

\* connect() raises: main exits with status 1, a request is answered 500.
Raise(c) ==
  /\ job[c] \in {"setup", "open"}
  /\ Fails(c)
  /\ ~Ignores(Head(todo[c]))
  /\ Do(c, "failed", <<>>)
  /\ IF c = Main THEN proc' = "down" /\ handle' = NoHandles ELSE UNCHANGED <<proc, handle>>
  /\ UNCHANGED <<gadget, port, connected, crashes, overlapped>>

\* Mutant of Prepare: what an earlier process has left is not torn down.
PrepareUntidied(c) ==
  /\ job[c] = "connect"
  /\ Do(c, "setup", Setup)
  /\ UNCHANGED <<gadget, handle, port, proc, connected, faults, crashes, faulted, overlapped>>

\* connect() begins; the Python port first removes what there is.
Prepare(c) ==
  /\ job[c] = "connect"
  /\ IF port = "py" /\ "gadget" \in here
     THEN \E f, g \in Function : f # g /\ Do(c, "tidy", Teardown(f, g))
     ELSE Do(c, "setup", Setup)
  /\ UNCHANGED <<gadget, handle, port, proc, connected, faults, crashes, faulted, overlapped>>

\* The end of one list is the beginning of the next.
Tidied(c) ==
  /\ job[c] = "tidy" /\ todo[c] = <<>>
  /\ Do(c, "setup", Setup)
  /\ UNCHANGED <<gadget, handle, port, proc, connected, faults, crashes, faulted, overlapped>>

SetUp(c) ==
  /\ job[c] = "setup" /\ todo[c] = <<>>
  /\ Do(c, "open", OpenDevices)
  /\ UNCHANGED <<gadget, handle, port, proc, connected, faults, crashes, faulted, overlapped>>

Connected(c) ==
  /\ job[c] = "open" /\ todo[c] = <<>>
  /\ connected' = TRUE
  /\ Do(c, "idle", <<>>)
  /\ proc' = IF c = Main THEN "running" ELSE proc
  /\ UNCHANGED <<gadget, handle, port, faults, crashes, faulted, overlapped>>

\* The two files are closed.
CloseFiles == connected' = FALSE /\ handle' = NoHandles

\* The beginning of disconnect().  The Rust and the C port leave the gadget as
\* it is; in the Python port to tear down what is not there is no error.
Disconnect(c) ==
  /\ CloseFiles
  /\ \E f, g \in Function :
       f # g /\ Do(c, "close", IF port = "py" THEN Teardown(f, g) ELSE <<>>)
  /\ faulted' = faulted \ {c}
  /\ overlapped' = Overlaps(c)

\* POST /reconnect, in the Python port: disconnect, then connect.
Reconnect(c) ==
  /\ port = "py" /\ proc = "running"
  /\ Idle(c)
  /\ Disconnect(c)
  /\ UNCHANGED <<gadget, port, proc, faults, crashes>>

Closed(c) ==
  /\ job[c] = "close" /\ todo[c] = <<>>
  /\ Do(c, IF c = Main THEN "idle" ELSE "connect", <<>>)
  /\ proc' = IF c = Main THEN "ending" ELSE proc
  /\ UNCHANGED <<gadget, handle, port, connected, faults, crashes, faulted, overlapped>>

-----------------------------------------------------------------------------
\* The process.

\* By systemd or a user.
Start ==
  /\ proc \in {"down", "stopped"}
  /\ proc' = "starting"
  /\ job' = [c \in Call |-> IF c = Main THEN "connect" ELSE "idle"]
  /\ todo' = [c \in Call |-> <<>>]
  /\ faulted' = {}
  /\ UNCHANGED <<gadget, handle, port, connected, faults, crashes, overlapped>>

\* A signal has ended the workers; main disconnects.
Leave ==
  /\ proc = "running"
  /\ proc' = "leaving"
  /\ Disconnect(Main)
  /\ UNCHANGED <<gadget, port, faults, crashes>>

\* asyncio.run cancels what is left of a request; a thread at work goes on to
\* the end of its list.
Abandon(c) ==
  /\ proc = "ending"
  /\ ~Idle(c) /\ todo[c] = <<>> /\ job[c] # "tidy"
  /\ Do(c, "idle", <<>>)
  /\ UNCHANGED <<gadget, handle, port, proc, connected, faults, crashes, faulted, overlapped>>

\* Mutant of Exit: the threads at work are not waited for.
ExitAtOnce ==
  /\ proc = "ending"
  /\ proc' = "stopped"
  /\ CloseFiles
  /\ UNCHANGED <<gadget, port, calls, faults, crashes>>

\* The end of the process closes its files.
Exit ==
  /\ \A c \in Call : Idle(c)
  /\ proc = "ending"
  /\ proc' = "stopped"
  /\ CloseFiles
  /\ UNCHANGED <<gadget, port, calls, faults, crashes>>

Crash ==
  /\ proc \notin {"down", "stopped"}
  /\ crashes < MaxCrashes
  /\ crashes' = crashes + 1
  /\ proc' = "down"
  /\ job' = [c \in Call |-> "idle"]
  /\ todo' = [c \in Call |-> <<>>]
  /\ CloseFiles
  /\ UNCHANGED <<gadget, port, faults, faulted, overlapped>>

\* After its main has returned the event loop starts nothing new.
Work(c) ==
  \/ Step(c) \/ Skip(c) \/ GiveUpTeardown(c) \/ Raise(c) \/ Tidied(c)
  \/ /\ proc # "ending"
     /\ Prepare(c) \/ SetUp(c) \/ Connected(c) \/ Closed(c)

Next ==
  \/ \E c \in Call : Work(c) \/ Abandon(c)
  \/ \E c \in Requests : Reconnect(c)
  \/ Start \/ Leave \/ Exit \/ Crash

\* Calls at work go on; the process is started again when it has failed
\* (Restart=on-failure), not when it was stopped.
Fairness ==
  /\ \A c \in Call : WF_vars(Work(c)) /\ WF_vars(Abandon(c))
  /\ WF_vars(Exit) /\ WF_vars(proc = "down" /\ Start)

Spec == Init /\ [][Next]_vars
FairSpec == Spec /\ Fairness

-----------------------------------------------------------------------------
\* The type of every variable; a process that is not there holds no file and
\* runs no call.
TypeOK ==
  /\ FsTypeOK
  /\ port \in Ports
  /\ proc \in {"down", "starting", "running", "leaving", "ending", "stopped"}
  /\ job \in [Call -> {"idle", "failed", "connect", "tidy", "setup", "open", "close"}]
  /\ faults \in 0 .. MaxFaults /\ crashes \in 0 .. MaxCrashes
  /\ faulted \subseteq Call
  /\ connected \in BOOLEAN /\ overlapped \in BOOLEAN
  /\ proc \in {"down", "stopped"} =>
       handle = NoHandles /\ ~connected /\ \A c \in Call : Idle(c)

\* The host sees a keyboard and a mouse, and each report goes to its own.
Working ==
  /\ written = Dir
  /\ bound = Function
  /\ number = Node
  /\ handle = [f \in Function |-> f]

\* A transport that says it is connected works: of the errors on the way none
\* that matters has been overlooked, whatever an earlier process has left
\* behind.  Excepted are reconnects that overlap, and errors in the C port.
ReadyWhenConnected ==
  connected /\ ~overlapped /\ (port = "c" => faults = 0) => Working

\* connect() does not fail because of what was left behind: a call of the
\* Python port fails only for an operation that failed by itself in this very
\* call.  In the C port an earlier fault may do it (links added to a gadget
\* that is bound have no effect), in the Rust port any earlier connect (the
\* attributes of functions that are linked cannot be written).
FailureIsEarned ==
  \A c \in Call : job[c] = "failed" =>
    \/ overlapped \/ c \in faulted
    \/ port = "c" /\ faults > 0
    \/ port = "rs" /\ linked # {}

\* A disconnect that meets no fault leaves nothing of the gadget.
TidyAfterDisconnect ==
  port = "py" /\ proc = "stopped" /\ ~overlapped /\ Main \notin faulted => here = {}

\* Restarts are enough: as long as faults and crashes come to an end, the
\* Python daemon comes up, and the C daemon unless it has met a fault.
ComesUp ==
  proc = "starting" ~>
    \/ proc = "running"
    \/ port = "c" /\ faults > 0
    \/ port = "rs"
=============================================================================
