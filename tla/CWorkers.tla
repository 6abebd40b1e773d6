------------------------------ MODULE CWorkers ------------------------------
(***************************************************************************)
(* Worker threads, signals and shutdown of the C port: main (c/src/main.c) *)
(* starts the jiggler and the typer thread, sleeps until the signal        *)
(* handler clears g_running, stops and frees the workers and disconnects.  *)
(* The handler stops the workers too, on whatever thread the kernel picks  *)
(* and in the middle of whatever that thread is doing, so every thread has *)
(* a stack of frames; a frame is the list of instructions it has left.     *)
(* fprintf(stderr) holds the lock of the stream while it writes, and both  *)
(* the handler and the workers print.                                      *)
(*                                                                         *)
(* What a worker does in a round is one step: a jiggle, or a fetch with    *)
(* its timeout and the typing of a finite text; so are the prints that     *)
(* follow one another.  The model begins where main installs the handler,  *)
(* and leaves out the threads of the API's HTTP server.                    *)
(***************************************************************************)
EXTENDS Integers, Sequences, FiniteSets, SequencesExt

CONSTANTS
  Worker,     \* the workers of the mode
  Sigs,       \* SIGINT and SIGTERM
  MaxSignals  \* bound on the number of signals

ASSUME WorkersAssumption ==
  /\ Worker \in {{"jiggler"}, {"typer"}, {"jiggler", "typer"}}
  /\ "none" \notin Sigs
  /\ MaxSignals \in Nat

Thread == Worker \cup {"main"}

VARIABLES
  process,   \* up, exited, or crashed
  stack,     \* stack[th]: frames [sig, code], the innermost last
  g_running,
  created,   \* workers g_jiggler and g_typer point to
  running,   \* running[w]: the flag in the worker's struct
  thr,       \* thr[w]: what the thread itself does, outside handlers
  joiner,    \* joiner[w]: the thread that waits or waited in pthread_join
  printing,  \* workers inside a fprintf(stderr) of their own code
  freed,     \* workers whose struct is freed
  open,      \* whether the transport is connected
  pending,   \* signals not yet delivered
  signals,   \* signals sent so far
  outside    \* history: whether a signal came while main was not in its loop

flags == <<g_running, created, running>>
threads == <<thr, joiner, printing>>
sig == <<pending, signals, outside>>
vars == <<process, stack, flags, threads, freed, open, sig>>

Instr(op, w) == [op |-> op, of |-> w]

\* jiggler_stop and typer_stop.
Stop(w) == <<Instr("test", w), Instr("clear", w), Instr("join", w)>>

\* if (g_jiggler), and then if (g_typer)
InTurn(Code(_)) == (IF "jiggler" \in Worker THEN Code("jiggler") ELSE <<>>)
                   \o (IF "typer" \in Worker THEN Code("typer") ELSE <<>>)

\* fprintf(stderr, ...)
PrintCode == <<Instr("lock", "main"), Instr("unlock", "main")>>

\* shutdown_handler
HandlerCode == PrintCode \o <<Instr("quit", "main")>> \o InTurn(Stop)

\* The print is that of a worker that is disabled or does not start.
StartCode(w) ==
  <<Instr("create", w), Instr("arm", w), Instr("spawn", w)>>
  \o PrintCode \o <<Instr("disarm", w)>>

CleanupCode(w) == Stop(w) \o <<Instr("free", w)>>

MainCode ==
  InTurn(StartCode)
  \o PrintCode \o <<Instr("api", "main"), Instr("loop", "main")>>
  \o InTurn(CleanupCode)
  \o <<Instr("disconnect", "main")>> \o PrintCode \o <<Instr("exit", "main")>>

Init ==
  /\ process = "up"
  /\ stack = [th \in Thread |->
                IF th = "main" THEN <<[sig |-> "none", code |-> MainCode]>> ELSE <<>>]
  /\ g_running = TRUE /\ created = {} /\ running = [w \in Worker |-> FALSE]
  /\ thr = [w \in Worker |-> "none"]
  /\ joiner = [w \in Worker |-> "nobody"] /\ printing = {}
  /\ freed = {} /\ open = TRUE
  /\ pending = {} /\ signals = 0 /\ outside = FALSE

-----------------------------------------------------------------------------
\* Thread th runs its innermost frame, whose next instruction is op.
At(th, op) ==
  /\ process = "up"
  /\ stack[th] # <<>>
  /\ Last(stack[th]).code # <<>>
  /\ Head(Last(stack[th]).code).op = op

Operand(th) == Head(Last(stack[th]).code).of

\* n instructions of the frame are done or skipped.
Advance(th, n) ==
  stack' = [stack EXCEPT ![th][Len(stack[th])].code =
              SubSeq(@, n + 1, Len(@))]

\* Thread th holds the lock of stderr, in its own code or in a frame.
Holds(th) ==
  \/ th \in printing
  \/ \E i \in DOMAIN stack[th] :
       stack[th][i].code # <<>> /\ Head(stack[th][i].code).op = "unlock"

\* The lock is recursive: a handler gets it above a print of its own thread.
LockIsFree(th) == \A other \in Thread \ {th} : ~Holds(other)

Lock(th) ==
  /\ At(th, "lock")
  /\ LockIsFree(th)
  /\ Advance(th, 1)
  /\ UNCHANGED <<process, flags, threads, freed, open, sig>>

Unlock(th) ==
  /\ At(th, "unlock")
  /\ Advance(th, 1)
  /\ UNCHANGED <<process, flags, threads, freed, open, sig>>

Quit(th) ==
  /\ At(th, "quit")
  /\ g_running' = FALSE
  /\ Advance(th, 1)
  /\ UNCHANGED <<process, created, running, threads, freed, open, sig>>

\* What a read of w's running flag can return; a freed struct holds anything.
Flag(w) == IF w \in freed THEN BOOLEAN ELSE {running[w]}

\* if (g_worker) stop(g_worker), and there: if (!running) return
Test(th) ==
  /\ At(th, "test")
  /\ \E go \in Flag(Operand(th)) :
       Advance(th, IF Operand(th) \in created /\ go THEN 1 ELSE 3)
  /\ UNCHANGED <<process, flags, threads, freed, open, sig>>

\* Mutant of Clear: the worker is not told.
ClearForgotten(th) ==
  /\ At(th, "clear")
  /\ Advance(th, 1)
  /\ UNCHANGED <<process, flags, threads, freed, open, sig>>

Clear(th) ==
  /\ At(th, "clear")
  /\ running' = [running EXCEPT ![Operand(th)] = FALSE]
  /\ Advance(th, 1)
  /\ UNCHANGED <<process, g_running, created, threads, freed, open, sig>>

\* pthread_join blocks th until w has ended.
JoinBegins(th) ==
  LET w == Operand(th) IN
  /\ At(th, "join")
  /\ w # th /\ w \notin freed /\ thr[w] # "none"
  /\ joiner[w] = "nobody"
  /\ th \in Worker => joiner[th] # w
  /\ joiner' = [joiner EXCEPT ![w] = th]
  /\ UNCHANGED <<process, stack, flags, thr, printing, freed, open, sig>>

\* Mutant of JoinEnds: the thread is not waited for.
JoinEndsAtOnce(th) ==
  /\ At(th, "join")
  /\ joiner[Operand(th)] = th
  /\ Advance(th, 1)
  /\ UNCHANGED <<process, flags, threads, freed, open, sig>>

JoinEnds(th) ==
  /\ At(th, "join")
  /\ joiner[Operand(th)] = th
  /\ thr[Operand(th)] = "ended"
  /\ Advance(th, 1)
  /\ UNCHANGED <<process, flags, threads, freed, open, sig>>

\* A thread cannot join itself, nor one that joins it (EDEADLK), nor one that
\* another thread joins (EINVAL); the result is not looked at.
JoinRefused(th) ==
  LET w == Operand(th) IN
  /\ At(th, "join")
  /\ w \notin freed /\ thr[w] # "none"
  /\ \/ w = th
     \/ th \in Worker /\ joiner[th] = w
     \/ joiner[w] \notin {"nobody", th}
  /\ Advance(th, 1)
  /\ UNCHANGED <<process, flags, threads, freed, open, sig>>

\* The handle of a thread that was never created, or one read from a freed
\* struct, is no thread.
JoinNothing(th) ==
  /\ At(th, "join")
  /\ Operand(th) \in freed \/ thr[Operand(th)] = "none"
  /\ process' = "crashed"
  /\ UNCHANGED <<stack, flags, threads, freed, open, sig>>

\* The handler returns to what the thread was doing.
Return(th) ==
  /\ process = "up"
  /\ stack[th] # <<>>
  /\ Last(stack[th]).code = <<>>
  /\ stack' = [stack EXCEPT ![th] = Front(@)]
  /\ UNCHANGED <<process, flags, threads, freed, open, sig>>

-----------------------------------------------------------------------------
\* Main's own instructions.

Create ==
  /\ At("main", "create")
  /\ created' = created \cup {Operand("main")}
  /\ Advance("main", 1)
  /\ UNCHANGED <<process, g_running, running, threads, freed, open, sig>>

\* The worker is disabled in the config, or the typer has no URL.
Disabled ==
  /\ At("main", "arm")
  /\ Advance("main", 2)
  /\ UNCHANGED <<process, flags, threads, freed, open, sig>>

\* running = 1, before the thread exists.
Arm ==
  /\ At("main", "arm")
  /\ running' = [running EXCEPT ![Operand("main")] = TRUE]
  /\ Advance("main", 1)
  /\ UNCHANGED <<process, g_running, created, threads, freed, open, sig>>

\* The thread begins with its "Started"; main goes on behind disarm.
Spawn ==
  /\ At("main", "spawn")
  /\ thr' = [thr EXCEPT ![Operand("main")] = "starting"]
  /\ Advance("main", 4)
  /\ UNCHANGED <<process, flags, joiner, printing, freed, open, sig>>

SpawnFails ==
  /\ At("main", "spawn")
  /\ Advance("main", 1)
  /\ UNCHANGED <<process, flags, threads, freed, open, sig>>

\* Mutant of Disarm: running stays set.
DisarmForgotten ==
  /\ At("main", "disarm")
  /\ Advance("main", 1)
  /\ UNCHANGED <<process, flags, threads, freed, open, sig>>

\* No thread was created: running = 0.  A disabled worker's flag never was set.
Disarm ==
  /\ At("main", "disarm")
  /\ running' = [running EXCEPT ![Operand("main")] = FALSE]
  /\ Advance("main", 1)
  /\ UNCHANGED <<process, g_running, created, threads, freed, open, sig>>

\* Main has printed that it runs, the API off or started; or that the API's
\* key is missing, and goes straight to the cleanup.
Api ==
  /\ At("main", "api")
  /\ \E n \in 1 .. 2 : Advance("main", n)
  /\ UNCHANGED <<process, flags, threads, freed, open, sig>>

\* while (g_running) sleep(1)
Loop ==
  /\ At("main", "loop")
  /\ ~g_running
  /\ Advance("main", 1)
  /\ UNCHANGED <<process, flags, threads, freed, open, sig>>

Free ==
  /\ At("main", "free")
  /\ freed' = freed \cup {Operand("main")}
  /\ Advance("main", 1)
  /\ UNCHANGED <<process, flags, threads, open, sig>>

Disconnect ==
  /\ At("main", "disconnect")
  /\ open' = FALSE
  /\ Advance("main", 1)
  /\ UNCHANGED <<process, flags, threads, freed, sig>>

\* return from main ends every thread.
Exit ==
  /\ At("main", "exit")
  /\ process' = "exited"
  /\ UNCHANGED <<stack, flags, threads, freed, open, sig>>

-----------------------------------------------------------------------------
\* A worker's own code runs while no handler does.
Awake(w, place) == process = "up" /\ thr[w] = place /\ stack[w] = <<>>

Alive == {"starting", "waiting", "working", "reporting", "stopping"}

\* The places at which a worker prints: "Started", what the typer says of a
\* round, and "Stopped".
Prints == {"starting", "reporting", "stopping"}

PrintBegins(w) ==
  /\ \E place \in Prints : Awake(w, place)
  /\ w \notin printing /\ LockIsFree(w)
  /\ printing' = printing \cup {w}
  /\ UNCHANGED <<process, stack, flags, thr, joiner, freed, open, sig>>

PrintEnds(w) ==
  /\ w \in printing
  /\ \E place \in Prints :
       /\ Awake(w, place)
       /\ thr' = [thr EXCEPT ![w] = IF place = "stopping" THEN "ended" ELSE "waiting"]
  /\ printing' = printing \ {w}
  /\ UNCHANGED <<process, stack, flags, joiner, freed, open, sig>>

\* The interval is over and running still set: a jiggle or a typing session.
Work(w) ==
  /\ Awake(w, "waiting")
  /\ TRUE \in Flag(w)
  /\ thr' = [thr EXCEPT ![w] = "working"]
  /\ UNCHANGED <<process, stack, flags, joiner, printing, freed, open, sig>>

Worked(w) ==
  /\ Awake(w, "working")
  /\ thr' = [thr EXCEPT ![w] = IF w = "typer" THEN "reporting" ELSE "waiting"]
  /\ UNCHANGED <<process, stack, flags, joiner, printing, freed, open, sig>>

\* running is clear: the loop ends, and what is left is the print.
Leaves(w) ==
  /\ Awake(w, "waiting")
  /\ FALSE \in Flag(w)
  /\ thr' = [thr EXCEPT ![w] = "stopping"]
  /\ UNCHANGED <<process, stack, flags, joiner, printing, freed, open, sig>>

\* A signal that is pending already is not queued again.
Send(s) ==
  /\ process = "up"
  /\ signals < MaxSignals
  /\ s \notin pending
  /\ pending' = pending \cup {s}
  /\ signals' = signals + 1
  /\ outside' = (outside \/ Head(stack["main"][1].code).op # "loop")
  /\ UNCHANGED <<process, stack, flags, threads, freed, open>>

\* A handler blocks its own signal on its thread until it returns.  Linux gives
\* a signal to another thread than main only while main blocks it.
Takes(th, s) ==
  /\ th = "main" \/ (th \in Worker /\ thr[th] \in Alive)
  /\ \A i \in DOMAIN stack[th] : stack[th][i].sig # s

Deliver(s, th) ==
  /\ process = "up"
  /\ s \in pending
  /\ Takes(th, s)
  /\ th # "main" => ~Takes("main", s)
  /\ pending' = pending \ {s}
  /\ stack' = [stack EXCEPT ![th] = Append(@, [sig |-> s, code |-> HandlerCode])]
  /\ UNCHANGED <<process, flags, threads, freed, open, signals, outside>>

ThreadStep(th) ==
  \/ Unlock(th) \/ Quit(th) \/ Test(th) \/ Clear(th)
  \/ JoinBegins(th) \/ JoinEnds(th) \/ JoinRefused(th) \/ JoinNothing(th)
  \/ Return(th)

MainStep ==
  \/ Create \/ Disabled \/ Arm \/ Spawn \/ SpawnFails \/ Disarm \/ Api \/ Loop
  \/ Free \/ Disconnect \/ Exit

WorkerStep(w) == PrintEnds(w) \/ Work(w) \/ Leaves(w)

\* What thread th can do at any time, and what needs the lock of stderr.
Step(th) ==
  \/ ThreadStep(th)
  \/ th = "main" /\ MainStep
  \/ th \in Worker /\ WorkerStep(th)

TakesStderr(th) == Lock(th) \/ (th \in Worker /\ PrintBegins(th))

Next ==
  \/ \E th \in Thread : Step(th) \/ TakesStderr(th)
  \/ \E w \in Worker : Worked(w)
  \/ \E s \in Sigs : Send(s) \/ \E th \in Thread : Deliver(s, th)

Spec == Init /\ [][Next]_vars

\* The kernel runs every thread that can run, delivers signals, and gives the
\* lock of stderr to a thread that finds it free again and again: between two
\* prints a worker waits for seconds.  The work of a round need not end: a USB
\* device file is opened without O_NONBLOCK, and a write to it waits until the
\* host, which may sleep, has taken the report before.
FairSpec ==
  /\ Spec
  /\ \A th \in Thread : WF_vars(Step(th)) /\ SF_vars(TakesStderr(th))
  /\ \A s \in Sigs : WF_vars(\E th \in Thread : Deliver(s, th))

-----------------------------------------------------------------------------
TypeOK ==
  /\ process \in {"up", "exited", "crashed"}
  /\ \A th \in Thread : \A i \in DOMAIN stack[th] :
       stack[th][i].sig \in Sigs \cup {"none"} /\ stack[th][i].code \in Seq(
         [op : {"lock", "unlock", "quit", "test", "clear", "join", "create", "arm", "spawn",
                "disarm", "api", "loop", "free", "disconnect", "exit"}, of : Thread])
  /\ g_running \in BOOLEAN /\ created \subseteq Worker /\ running \in [Worker -> BOOLEAN]
  /\ thr \in [Worker -> Alive \cup {"none", "ended"}]
  /\ joiner \in [Worker -> Thread \cup {"nobody"}] /\ printing \subseteq Worker
  /\ freed \subseteq created /\ open \in BOOLEAN
  /\ pending \subseteq Sigs /\ signals \in 0 .. MaxSignals /\ outside \in BOOLEAN

\* No signal comes, or a single one while main sleeps in its loop.
Calm == ~outside /\ signals <= 1

Gone(w) == thr[w] \in {"none", "ended"}

StoppedBeforeFreed == \A w \in freed : Gone(w)
DisconnectIsLast == ~open => \A w \in Worker : Gone(w)

\* jiggler.h and typer.h, "Stop the ... thread and wait for it to exit." and
\* "Free ... resources. Must be stopped first.": when one signal ends the
\* daemon, a worker's struct is freed only once its thread is gone, and the
\* workers have the transport to themselves until they are.  (With a second
\* signal during the handler of the first this is not so: the handler clears
\* running on a worker's thread, and main takes the worker for stopped.)
TornDownInOrder == Calm => StoppedBeforeFreed /\ DisconnectIsLast

\* Nor does anybody then wait for a thread that was never created, or through
\* a struct that is gone.
NoStrayJoin == Calm => process # "crashed"

\* A handler interrupted a print of its own thread, which holds the lock of
\* stderr until the handler returns.
Buried(th) ==
  \/ th \in printing /\ stack[th] # <<>>
  \/ \E i \in DOMAIN stack[th] :
       /\ i < Len(stack[th])
       /\ stack[th][i].code # <<>> /\ Head(stack[th][i].code).op = "unlock"

\* A worker may be in the write of a report that the USB host does not take.
Writing == \E w \in Worker : thr[w] = "working"

\* A signal ends the process, whenever it comes, however many more come and on
\* whatever threads their handlers stop and join the workers, each other's
\* among them.  Two things can keep it up for ever: a handler above a print of
\* its own thread, which waits for a worker that waits for stderr, and a USB
\* host that no longer takes reports.
ShutdownEnds ==
  <>[]((\E th \in Thread : Buried(th)) \/ Writing) \/ (signals > 0 ~> process # "up")
=============================================================================
