------------------------------ MODULE PyRuntime ------------------------------
(***************************************************************************)
(* The life of the Python daemon (src/main.py, _run): connect the          *)
(* transport, start the worker tasks and the API, wait for a signal,       *)
(* cancel, gather, disconnect, and leave the event loop.  The transport is *)
(* BtTransport; its reconnect calls come in through the API task, and      *)
(* PATCH /config (src/api.py) changes what the workers compute with.       *)
(***************************************************************************)
EXTENDS BtTransport

CONSTANT Workers \* the tasks of the mode: jiggler, typer or both

VARIABLES
  main,      \* where _run is
  signalled, \* shutdown_event
  task,      \* the state of each task main has created
  spoiled    \* workers whose config holds a value they cannot compute with

run == <<main, signalled, task, spoiled>>
vars == <<bt, run>>

Tasks == Workers \cup {"api"}

Init ==
  /\ BtInit
  /\ main = "starting"
  /\ signalled = FALSE
  /\ task = [t \in Tasks |-> "off"]
  /\ spoiled = {}

GotoMain(from, to) == main = from /\ main' = to

\* SIGINT or SIGTERM: the handler sets the event, whatever main is doing.
Signal ==
  /\ main \notin {"exited", "failed"}
  /\ ~signalled
  /\ signalled' = TRUE
  /\ UNCHANGED <<bt, main, task, spoiled>>

\* hid.connect() returned: the workers and the API that are enabled start,
\* "Running" is logged.
Start ==
  /\ pc[Main] = "done"
  /\ GotoMain("starting", "running")
  /\ \E enabled \in SUBSET Tasks :
       task' = [t \in Tasks |-> IF t \in enabled THEN "running" ELSE "off"]
  /\ UNCHANGED <<bt, signalled, spoiled>>

\* The API cannot be set up (no uvicorn): the finally block runs at once.
StartRaises ==
  /\ pc[Main] = "done"
  /\ GotoMain("starting", "gathering")
  /\ task' = [t \in Tasks |-> IF t \in Workers THEN "running" ELSE "off"]
  /\ UNCHANGED <<bt, signalled, spoiled>>

\* hid.connect() raised: sys.exit(1).
StartFails ==
  /\ pc[Main] = "failed"
  /\ GotoMain("starting", "failed")
  /\ UNCHANGED <<bt, signalled, task, spoiled>>

\* PATCH /config takes any value for a field of a worker's config.
PatchConfig(w) ==
  /\ main = "running" /\ task["api"] = "running"
  /\ spoiled' = spoiled \cup {w}
  /\ UNCHANGED <<bt, main, signalled, task>>

\* random.uniform raises outside the inner try: run() ends with the exception,
\* and nobody looks at the task before the shutdown.
WorkerDies(w) ==
  /\ w \in spoiled
  /\ task[w] = "running"
  /\ task' = [task EXCEPT ![w] = "died"]
  /\ UNCHANGED <<bt, main, signalled, spoiled>>

\* shutdown_event.wait() returns; should_exit is set and all tasks cancelled.
Shutdown ==
  /\ signalled
  /\ GotoMain("running", "gathering")
  /\ UNCHANGED <<bt, signalled, task, spoiled>>

\* A cancelled task ends at its await.
TaskEnds(t) ==
  /\ main = "gathering"
  /\ task[t] = "running"
  /\ task' = [task EXCEPT ![t] = "ended"]
  /\ UNCHANGED <<bt, main, signalled, spoiled>>

\* Mutant of Leave: gather waits for an orderly end of every task.
LeaveIfAllEnded ==
  /\ \A t \in Tasks : task[t] \in {"off", "ended"}
  /\ GotoMain("gathering", "leaving")
  /\ Disconnect
  /\ crossed' = crossed \cup AtWork
  /\ UNCHANGED <<listen, pc, chan, target, drops, signalled, task, spoiled>>

\* gather() returned, the LLM client is closed, hid.disconnect() runs.
Leave ==
  /\ \A t \in Tasks : task[t] # "running"
  /\ GotoMain("gathering", "leaving")
  /\ Disconnect
  /\ crossed' = crossed \cup AtWork
  /\ UNCHANGED <<listen, pc, chan, target, drops, signalled, task, spoiled>>

\* asyncio.run cancels what is left of a request: a thread at work goes on to
\* its end, but the next one is not started.
Abandon(c) ==
  /\ main = "leaving"
  /\ pc[c] = "prepare"
  /\ Raise(c)
  /\ UNCHANGED <<sock, run>>

\* asyncio.run waits for the executor's threads.
Exit ==
  /\ \A c \in Call : pc[c] \notin Busy
  /\ GotoMain("leaving", "exited")
  /\ UNCHANGED <<bt, signalled, task, spoiled>>

\* The threads and the peer.
Transport ==
  /\ main \notin {"exited", "failed"}
  /\ \/ \E c \in Call : ThreadStep(c) /\ (main = "leaving" => pc[c] # "prepare")
     \/ \E c \in Call : Accept(c)
     \/ PeerDrops
  /\ UNCHANGED run

\* POST /reconnect on a connection the API has accepted.
ApiReconnect ==
  /\ main \in {"running", "gathering"} /\ task["api"] # "off"
  /\ \E c \in Requests : Reconnect(c)
  /\ UNCHANGED run

MainStep == Start \/ StartRaises \/ StartFails \/ Shutdown \/ Leave \/ Exit

Next ==
  \/ MainStep
  \/ Signal \/ ApiReconnect \/ Transport
  \/ \E w \in Workers : PatchConfig(w) \/ WorkerDies(w)
  \/ \E t \in Tasks : TaskEnds(t)
  \/ \E c \in Call : Abandon(c)

Spec == Init /\ [][Next]_vars

\* main, its tasks and the executor's threads run when they can.  Signals,
\* requests and the host are free to come or not.
Fairness ==
  /\ WF_vars(MainStep)
  /\ \A t \in Tasks : WF_vars(TaskEnds(t))
  /\ \A c \in Call : WF_vars(ThreadStep(c) /\ Transport) /\ WF_vars(Abandon(c))

FairSpec == Spec /\ Fairness

-----------------------------------------------------------------------------
TypeOK ==
  /\ BtTypeOK
  /\ main \in {"starting", "running", "gathering", "leaving", "exited", "failed"}
  /\ signalled \in BOOLEAN
  /\ task \in [Tasks -> {"off", "running", "died", "ended"}]
  /\ spoiled \subseteq Workers

\* A signal ends the running daemon, whatever requests, dead workers and threads
\* are about.  Without a target a thread may be in accept(), which no
\* cancellation reaches and asyncio.run waits for: then the tasks still end and
\* main still disconnects the transport.
ShutdownEnds ==
  (main = "running" /\ signalled) ~> (main = "exited" \/ (listen /\ main = "leaving"))
=============================================================================
