------------------------------ MODULE RsRuntime ------------------------------
(***************************************************************************)
(* The life of the Rust daemon (rust/src/main.rs) from "Running" on: the   *)
(* jiggler task (rust/src/jiggler.rs), the typer task (RsTyper) and the    *)
(* API task (serve in rust/src/api.rs) run until Ctrl+C; then main sets    *)
(* the stop channel, awaits the handles in the order it pushed them, and   *)
(* disconnects.                                                            *)
(***************************************************************************)
EXTENDS RsTyper

VARIABLES
  main,    \* running, or the handle it awaits, or where it is after them
  jiggler, \* where the jiggler task waits
  api,     \* the API task; like the others, ended from the beginning if
           \* main does not spawn it
  off      \* moves out that the host has got and that were not undone

vars == <<typer, main, jiggler, api, off>>
tasks == <<jiggler, api, off>>

Init ==
  /\ TyperInit
  /\ main = "running"
  /\ jiggler \in {"wait", "ended"}
  /\ api \in {"starting", "ended"}
  /\ off = 0

TypeText ==
  /\ main # "exited"
  /\ TyperStep
  /\ UNCHANGED <<main, tasks>>

Link ==
  /\ main # "exited"
  /\ LinkLost \/ LinkRestored \/ HostSleeps \/ HostWakes
  /\ UNCHANGED <<main, tasks>>

\* Mutant of JiggleOut: the stop channel is looked at half way as well.
JiggleOutAgain ==
  /\ \/ jiggler = "wait" /\ ~stop /\ Sends /\ jiggler' = "away" /\ off' = off + 1
     \/ jiggler = "away" /\ stop /\ jiggler' = "ended" /\ off' = off
  /\ UNCHANGED <<typer, main, api>>

\* jiggle_once: the move out, and after a pause the move back.  A failed send
\* ends the jiggle; the host sees no move it does not get.
JiggleOut ==
  /\ jiggler = "wait" /\ ~stop /\ polls
  /\ jiggler' = IF connected THEN "away" ELSE "wait"
  /\ off' = IF connected THEN off + 1 ELSE off
  /\ UNCHANGED <<typer, main, api>>

JiggleBack ==
  /\ jiggler = "away" /\ polls
  /\ jiggler' = "wait"
  /\ off' = IF connected THEN off - 1 ELSE off
  /\ UNCHANGED <<typer, main, api>>

\* The interval's range is empty, or max_delta negative.
JigglerPanics ==
  /\ ~sound
  /\ jiggler = "wait"
  /\ jiggler' = "ended"
  /\ UNCHANGED <<typer, main, api, off>>

JigglerStops ==
  /\ jiggler = "wait" /\ stop
  /\ jiggler' = "ended"
  /\ UNCHANGED <<typer, main, api, off>>

\* serve: bind fails and the task ends, or axum::serve runs for ever.
ApiBinds ==
  /\ api = "starting"
  /\ api' = "serving"
  /\ UNCHANGED <<typer, main, jiggler, off>>

ApiFails ==
  /\ api = "starting"
  /\ api' = "ended"
  /\ UNCHANGED <<typer, main, jiggler, off>>

GotoMain(from, to) == main = from /\ main' = to

\* ctrl_c() returns; stop_tx.send(true).
CtrlC ==
  /\ GotoMain("running", "jiggler")
  /\ stop' = TRUE
  /\ UNCHANGED <<usb, sound, pc, rest, wanted, connected, polls, links, sessions, host, tasks>>

JigglerJoined ==
  /\ jiggler = "ended"
  /\ GotoMain("jiggler", "typer")
  /\ UNCHANGED <<typer, tasks>>

TyperJoined ==
  /\ pc = "ended"
  /\ GotoMain("typer", "api")
  /\ UNCHANGED <<typer, tasks>>

ApiJoined ==
  /\ api = "ended"
  /\ GotoMain("api", "disconnect")
  /\ UNCHANGED <<typer, tasks>>

\* guard.disconnect(), and main returns.  The gadget's files are closed but
\* the gadget stays, so the host lifts no key.
Disconnect ==
  /\ GotoMain("disconnect", "exited")
  /\ connected' = FALSE
  /\ IF usb THEN UNCHANGED host ELSE AllUp
  /\ UNCHANGED <<usb, sound, pc, rest, wanted, stop, polls, links, sessions, tasks>>

Jiggle == JiggleOut \/ JiggleBack \/ JigglerPanics \/ JigglerStops
Serve == ApiBinds \/ ApiFails
Finish == JigglerJoined \/ TyperJoined \/ ApiJoined \/ Disconnect

Next == TypeText \/ Link \/ Jiggle \/ Serve \/ CtrlC \/ Finish

Spec == Init /\ [][Next]_vars

\* tokio runs every task whose timer, request or awaited task is done; sleeps
\* are finite and a fetch times out.  A send gets through if the host polls
\* again and again; nothing says that it does.
FairSpec ==
  Spec /\ SF_vars(TypeText) /\ SF_vars(Jiggle) /\ WF_vars(Serve) /\ WF_vars(Finish)

-----------------------------------------------------------------------------
TypeOK ==
  /\ TyperTypeOK
  /\ main \in {"running", "jiggler", "typer", "api", "disconnect", "exited"}
  /\ jiggler \in {"wait", "away", "ended"}
  /\ api \in {"starting", "serving", "ended"}
  /\ off \in Nat

\* The daemon leaves the host as it found it: however Ctrl+C falls between
\* the reports of the two tasks, and even if one of them has panicked, no key
\* is down at the end, and unless the link went the pointer is back.  No typo
\* stays uncorrected unless a range of the configuration is empty.
LeavesHostTidy ==
  main = "exited" /\ links = 0 => held = NoKey /\ off = 0 /\ (sound => doc = wanted)

\* main.rs:161, "Running - Ctrl+C to stop": the stop channel reaches both
\* workers, in the middle of a text or of the minute a failed fetch is slept
\* off, and main ends.  There are two ways in which it does not.  While the
\* host of the gadget sleeps, a worker's send waits, and main for the worker.
\* And when the API serves, axum::serve has no end and is not told to stop,
\* and main awaits it after the workers.
ShutdownEnds ==
  \/ <>[]~polls
  \/ main = "jiggler" ~> (main = "exited" \/ (api = "serving" /\ main = "api"))
=============================================================================
