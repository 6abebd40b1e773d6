------------------------------ MODULE CDaemon ------------------------------
(***************************************************************************)
(* The C port as one program: main (c/src/main.c) connects the Bluetooth   *)
(* transport (CBtTransport), starts the typer (CTyper, with CLlmClient),   *)
(* waits, stops and joins it, and closes the sockets, while sends fail,    *)
(* the host goes away and the LLM answers what it likes.  That the signal  *)
(* handler stops the typer too, from any thread, is in CWorkers: here a    *)
(* stop clears running at any moment and main joins afterwards.            *)
(***************************************************************************)
EXTENDS CTyper

VARIABLE main \* where main is

vars == <<main, bt, typer>>

Init ==
  /\ BtInit
  /\ TyperInit
  /\ main = "connect"

MainGoes(from, to) == main = from /\ main' = to

Connecting ==
  /\ main = "connect"
  /\ OpenSocket \/ ConnectSocket \/ BindSocket \/ AcceptSocket
  /\ UNCHANGED <<main, typer>>

\* The transport is destroyed and main returns 1.
ConnectFailed ==
  /\ MainGoes("connect", "destroy")
  /\ ConnectFails
  /\ UNCHANGED typer

\* The transport is connected; the signal handlers are installed.
Connected ==
  /\ MainGoes("connect", "start")
  /\ calls = <<>>
  /\ UNCHANGED <<bt, typer>>

Start ==
  /\ MainGoes("start", "loop")
  /\ StartTyper
  /\ UNCHANGED bt

\* Jiggle mode, a typer that is disabled, or no memory or thread for one.
StartNone ==
  /\ MainGoes("start", "loop")
  /\ UNCHANGED <<bt, typer>>

\* A signal, or an API without a key.
Stop ==
  /\ MainGoes("loop", "join")
  /\ running' = FALSE
  /\ UNCHANGED <<pc, rest, sessions, history, host, fetch, bt>>

\* pthread_join is over, or there was nobody to join.
Joined ==
  /\ MainGoes("join", "disconnect")
  /\ pc \in {"off", "ended"}
  /\ UNCHANGED <<bt, typer>>

\* The host lifts the keys of a keyboard that is gone.
Disconnect ==
  /\ MainGoes("disconnect", "destroy")
  /\ CloseSockets
  /\ AllUp
  /\ UNCHANGED <<pc, rest, running, sessions, history, fetch>>

\* bt_transport_destroy disconnects again and frees; main returns.
Destroy ==
  /\ MainGoes("destroy", "exited")
  /\ CloseSockets
  /\ UNCHANGED typer

HostGoes ==
  /\ PeerGoes
  /\ AllUp
  /\ UNCHANGED <<main, pc, rest, running, sessions, history, fetch>>

Typist == TyperStep /\ UNCHANGED <<main, bt>>

MainStep ==
  \/ Connected \/ Start \/ StartNone \/ Joined \/ Disconnect \/ Destroy

Next ==
  \/ Connecting \/ ConnectFailed \/ MainStep
  \/ Stop \/ HostGoes
  \/ Typist

Spec == Init /\ [][Next]_vars

\* The kernel runs both threads; a fetch ends within CURLOPT_TIMEOUT, and a
\* sleep or a send on a connected socket ends.  That a host ever connects, or
\* that anybody stops the daemon, is not assumed.
FairSpec == Spec /\ WF_vars(MainStep) /\ WF_vars(Typist)

-----------------------------------------------------------------------------
TypeOK ==
  /\ BtTypeOK /\ FetchTypeOK /\ TyperTypeOK
  /\ main \in {"connect", "start", "loop", "join", "disconnect", "destroy", "exited"}

\* As long as every report reaches the host, what the typer does to the
\* document is a typing session: the trimmed text of an answer, one character
\* after the other, given up only between two of them; typos come and go
\* unseen.  The clean-up of a typo does not depend on running.
TypesTheText == [][Unharmed' => Session!Next]_(Session!vars)

\* t is what s becomes by n edits at most, each of which inserts a character or
\* removes one: characters of s are found in t again, in order, and every other
\* character of the two is an edit.
Found(s, t, kept, where) ==
  /\ \A i \in kept : t[where[i]] = s[i]
  /\ \A i, j \in kept : i < j => where[i] < where[j]

EditsAway(s, t, n) ==
  \E kept \in SUBSET DOMAIN s :
    /\ (Len(s) - Cardinality(kept)) + (Len(t) - Cardinality(kept)) <= n
    /\ \E where \in [kept -> DOMAIN t] : Found(s, t, kept, where)

\* send_char and send_backspace do not look at the result of a send.  A press
\* that fails costs the document one character: the one it was to type, a
\* good one before it when it was to be a typo, or a typo that stays.
DamageBounded ==
  alive /\ ~slipped /\ pc \in Between => EditsAway(wanted, doc, faults)

\* And a release that fails leaves the key down until the next report gets
\* through; nothing else does.
KeyDownOnlyIfLost == held # NoKey => pc \in Holding \/ missed

\* Whatever fails, and wherever the one stop comes: a fetch frees what it has a
\* pointer to, once, and the typer frees the text; no report is sent through a
\* socket that is closed; and main leaves no socket open, the listening ones
\* and those of a connect that failed half way included.  What the JSON library
\* loses of a broken answer stays lost.
GivesBack ==
  /\ FetchIsTidy
  /\ pc \in {"off", "wait", "backoff", "ended"} => live \subseteq Stray
  /\ pc \notin {"off", "ended"} => fd["intr"] = "up"
  /\ main = "exited" => fd = [s \in Socket |-> "none"]

\* A stop ends the daemon, whether the typer waits, fetches, backs off or
\* types, and whether or not the host is still there.
ShutdownEnds == main = "join" ~> main = "exited"
=============================================================================
