------------------------------- MODULE PyTyper -------------------------------
(***************************************************************************)
(* The Python typing engine (src/typer.py) with the text it fetches        *)
(* (src/llm_client.py), the keyboard reports it sends and the host that    *)
(* receives them.  A step runs from one await of the typer task to the     *)
(* next; between them anything else may happen: the link goes and comes    *)
(* back (the peer, or POST /reconnect), main cancels the task.             *)
(*                                                                         *)
(* Pauses are left out: a think pause changes nothing but the time.        *)
(***************************************************************************)
EXTENDS HostKeyboard

CONSTANTS
  Texts,       \* non-empty texts the LLM may answer with, markdown stripped
  MaxAttempts, \* MAX_RETRIES of llm_client.py
  Faulty,      \* which reports can fail although the link is up: the USB
               \* gadget's file is opened O_NONBLOCK, so a write can raise
  MaxSessions, \* bound on the number of typing sessions
  MaxLinks     \* bound on how often the link goes

ASSUME TyperAssumption ==
  /\ Texts \subseteq Seq(Char) \ {<<>>}
  /\ MaxAttempts \in Nat \ {0}
  /\ Faulty \subseteq {"press", "release"}
  /\ MaxSessions \in Nat
  /\ MaxLinks \in Nat

VARIABLES
  pc,        \* where the task waits
  attempt,   \* attempt of fetch_text
  rest,      \* the text from the current character on
  connected, \* whether reports reach the host
  sessions,  \* typing sessions begun
  links,     \* times the link went
  refused,   \* history: a release was refused, and no report has got through
             \* nor the link gone since
  swallowed  \* history: a press of this text was of a key that was still down

history == <<refused, swallowed>>
vars == <<pc, attempt, rest, connected, sessions, links, doc, held, history>>
host == <<doc, held, history>>
link == <<connected, links>>

\* Waiting between a press and its release.
Holding == {"typoHold", "bsHold", "hold"}
\* Inside _type_text.
Typing == Holding \cup {"char", "typoGap", "bsGap", "gap"}
Places == Typing \cup {"sleep", "fetch", "retry", "stopped"}

Init ==
  /\ pc = "sleep" /\ attempt = 0 /\ rest = <<>>
  /\ connected = TRUE /\ links = 0 /\ sessions = 0
  /\ doc = <<>> /\ held = NoKey
  /\ refused = FALSE /\ swallowed = FALSE

Goto(from, to) == pc = from /\ pc' = to

\* The host gets a report with key k down, or an all-zero one.
Down(k) ==
  /\ Press(k)
  /\ refused' = FALSE
  /\ swallowed' = (swallowed \/ held = k)

Up ==
  /\ AllUp
  /\ refused' = FALSE
  /\ UNCHANGED swallowed

-----------------------------------------------------------------------------
\* The interval is over: fetch_text is called.
Wake ==
  /\ Goto("sleep", "fetch")
  /\ attempt' = 1
  /\ UNCHANGED <<rest, sessions, link, host>>

\* The LLM answered with text: _type_text begins.
FetchText ==
  /\ sessions < MaxSessions
  /\ Goto("fetch", "char")
  /\ rest' \in Texts
  /\ sessions' = sessions + 1
  /\ swallowed' = FALSE
  /\ UNCHANGED <<attempt, link, doc, held, refused>>

\* The LLM answered with nothing to type: the session is skipped.
FetchEmpty ==
  /\ Goto("fetch", "sleep")
  /\ UNCHANGED <<attempt, rest, sessions, link, host>>

\* The request failed: try again after RETRY_DELAY, or give up with "".
FetchFails ==
  /\ pc = "fetch"
  /\ pc' = IF attempt < MaxAttempts THEN "retry" ELSE "sleep"
  /\ UNCHANGED <<attempt, rest, sessions, link, host>>

\* Mutant of Retry: the attempts are not counted.
RetryUncounted ==
  /\ Goto("retry", "fetch")
  /\ UNCHANGED <<attempt, rest, sessions, link, host>>

Retry ==
  /\ Goto("retry", "fetch")
  /\ attempt' = attempt + 1
  /\ UNCHANGED <<rest, sessions, link, host>>

-----------------------------------------------------------------------------
PressTypo ==
  /\ connected
  /\ Goto("char", "typoHold")
  /\ \E wrong \in Near[Head(rest)] : Down(wrong)
  /\ UNCHANGED <<attempt, rest, sessions, link>>

Release(from, to) ==
  /\ connected
  /\ Goto(from, to)
  /\ Up
  /\ UNCHANGED <<attempt, rest, sessions, link>>

ReleaseTypo == Release("typoHold", "typoGap")

\* Mutant of PressBackspace: the correction is skipped.
SkipBackspace ==
  /\ Goto("typoGap", "bsGap")
  /\ UNCHANGED <<attempt, rest, sessions, link, host>>

PressBackspace ==
  /\ connected
  /\ Goto("typoGap", "bsHold")
  /\ Down(Backspace)
  /\ UNCHANGED <<attempt, rest, sessions, link>>

ReleaseBackspace == Release("bsHold", "bsGap")

PressChar ==
  /\ connected
  /\ pc \in {"char", "bsGap"} /\ pc' = "hold"
  /\ Head(rest) \in Mapped
  /\ Down(Head(rest))
  /\ UNCHANGED <<attempt, rest, sessions, link>>

\* Mutant of ReleaseChar: the release report is forgotten.
ForgetRelease ==
  /\ Goto("hold", "gap")
  /\ UNCHANGED <<attempt, rest, sessions, link, host>>

ReleaseChar == Release("hold", "gap")

\* encode_keyboard_report returned None: nothing is sent.
SkipChar ==
  /\ pc \in {"char", "bsGap"} /\ pc' = "gap"
  /\ Head(rest) \notin Mapped
  /\ UNCHANGED <<attempt, rest, sessions, link, host>>

\* The delay after a character is over; after the last the task sleeps again.
NextChar ==
  /\ pc = "gap"
  /\ rest' = Tail(rest)
  /\ pc' = IF rest' = <<>> THEN "sleep" ELSE "char"
  /\ UNCHANGED <<attempt, sessions, link, host>>

\* send_keyboard_report raises: no link, or a write the device cannot take.
\* run() logs "Typer error" and the rest of the text is dropped.
SendRaises ==
  /\ \/ /\ pc \in {"char", "typoGap", "bsGap"}
        /\ ~connected \/ "press" \in Faulty
        /\ pc = "typoGap" \/ Head(rest) \in Mapped \/ (pc = "char" /\ Near[Head(rest)] # {})
     \/ /\ pc \in Holding
        /\ ~connected \/ "release" \in Faulty
  /\ pc' = "sleep"
  /\ rest' = <<>>
  /\ refused' = (refused \/ (pc \in Holding /\ connected))
  /\ UNCHANGED <<attempt, sessions, link, doc, held, swallowed>>

-----------------------------------------------------------------------------
\* main's finally block cancels the task; it ends at the await it waits at.
Cancel ==
  /\ pc # "stopped"
  /\ pc' = "stopped"
  /\ rest' = <<>>
  /\ UNCHANGED <<attempt, sessions, link, host>>

\* Mutant of Disconnect: the transport is left open at shutdown.
LeaveConnected ==
  /\ pc = "stopped"
  /\ UNCHANGED vars

\* After the cancelled tasks are gathered, main disconnects the transport.
Disconnect ==
  /\ pc = "stopped"
  /\ connected
  /\ connected' = FALSE
  /\ Up
  /\ UNCHANGED <<pc, attempt, rest, sessions, links>>

\* The peer goes out of range, or POST /reconnect closes the link.
LinkLost ==
  /\ pc # "stopped"
  /\ connected /\ links < MaxLinks
  /\ connected' = FALSE
  /\ links' = links + 1
  /\ Up
  /\ UNCHANGED <<pc, attempt, rest, sessions>>

LinkRestored ==
  /\ pc # "stopped"
  /\ ~connected
  /\ connected' = TRUE
  /\ UNCHANGED <<pc, attempt, rest, sessions, links, host>>

TyperStep ==
  \/ Wake \/ FetchText \/ FetchEmpty \/ FetchFails \/ Retry
  \/ PressTypo \/ ReleaseTypo \/ PressBackspace \/ ReleaseBackspace
  \/ PressChar \/ ReleaseChar \/ SkipChar \/ NextChar \/ SendRaises

Next ==
  \/ TyperStep \/ Cancel \/ Disconnect
  \/ LinkLost \/ LinkRestored

Spec == Init /\ [][Next]_vars

\* The event loop runs a task whose timer or request is done: every sleep of
\* the typer is finite and a request times out after TIMEOUT seconds.  After a
\* cancel main goes on to disconnect.  Nothing makes the link come back.
FairSpec == Spec /\ WF_vars(TyperStep) /\ WF_vars(Disconnect)

-----------------------------------------------------------------------------
TypeOK ==
  /\ pc \in Places
  /\ attempt \in 0 .. MaxAttempts
  /\ rest \in Seq(Char)
  /\ connected \in BOOLEAN
  /\ sessions \in 0 .. MaxSessions
  /\ links \in 0 .. MaxLinks
  /\ doc \in Seq(Char)
  /\ held \in Char \cup {NoKey, Backspace}
  /\ refused \in BOOLEAN /\ swallowed \in BOOLEAN

\* typer.py:105, "Send a key press and release for a single character.": no
\* key is down while the task waits between two keystrokes, and above all not
\* while it waits for the next session; unless the device refused a release,
\* and then no longer than until a report gets through or the link goes.
IdleReleased == pc \notin Holding \cup {"stopped"} /\ held # NoKey => refused

\* The document as a session leaves it, a typo under correction taken out, and
\* the text as it remains once the current character is down.
Shown == IF pc \in {"typoHold", "typoGap"} THEN Front(doc) ELSE doc
Remaining == IF pc \in {"hold", "gap"} THEN Tail(rest) ELSE rest

Session == INSTANCE TypingSession WITH doc <- Shown, rest <- Remaining

\* The engine types the text and nothing else, in whatever order reports,
\* refused reports, typos, lost links and the shutdown fall: see TypingSession.
\* A text is excepted once it has begun with the key that a refused release
\* before it has left down, for the host does not see that key go down.
TypesTheText ==
  Session!Init /\ [][~swallowed' => Session!Next]_(Session!vars)

\* A session, once begun, comes to an end, and so does a fetch.
SessionEnds == [](pc \notin {"sleep", "stopped"} => <>(pc \in {"sleep", "stopped"}))

\* Wherever the shutdown catches the typer, no key stays down on the host.
ShutdownReleases == (pc = "stopped") ~> [](held = NoKey)
=============================================================================
