------------------------------- MODULE CTyper -------------------------------
(***************************************************************************)
(* The typing engine of the C port: typer_thread and type_text of          *)
(* c/src/typer.c with the text they fetch (CLlmClient), the socket they    *)
(* send to (CBtTransport) and the host.  A step runs from one usleep or    *)
(* system call to the next; the running flag is cleared between any two.   *)
(*                                                                         *)
(* Nobody looks at the result of a send.  Pauses are left out: running is  *)
(* not looked at between a think pause and the press that follows it, so a *)
(* stop during the one is a stop right after the other.                    *)
(***************************************************************************)
EXTENDS HostKeyboard, CLlmClient, CBtTransport

CONSTANTS
  Documents,   \* what the focused document may hold at the beginning
  Faulty,      \* which reports can fail although the peer is there: send is
               \* out of memory or is interrupted
  MaxFaults,   \* bound on how often one does
  MaxSessions  \* bound on the number of answers

ASSUME CTyperAssumption ==
  /\ Documents \subseteq Seq(Char)
  /\ Answers \subseteq Seq(Char)
  /\ Faulty \subseteq {"press", "release"}
  /\ MaxFaults \in Nat
  /\ MaxSessions \in Nat

VARIABLES
  pc,       \* where the thread is
  rest,     \* the text from the current character on
  running,  \* typer.running
  sessions, \* answers so far
  wanted,   \* history: the document and the characters the typer has gone on to
  missed,   \* history: whether the last report did not reach the host
  faults,   \* history: presses that failed although the peer was there,
  slipped   \* and whether a release did

history == <<wanted, missed, faults, slipped>>
host == <<doc, held>>
typer == <<pc, rest, running, sessions, history, host, fetch>>

\* Between a press and its release.
Holding == {"typoHold", "bsHold", "hold"}
\* Inside type_text.
Typing == Holding \cup {"char", "typoGap", "bsGap", "gap"}
\* Between two characters.
Between == {"off", "wait", "fetch", "backoff", "char", "gap", "ended"}

TyperInit ==
  /\ FetchInit
  /\ pc = "off" /\ rest = <<>> /\ running = FALSE /\ sessions = 0
  /\ doc \in Documents /\ held = NoKey
  /\ wanted = doc
  /\ missed = FALSE /\ faults = 0 /\ slipped = FALSE

Goto(from, to) == pc = from /\ pc' = to

\* typer_start: running is set before the thread is there.
StartTyper ==
  /\ Goto("off", "wait")
  /\ running' = TRUE
  /\ UNCHANGED <<rest, sessions, history, host, fetch>>

-----------------------------------------------------------------------------
\* typer_thread.

\* The interval is over, and running still set.
Wake ==
  /\ running
  /\ Goto("wait", "fetch")
  /\ Call
  /\ UNCHANGED <<rest, running, sessions, history, host>>

\* Mutant of StopSeen: running is looked at until the first text only.
StopUnseen ==
  /\ ~running /\ sessions = 0
  /\ Goto("wait", "ended")
  /\ UNCHANGED <<rest, running, sessions, history, host, fetch>>

\* The flag is looked at once a second, after the interval, and after a text.
StopSeen ==
  /\ ~running
  /\ Goto("wait", "ended")
  /\ UNCHANGED <<rest, running, sessions, history, host, fetch>>

Fetching ==
  /\ pc = "fetch"
  /\ FetchStep
  /\ sessions' = IF stage = "extract" /\ stage' = "trim" THEN sessions + 1 ELSE sessions
  /\ sessions' <= MaxSessions
  /\ UNCHANGED <<pc, rest, running, history, host>>

\* Mutant of TypeText: an empty text is typed too.
TypeTextAny ==
  /\ stage = "returned" /\ "result" \in live
  /\ Goto("fetch", "char")
  /\ rest' = text
  /\ UNCHANGED <<running, sessions, history, host, fetch>>

\* text && text[0]
TypeText ==
  /\ stage = "returned" /\ "result" \in live /\ text # <<>>
  /\ Goto("fetch", "char")
  /\ rest' = text
  /\ UNCHANGED <<running, sessions, history, host, fetch>>

\* NULL or an empty text, which is freed: sixty seconds' sleep.
NothingToType ==
  /\ stage = "returned" /\ ("result" \in live => text = <<>>)
  /\ Goto("fetch", "backoff")
  /\ Done
  /\ UNCHANGED <<rest, running, sessions, history, host, text>>

BackoffOver ==
  /\ Goto("backoff", "wait")
  /\ UNCHANGED <<rest, running, sessions, history, host, fetch>>

\* type_text is back, and the text is freed.
TextDone ==
  /\ pc' = "wait"
  /\ rest' = <<>>
  /\ Done
  /\ UNCHANGED <<running, sessions, history, host, text>>

-----------------------------------------------------------------------------
\* type_text, send_char and send_backspace.

\* A report that reaches the host, or one nobody sees: the peer is gone, or
\* the send fails for a reason of its own.
SendPress(key) ==
  \/ /\ Up
     /\ Press(key)
     /\ missed' = FALSE
     /\ UNCHANGED <<faults, slipped>>
  \/ /\ ~Up
     /\ missed' = TRUE
     /\ UNCHANGED <<host, faults, slipped>>
  \/ /\ Up /\ "press" \in Faulty /\ faults < MaxFaults
     /\ missed' = TRUE
     /\ faults' = faults + 1
     /\ UNCHANGED <<host, slipped>>

SendRelease ==
  \/ /\ Up
     /\ AllUp
     /\ missed' = FALSE
     /\ UNCHANGED <<faults, slipped>>
  \/ /\ ~Up
     /\ missed' = TRUE
     /\ UNCHANGED <<host, faults, slipped>>
  \/ /\ Up /\ "release" \in Faulty
     /\ missed' = TRUE
     /\ slipped' = TRUE
     /\ UNCHANGED <<host, faults>>

PressTypo ==
  /\ running
  /\ Goto("char", "typoHold")
  /\ \E wrong \in Near[Head(rest)] : SendPress(wrong)
  /\ UNCHANGED <<rest, running, sessions, wanted, fetch>>

Release(from, to) ==
  /\ Goto(from, to)
  /\ SendRelease
  /\ UNCHANGED <<rest, running, sessions, wanted, fetch>>

ReleaseTypo == Release("typoHold", "typoGap")

\* Mutant of PressBackspace: the stop is looked at before the correction too.
PressBackspaceUnlessStopped ==
  /\ pc = "typoGap"
  /\ IF running
     THEN /\ pc' = "bsHold"
          /\ SendPress(Backspace)
          /\ UNCHANGED <<rest, running, sessions, wanted, fetch>>
     ELSE TextDone

PressBackspace ==
  /\ Goto("typoGap", "bsHold")
  /\ SendPress(Backspace)
  /\ UNCHANGED <<rest, running, sessions, wanted, fetch>>

ReleaseBackspace == Release("bsHold", "bsGap")

\* The character itself, at once or after the correction.
AtCharacter == (pc = "char" /\ running) \/ pc = "bsGap"

PressChar ==
  /\ AtCharacter /\ pc' = "hold"
  /\ Head(rest) \in Mapped
  /\ SendPress(Head(rest))
  /\ wanted' = Append(wanted, Head(rest))
  /\ UNCHANGED <<rest, running, sessions, fetch>>

\* Mutant of ReleaseChar: the release report is forgotten.
ForgetRelease ==
  /\ Goto("hold", "gap")
  /\ UNCHANGED <<rest, running, sessions, history, host, fetch>>

ReleaseChar == Release("hold", "gap")

\* char_to_hid_report returned -1: nothing is sent.
SkipChar ==
  /\ AtCharacter /\ pc' = "gap"
  /\ Head(rest) \notin Mapped
  /\ UNCHANGED <<rest, running, sessions, history, host, fetch>>

NextChar ==
  /\ pc = "gap" /\ Tail(rest) # <<>>
  /\ pc' = "char"
  /\ rest' = Tail(rest)
  /\ UNCHANGED <<running, sessions, history, host, fetch>>

LastChar ==
  /\ pc = "gap" /\ Tail(rest) = <<>>
  /\ TextDone

\* text[i] && t->running
StopBetween ==
  /\ pc = "char" /\ ~running
  /\ TextDone

TyperStep ==
  \/ Wake \/ StopSeen \/ Fetching \/ TypeText \/ NothingToType \/ BackoffOver
  \/ PressTypo \/ ReleaseTypo \/ PressBackspace \/ ReleaseBackspace
  \/ PressChar \/ ReleaseChar \/ SkipChar \/ NextChar \/ LastChar \/ StopBetween

-----------------------------------------------------------------------------
TyperTypeOK ==
  /\ pc \in Typing \cup Between
  /\ pc \in Typing <=> rest # <<>>
  /\ rest \in Seq(Char) /\ wanted \in Seq(Char)
  /\ running \in BOOLEAN /\ missed \in BOOLEAN /\ slipped \in BOOLEAN
  /\ sessions \in 0 .. MaxSessions /\ faults \in 0 .. MaxFaults
  /\ text \in Seq(Char)
  /\ doc \in Seq(Char)
  /\ held \in Char \cup {NoKey, Backspace}

\* Every report so far has reached the host.
Unharmed == alive /\ faults = 0 /\ ~slipped

\* The document without a typo that is being corrected, and the text as it
\* remains once the current character is down.
Shown == IF pc \in {"typoHold", "typoGap"} THEN Front(doc) ELSE doc
Remaining == IF pc \in {"hold", "gap"} THEN Tail(rest) ELSE rest

Session == INSTANCE TypingSession WITH doc <- Shown, rest <- Remaining, Texts <- {Trimmed(a) : a \in Answers} \ {<<>>}
=============================================================================
