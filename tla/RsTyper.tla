------------------------------- MODULE RsTyper -------------------------------
(***************************************************************************)
(* The typing task of the Rust port (rust/src/typer.rs) with the keyboard  *)
(* helpers of rust/src/transport.rs.  Unlike the Python typer it is never  *)
(* cancelled: it looks at the stop channel while it waits for the next     *)
(* session and before each character, and nowhere else.  A step runs from  *)
(* one await to the next; a report is sent under the lock of               *)
(* SharedTransport, so a send is one step.  A report counts as received    *)
(* once the kernel has taken it.  The gadget's files are opened blocking:  *)
(* while the host does not poll, the send waits.                           *)
(***************************************************************************)
EXTENDS HostKeyboard

CONSTANTS
  Texts,       \* non-empty texts fetch_text may return, trimmed
  MaxSessions, \* bound on the number of typing sessions
  MaxLinks     \* bound on how often the link goes

ASSUME TyperAssumption ==
  /\ Texts \subseteq Seq(Char) \ {<<>>}
  /\ MaxSessions \in Nat /\ MaxLinks \in Nat

VARIABLES
  usb,       \* the USB gadget; otherwise Bluetooth, which never comes back
  sound,     \* whether each range of the configuration can be sampled
  pc,        \* where the task waits
  rest,      \* the text from the current character on
  wanted,    \* history: the mapped characters the task has gone on to
  stop,      \* the value in the watch channel
  connected, \* whether reports reach the host
  polls,     \* whether the host takes reports; if not, a send waits
  links,     \* times the link went
  sessions   \* typing sessions begun

typer == <<usb, sound, pc, rest, wanted, stop, connected, polls, links, sessions,
           doc, held>>
host == <<doc, held>>
outside == <<usb, sound, connected, polls, links>>

\* Waiting between a press and its release, in send_key.
Holding == {"typoHold", "bsHold", "hold"}
Typing == Holding \cup {"char", "typoGap", "bsGap", "gap"}

\* In jiggle mode, or with typing disabled, there is no task.
TyperInit ==
  /\ usb \in BOOLEAN /\ sound \in BOOLEAN
  /\ pc \in {"wait", "ended"} /\ rest = <<>> /\ wanted = <<>> /\ stop = FALSE
  /\ connected = TRUE /\ polls = TRUE /\ links = 0 /\ sessions = 0
  /\ doc = <<>> /\ held = NoKey

Goto(from, to) == pc = from /\ pc' = to

\* A send comes back with the report sent.
Sends == connected /\ polls

-----------------------------------------------------------------------------
\* The deadline is reached, and stop still not set.
Wake ==
  /\ ~stop
  /\ Goto("wait", "fetch")
  /\ UNCHANGED <<rest, wanted, stop, sessions, outside, host>>

\* Mutant of StopSeen: the channel is not part of the select.
StopUnseen == FALSE /\ UNCHANGED typer

\* stop.changed(), or the check after the deadline: run returns.
StopSeen ==
  /\ stop
  /\ Goto("wait", "ended")
  /\ UNCHANGED <<rest, wanted, stop, sessions, outside, host>>

FetchText ==
  /\ sessions < MaxSessions
  /\ Goto("fetch", "char")
  /\ rest' \in Texts
  /\ sessions' = sessions + 1
  /\ UNCHANGED <<wanted, stop, outside, host>>

FetchEmpty ==
  /\ Goto("fetch", "wait")
  /\ UNCHANGED <<rest, wanted, stop, sessions, outside, host>>

\* The error is logged and the task sleeps for 60 seconds, stop or not.
FetchFails ==
  /\ Goto("fetch", "backoff")
  /\ UNCHANGED <<rest, wanted, stop, sessions, outside, host>>

BackoffOver ==
  /\ Goto("backoff", "wait")
  /\ UNCHANGED <<rest, wanted, stop, sessions, outside, host>>

\* The check before a character: the rest of the text is dropped.
StopBetween ==
  /\ stop
  /\ Goto("char", "wait")
  /\ rest' = <<>>
  /\ UNCHANGED <<wanted, stop, sessions, outside, host>>

-----------------------------------------------------------------------------
PressTypo ==
  /\ ~stop /\ Sends
  /\ Goto("char", "typoHold")
  /\ \E wrong \in Near[Head(rest)] : Press(wrong)
  /\ UNCHANGED <<rest, wanted, stop, sessions, outside>>

\* send_key: the second half, 8 ms after the first.
Release(from, to) ==
  /\ Sends
  /\ Goto(from, to)
  /\ AllUp
  /\ UNCHANGED <<rest, wanted, stop, sessions, outside>>

ReleaseTypo == Release("typoHold", "typoGap")

PressBackspace ==
  /\ Sends
  /\ Goto("typoGap", "bsHold")
  /\ Press(Backspace)
  /\ UNCHANGED <<rest, wanted, stop, sessions, outside>>

ReleaseBackspace == Release("bsHold", "bsGap")

\* From the character's own press on it belongs to the document.
AtCharacter == (pc = "char" /\ ~stop) \/ pc = "bsGap"

PressChar ==
  /\ Sends
  /\ AtCharacter /\ pc' = "hold"
  /\ Head(rest) \in Mapped
  /\ Press(Head(rest))
  /\ wanted' = Append(wanted, Head(rest))
  /\ UNCHANGED <<rest, stop, sessions, outside>>

\* Mutant of ReleaseChar: the release report is forgotten.
ForgetRelease ==
  /\ Goto("hold", "gap")
  /\ UNCHANGED <<rest, wanted, stop, sessions, outside, host>>

ReleaseChar == Release("hold", "gap")

\* type_char of an unmapped character sends nothing.
SkipChar ==
  /\ AtCharacter /\ pc' = "gap"
  /\ Head(rest) \notin Mapped
  /\ UNCHANGED <<rest, wanted, stop, sessions, outside, host>>

NextChar ==
  /\ pc = "gap"
  /\ rest' = Tail(rest)
  /\ pc' = IF rest' = <<>> THEN "wait" ELSE "char"
  /\ UNCHANGED <<wanted, stop, sessions, outside, host>>

\* The ? after a send: the error goes up to run, which logs it.
SendFails ==
  /\ ~connected
  /\ \/ pc \in Holding \cup {"typoGap"}
     \/ AtCharacter /\ (Head(rest) \in Mapped \/ (pc = "char" /\ Near[Head(rest)] # {}))
  /\ pc' = "wait"
  /\ rest' = <<>>
  /\ UNCHANGED <<wanted, stop, sessions, outside, host>>

\* random_range panics for a range of the configuration that is empty, or
\* from_secs_f64 for what comes out of it: the interval, the think pause
\* before a character, the delay after it or after a typo.  The task is gone.
Panics ==
  /\ ~sound
  /\ pc \in {"wait", "typoGap", "gap"} \/ (pc = "char" /\ ~stop)
  /\ pc' = "ended"
  /\ rest' = <<>>
  /\ UNCHANGED <<wanted, stop, sessions, outside, host>>

\* The writes that wait fail with the link.
LinkLost ==
  /\ connected /\ links < MaxLinks
  /\ connected' = FALSE
  /\ polls' = TRUE
  /\ links' = links + 1
  /\ AllUp
  /\ UNCHANGED <<usb, sound, pc, rest, wanted, stop, sessions>>

\* The host is plugged in again.
LinkRestored ==
  /\ usb
  /\ ~connected
  /\ connected' = TRUE
  /\ UNCHANGED <<usb, sound, pc, rest, wanted, stop, polls, sessions, links, host>>

\* The host of the gadget is suspended, and wakes up.
HostSleeps ==
  /\ usb /\ connected /\ polls
  /\ polls' = FALSE
  /\ UNCHANGED <<usb, sound, pc, rest, wanted, stop, connected, sessions, links, host>>

HostWakes ==
  /\ ~polls
  /\ polls' = TRUE
  /\ UNCHANGED <<usb, sound, pc, rest, wanted, stop, connected, sessions, links, host>>

TyperStep ==
  \/ Wake \/ StopSeen \/ FetchText \/ FetchEmpty \/ FetchFails \/ BackoffOver
  \/ StopBetween
  \/ PressTypo \/ ReleaseTypo \/ PressBackspace \/ ReleaseBackspace
  \/ PressChar \/ ReleaseChar \/ SkipChar \/ NextChar \/ SendFails
  \/ Panics

-----------------------------------------------------------------------------
TyperTypeOK ==
  /\ usb \in BOOLEAN /\ sound \in BOOLEAN
  /\ pc \in Typing \cup {"wait", "fetch", "backoff", "ended"}
  /\ rest \in Seq(Char) /\ wanted \in Seq(Mapped)
  /\ stop \in BOOLEAN /\ connected \in BOOLEAN /\ polls \in BOOLEAN
  /\ links \in 0 .. MaxLinks /\ sessions \in 0 .. MaxSessions
  /\ doc \in Seq(Char)
  /\ held \in Char \cup {NoKey, Backspace}

Shown == IF pc \in {"typoHold", "typoGap"} THEN Front(doc) ELSE doc
Remaining == IF pc \in {"hold", "gap"} THEN Tail(rest) ELSE rest

Session == INSTANCE TypingSession WITH doc <- Shown, rest <- Remaining

\* The task types the texts it fetches and nothing else, in whatever order
\* reports, typos, lost links, the stop and a panic fall: see TypingSession.
TypesTheText == Session!Spec
=============================================================================
