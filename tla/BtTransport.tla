----------------------------- MODULE BtTransport -----------------------------
(***************************************************************************)
(* The Bluetooth transport of the Python daemon (src/bt_hid.py) and the    *)
(* calls that connect it: the one of main at startup and one for each      *)
(* POST /reconnect (src/api.py).  disconnect() runs on the event loop and  *)
(* has no await, so it is one step; the work of connect() runs in executor *)
(* threads, which the interpreter may switch between any two accesses to   *)
(* the transport's attributes.                                             *)
(*                                                                         *)
(* A call makes at most one control and one interrupt socket; a socket is  *)
(* named by the call that made it and its channel.  A socket nobody refers *)
(* to any more is closed, as CPython does.                                 *)
(***************************************************************************)
EXTENDS Integers, FiniteSets

CONSTANTS
  Main,     \* the call of main
  Requests, \* the calls of POST /reconnect
  None,
  MaxDrops  \* bound on how often the peer drops the link

ASSUME BtAssumption ==
  /\ Main \notin Requests /\ None \notin Requests \cup {Main}
  /\ MaxDrops \in Nat

Call == Requests \cup {Main}
Channel == {"ctrl", "intr"}

VARIABLES
  listen,     \* whether target_mac is empty: wait for the host to connect
  crossed,   \* history: calls a disconnect() fell into, or that began beside another
  pc,        \* where each call is
  chan,      \* the channel it is working on
  target,    \* the socket its thread is blocked in connect() on
  sock,      \* sock[c][ch]: the socket call c made for channel ch
  attr,      \* _ctrl_sock and _intr_sock: the call whose socket it is
  connected, \* _connected
  drops

mode == <<listen, crossed>>
bt == <<mode, pc, chan, target, sock, attr, connected, drops>>

\* In an executor thread, or about to be.
Busy == {"prepare", "open", "read", "wait", "accept", "flag"}

BtInit ==
  /\ listen \in BOOLEAN
  /\ crossed = {}
  /\ pc = [c \in Call |-> IF c = Main THEN "prepare" ELSE "idle"]
  /\ chan = [c \in Call |-> "ctrl"]
  /\ target = [c \in Call |-> <<>>]
  /\ sock = [c \in Call |-> [ch \in Channel |-> "none"]]
  /\ attr = [ch \in Channel |-> None]
  /\ connected = FALSE
  /\ drops = 0

AtWork == {c \in Call : pc[c] \in Busy}

Goto(c, from, to) == pc[c] = from /\ pc' = [pc EXCEPT ![c] = to]

-----------------------------------------------------------------------------
\* Mutant of Closed: only the interrupt socket is closed.
ClosedIntrOnly(s) ==
  [c \in Call |-> [ch \in Channel |->
     IF ch = "intr" /\ attr[ch] = c THEN "closed" ELSE s[c][ch]]]

\* The sockets once those of the attributes are closed.
Closed(s) ==
  [c \in Call |-> [ch \in Channel |-> IF attr[ch] = c THEN "closed" ELSE s[c][ch]]]

\* Mutant of Disconnect: the flag stays up.
DisconnectKeepsFlag ==
  /\ connected' = connected
  /\ sock' = Closed(sock)
  /\ attr' = [ch \in Channel |-> None]

\* Mutant of Disconnect: it returns at once when the flag is down.
DisconnectIfConnected ==
  /\ connected' = FALSE
  /\ sock' = IF connected THEN Closed(sock) ELSE sock
  /\ attr' = IF connected THEN [ch \in Channel |-> None] ELSE attr

Disconnect ==
  /\ connected' = FALSE
  /\ sock' = Closed(sock)
  /\ attr' = [ch \in Channel |-> None]

\* POST /reconnect: disconnect, then connect.  The API exists once main's own
\* call has succeeded.
Reconnect(c) ==
  /\ pc[Main] = "done"
  /\ Goto(c, "idle", "prepare")
  /\ Disconnect
  /\ crossed' = crossed \cup AtWork \cup (IF AtWork = {} THEN {} ELSE {c})
  /\ UNCHANGED <<listen, chan, target, drops>>

\* An exception ends the call.
Raise(c) ==
  /\ pc' = [pc EXCEPT ![c] = "failed"]
  /\ target' = [target EXCEPT ![c] = <<>>]
  /\ UNCHANGED <<mode, chan, attr, connected, drops>>

\* _setup_profile and, without a target, _make_discoverable and the binding of
\* the two server sockets: BlueZ, bluetoothctl or bind can refuse, and bind
\* does if another thread is still listening.
Prepare(c) ==
  /\ ~(listen /\ \E d \in Call \ {c} : pc[d] = "accept")
  /\ Goto(c, "prepare", IF listen THEN "accept" ELSE "open")
  /\ UNCHANGED <<mode, chan, target, sock, attr, connected, drops>>

PrepareFails(c) ==
  /\ pc[c] = "prepare"
  /\ Raise(c)
  /\ UNCHANGED sock

\* What becomes of the socket an assignment to attribute ch replaces: it is
\* closed, unless a thread is still inside its connect().
Replaced(ch) ==
  {d \in Call : attr[ch] = d /\ \A e \in Call : target[e] # <<d, ch>>}

Assign(c, status) ==
  LET ch == chan[c] IN
  /\ attr' = [attr EXCEPT ![ch] = c]
  /\ sock' = [d \in Call |-> [sock[d] EXCEPT ![ch] =
                IF d = c THEN status ELSE IF d \in Replaced(ch) THEN "closed" ELSE @]]

\* self._ctrl_sock = socket.socket(...), and the same for the other channel.
Open(c) ==
  /\ Goto(c, "open", "read")
  /\ Assign(c, "new")
  /\ UNCHANGED <<mode, chan, target, connected, drops>>

\* self._ctrl_sock.connect(...): the attribute is read again, and may by now
\* be None or another thread's socket.
Read(c) ==
  /\ attr[chan[c]] # None
  /\ Goto(c, "read", "wait")
  /\ target' = [target EXCEPT ![c] = <<attr[chan[c]], chan[c]>>]
  /\ UNCHANGED <<mode, chan, sock, attr, connected, drops>>

\* Mutant of ReadNone: the missing socket is waited for.
ReadNoneWaits(c) ==
  /\ pc[c] = "read" /\ attr[chan[c]] = None
  /\ UNCHANGED bt

ReadNone(c) ==
  /\ pc[c] = "read" /\ attr[chan[c]] = None
  /\ Raise(c)
  /\ UNCHANGED sock

\* The next channel, or the end of the work.
Onward(c) ==
  /\ chan' = [chan EXCEPT ![c] = "intr"]
  /\ pc' = [pc EXCEPT ![c] = IF chan[c] = "intr" THEN "flag"
                             ELSE IF listen THEN "accept" ELSE "open"]

\* connect() returns.  On a socket that was closed meanwhile the system call
\* may still succeed; on one another thread has connected it does not.
Connect(c) ==
  LET d == target[c][1]
      ch == target[c][2]
  IN
  /\ pc[c] = "wait"
  /\ sock[d][ch] \in {"new", "closed"}
  /\ sock' = [sock EXCEPT ![d][ch] =
                IF @ = "new" /\ attr[ch] = d THEN "open" ELSE "closed"]
  /\ target' = [target EXCEPT ![c] = <<>>]
  /\ Onward(c)
  /\ UNCHANGED <<mode, attr, connected, drops>>

\* The host refuses, the attempt times out, or the socket is not connectable.
\* The thread was perhaps the last to know a socket that has been replaced.
ConnectFails(c) ==
  LET d == target[c][1]
      ch == target[c][2]
  IN
  /\ pc[c] = "wait"
  /\ Raise(c)
  /\ sock' = [sock EXCEPT ![d][ch] =
                IF attr[ch] = d \/ \E e \in Call \ {c} : target[e] = <<d, ch>>
                THEN @ ELSE "closed"]

\* accept() returns a connected socket when the host opens the channel.
Accept(c) ==
  /\ pc[c] = "accept"
  /\ Assign(c, "open")
  /\ Onward(c)
  /\ UNCHANGED <<mode, target, connected, drops>>

\* Mutant of SetFlag: the flag is forgotten.
SetFlagForgotten(c) ==
  /\ Goto(c, "flag", "done")
  /\ UNCHANGED <<mode, chan, target, sock, attr, connected, drops>>

SetFlag(c) ==
  /\ Goto(c, "flag", "done")
  /\ connected' = TRUE
  /\ UNCHANGED <<mode, chan, target, sock, attr, drops>>

ThreadStep(c) ==
  \/ Prepare(c) \/ PrepareFails(c)
  \/ Open(c) \/ Read(c) \/ ReadNone(c) \/ Connect(c) \/ ConnectFails(c)
  \/ SetFlag(c)

\* The peer goes away: the sockets are dead, but only a send will notice, and
\* it changes nothing in the transport.
PeerDrops ==
  /\ drops < MaxDrops
  /\ \E c \in Call, ch \in Channel : sock[c][ch] = "open"
  /\ sock' = [c \in Call |-> [ch \in Channel |->
                IF sock[c][ch] = "open" THEN "dead" ELSE sock[c][ch]]]
  /\ drops' = drops + 1
  /\ UNCHANGED <<mode, pc, chan, target, attr, connected>>

BtNext ==
  \/ \E c \in Call : ThreadStep(c) \/ Accept(c)
  \/ \E c \in Requests : Reconnect(c)
  \/ PeerDrops

BtSpec == BtInit /\ [][BtNext]_bt

\* Executor threads run, and connect() returns in the end, if only with a
\* timeout.  accept() waits for the host as long as it takes.
BtFairSpec == BtSpec /\ \A c \in Call : WF_bt(ThreadStep(c))

-----------------------------------------------------------------------------
BtTypeOK ==
  /\ listen \in BOOLEAN /\ crossed \subseteq Call
  /\ pc \in [Call -> Busy \cup {"idle", "done", "failed"}]
  /\ chan \in [Call -> Channel]
  /\ target \in [Call -> {<<>>} \cup (Call \X Channel)]
  /\ sock \in [Call -> [Channel -> {"none", "new", "open", "dead", "closed"}]]
  /\ attr \in [Channel -> Call \cup {None}]
  /\ connected \in BOOLEAN
  /\ drops \in 0 .. MaxDrops

\* Whether a disconnect() ever ran while a call was at work.
overlapped == crossed # {}

ChannelIs(ch, statuses) == attr[ch] # None /\ sock[attr[ch]][ch] \in statuses

\* hid_transport.py:30, is_connected, "Whether the transport is currently
\* connected.": as long as no disconnect() has come in the middle of a
\* connect(), the flag is up only while both channels have a socket that was
\* connected and that this side has not closed, whatever calls failed half way
\* before.  (When a disconnect() does, the connect() that goes on sets the flag
\* over a socket that was closed under it.)
ConnectedMeansOpen ==
  ~overlapped /\ connected => \A ch \in Channel : ChannelIs(ch, {"open", "dead"})

\* Under the same condition a reconnect that answers {"reconnected": true} has
\* replaced the sockets by its own, and one that answers with an error leaves
\* the transport down.
ReplyIsTruthful ==
  [][~overlapped' =>
     \A c \in Call :
       /\ pc[c] # "done" /\ pc'[c] = "done" =>
            connected' /\ \A ch \in Channel : attr'[ch] = c
       /\ pc[c] # "failed" /\ pc'[c] = "failed" => ~connected']_bt

\* What overlapping calls leave does not last: a reconnect that no disconnect()
\* falls into and that begins beside no other ends with a true answer again,
\* whatever threads took each other's sockets away before it.  One that says
\* true has both channels on sockets of its own, whose peer may be gone; one
\* that answers with an error has left the transport down; and after either no
\* socket of an earlier call is left.
ReconnectHeals ==
  [][\A c \in Requests \ crossed' :
       pc[c] \in Busy /\ pc'[c] \notin Busy =>
         /\ connected' <=> pc'[c] = "done"
         /\ connected' => \A ch \in Channel : attr'[ch] = c /\ sock'[c][ch] \in {"open", "dead"}
         /\ \A d \in Call \ {c}, ch \in Channel : sock'[d][ch] \in {"none", "closed"}]_bt

\* With a target, every call of connect() comes back, however many of them
\* overlap and take each other's sockets away.
EveryCallReturns ==
  \A c \in Call : ~listen /\ pc[c] = "prepare" ~> pc[c] \in {"done", "failed"}

\* A call starts to open channels from a clean slate: whatever an earlier call
\* left half open has been closed, so the host never sees a second control
\* channel beside a live one.
StartsClean ==
  ~overlapped =>
    \A c \in Call :
      pc[c] = "prepare" =>
        \A d \in Call, ch \in Channel : sock[d][ch] \notin {"new", "open", "dead"}
=============================================================================
