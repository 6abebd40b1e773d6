------------------------------ MODULE CApiGate ------------------------------
(***************************************************************************)
(* The rate limiter of the C port (c/src/api.c, rate_limiter_check and its *)
(* call in handler): a counter per fixed window of one second of the wall  *)
(* clock, in a table of at most TableSize clients that never forgets one.  *)
(* The key of a client is the text of the address of the sockaddr that     *)
(* libmicrohttpd keeps for the connection, not the peer's IP, so           *)
(* connections are part of the model.  What handler does around the check  *)
(* is in CApi.                                                             *)
(*                                                                         *)
(* Real time is counted in ticks, TicksPerSecond to the second.  time(NULL)*)
(* shows whole seconds and follows the wall clock, which steps when the    *)
(* system's time is set.                                                   *)
(***************************************************************************)
EXTENDS Integers, FiniteSets

CONSTANTS
  Addr,            \* addresses libmicrohttpd can give a connection's sockaddr
  Ip,              \* peers
  Nobody,          \* no peer: the address is not in use
  MaxRequests,     \* rate_limiter_t.max_requests
  TableSize,       \* MAX_CLIENTS
  TicksPerSecond,
  MaxTime,         \* bound on real time
  MaxCalls,        \* bound on the number of limited requests
  MaxSteps         \* bound on how often the wall clock is set, by one second

ASSUME CGateAssumption ==
  /\ MaxRequests \in Nat /\ TableSize \in Nat
  /\ TicksPerSecond \in Nat \ {0}
  /\ MaxTime \in Nat /\ MaxCalls \in Nat /\ MaxSteps \in Nat
  /\ Nobody \notin Ip

VARIABLES
  ticks,    \* real time
  skew,     \* seconds the wall clock is ahead of real time
  steps,    \* times the wall clock was set
  back,     \* total seconds it was set back
  peer,     \* the peer of the connection at each address
  entries,  \* rate_limiter_t.entries: key -> count and window_start
  calls,    \* requests that reached the limiter
  admitted  \* history: requests rate_limiter_check let through

clock == <<ticks, skew, steps, back>>
gate == <<ticks, skew, steps, back, peer, entries, calls, admitted>>

\* time(NULL)
Second == (ticks \div TicksPerSecond) + skew

GateInit ==
  /\ ticks = 0 /\ skew = MaxSteps /\ steps = 0 /\ back = 0
  /\ peer = [a \in Addr |-> Nobody]
  /\ entries = <<>>
  /\ calls = 0
  /\ admitted = {}

Open(a, ip) ==
  /\ peer[a] = Nobody
  /\ peer' = [peer EXCEPT ![a] = ip]
  /\ UNCHANGED <<clock, entries, calls, admitted>>

\* The address is free again and may go to a connection of another peer.
Close(a) ==
  /\ peer[a] # Nobody
  /\ peer' = [peer EXCEPT ![a] = Nobody]
  /\ UNCHANGED <<clock, entries, calls, admitted>>

Known(a) == a \in DOMAIN entries

\* Mutant of WindowOver: the window lasts two seconds of the clock.
WindowOverLate(a) == Second - entries[a].start >= 2

\* now - window_start >= 1
WindowOver(a) == Second - entries[a].start >= 1

\* Mutant of UnderLimit: one more than the limit.
UnderLimitOffByOne(a) == entries[a].count <= MaxRequests

\* Not entries[i].count >= max_requests.
UnderLimit(a) == entries[a].count < MaxRequests

SetEntry(a, e) == entries' = [k \in DOMAIN entries \cup {a} |-> IF k = a THEN e ELSE entries[k]]

\* The four ways rate_limiter_check lets a request through.
NewWindow(a) ==
  /\ Known(a)
  /\ WindowOver(a)
  /\ SetEntry(a, [count |-> 1, start |-> Second])

CountUp(a) ==
  /\ Known(a)
  /\ ~WindowOver(a)
  /\ UnderLimit(a)
  /\ SetEntry(a, [entries[a] EXCEPT !.count = @ + 1])

NewClient(a) ==
  /\ ~Known(a)
  /\ Cardinality(DOMAIN entries) < TableSize
  /\ SetEntry(a, [count |-> 1, start |-> Second])

\* The table is full: the client is let through and not counted.
NoEntryLeft(a) ==
  /\ ~Known(a)
  /\ Cardinality(DOMAIN entries) >= TableSize
  /\ UNCHANGED entries

Admit(a) ==
  /\ peer[a] # Nobody
  /\ calls < MaxCalls
  /\ NewWindow(a) \/ CountUp(a) \/ NewClient(a) \/ NoEntryLeft(a)
  /\ admitted' = admitted \cup {[id |-> calls, key |-> a, at |-> ticks, sec |-> Second]}
  /\ calls' = calls + 1
  /\ UNCHANGED <<clock, peer>>

\* 429: the window is still open and its count used up.
Refuse(a) ==
  /\ peer[a] # Nobody
  /\ calls < MaxCalls
  /\ Known(a)
  /\ ~WindowOver(a)
  /\ ~UnderLimit(a)
  /\ calls' = calls + 1
  /\ UNCHANGED <<clock, peer, entries, admitted>>

Tick ==
  /\ ticks < MaxTime
  /\ ticks' = ticks + 1
  /\ UNCHANGED <<skew, steps, back, peer, entries, calls, admitted>>

\* The wall clock is set forward or back by one second.
StepClock(d) ==
  /\ steps < MaxSteps
  /\ skew' = skew + d
  /\ steps' = steps + 1
  /\ back' = IF d < 0 THEN back + 1 ELSE back
  /\ UNCHANGED <<ticks, peer, entries, calls, admitted>>

GateNext ==
  \/ Tick
  \/ \E d \in {-1, 1} : StepClock(d)
  \/ \E a \in Addr :
       \/ \E ip \in Ip : Open(a, ip)
       \/ Close(a)
       \/ Admit(a)
       \/ Refuse(a)

GateSpec == GateInit /\ [][GateNext]_gate

-----------------------------------------------------------------------------
GateTypeOK ==
  /\ ticks \in 0 .. MaxTime
  /\ skew \in 0 .. 2 * MaxSteps /\ steps \in 0 .. MaxSteps /\ back \in 0 .. steps
  /\ peer \in [Addr -> Ip \cup {Nobody}]
  /\ DOMAIN entries \subseteq Addr /\ Cardinality(DOMAIN entries) <= TableSize
  /\ \A a \in DOMAIN entries : entries[a].count \in Nat /\ entries[a].start \in Nat

\* What the limiter allows in one window: the request that opens a window is
\* not compared with the limit, so a limit of 0 works as a limit of 1.
Allowance == IF MaxRequests = 0 THEN 1 ELSE MaxRequests

KeyHitsSince(a, t) == {h \in admitted : h.key = a /\ h.at > t}

CalendarBound ==
  \A a \in DOMAIN entries, s \in 0 .. Second :
    Cardinality({h \in admitted : h.key = a /\ h.sec = s}) <= Allowance

SpanBound ==
  \A a \in DOMAIN entries :
    Cardinality(KeyHitsSince(a, ticks - TicksPerSecond)) <= (2 + steps) * Allowance

\* A client in the table gets at most its allowance in one second of the clock
\* as long as nobody sets the clock.  A span of one second touches two windows,
\* and every time the clock is set one more: that, not the limit, is what the
\* client can get through in it.
FixedWindowBound == (steps = 0 => CalendarBound) /\ SpanBound

\* A refused client has had its full limit let through within the last second
\* or, when the clock was set back, within that many seconds more.
RefusalIsEarned ==
  [][\A a \in Addr :
       Refuse(a) =>
         Cardinality(KeyHitsSince(a, ticks - (1 + back) * TicksPerSecond)) >= MaxRequests]_gate
=============================================================================
