------------------------------- MODULE ApiGate -------------------------------
(***************************************************************************)
(* The gate every REST request of the Python daemon passes before its      *)
(* handler: AuthRateLimitMiddleware.dispatch and the sliding-window        *)
(* RateLimiter of src/api.py.  The Rust port has the same gate             *)
(* (rust/src/api.rs, auth_middleware and RateLimiter::is_allowed); there   *)
(* it runs under a mutex, here between two awaits of one event loop, so a  *)
(* request's pass through the limiter is one step in both.                 *)
(*                                                                         *)
(* Time is the monotonic clock in ticks; Window is the window in ticks     *)
(* (one second in create_api_app).  A hit is a record with a serial        *)
(* number, because two requests may read the same clock value and the      *)
(* list the code keeps holds both.                                         *)
(***************************************************************************)
EXTENDS Integers, FiniteSets

CONSTANTS
  Client,       \* values of request.client.host
  MaxRequests,  \* RateLimiter.max_requests, from config api.rate_limit
  Window,       \* RateLimiter.window, in ticks
  MaxTime,      \* bound on the clock
  MaxCalls      \* bound on the number of limited requests

ASSUME GateAssumption ==
  /\ MaxRequests \in Nat
  /\ Window \in Nat \ {0}
  /\ MaxTime \in Nat
  /\ MaxCalls \in Nat

VARIABLES
  now,      \* time.monotonic()
  hits,     \* RateLimiter._hits: the remembered requests of each client
  calls,    \* number of requests that reached the limiter
  admitted, \* history: every request the limiter ever let through
  reply     \* the last answer: whom it went to and its status code

gate == <<now, hits, calls, admitted, reply>>

Hit == [id : Nat, at : Nat]

NoReply == [client |-> "none", code |-> 0]

GateInit ==
  /\ now = 0
  /\ hits = [c \in Client |-> {}]
  /\ calls = 0
  /\ admitted = [c \in Client |-> {}]
  /\ reply = NoReply

\* Mutant of Pruned: a hit exactly Window old still counts.
PrunedLate(c) == {h \in hits[c] : h.at >= now - Window}

\* The hits of c that are still inside the window (t > cutoff).
Pruned(c) == {h \in hits[c] : h.at > now - Window}

\* Mutant of HasRoom: the comparison is off by one.
HasRoomOffByOne(c) == Cardinality(Pruned(c)) <= MaxRequests

\* len(hits) >= self.max_requests refuses.
HasRoom(c) == Cardinality(Pruned(c)) < MaxRequests

Answer(c, code) == reply' = [client |-> c, code |-> code]

\* GET /health is answered before the limiter and the key check.
Health(c) ==
  /\ Answer(c, 200)
  /\ UNCHANGED <<now, hits, calls, admitted>>

\* is_allowed returns False: the pruned list is stored, nothing is appended.
TooManyRequests(c) ==
  /\ calls < MaxCalls
  /\ ~HasRoom(c)
  /\ hits' = [hits EXCEPT ![c] = Pruned(c)]
  /\ calls' = calls + 1
  /\ Answer(c, 429)
  /\ UNCHANGED <<now, admitted>>

\* is_allowed returns True, then the key decides between the handler and 401:
\* a request with a wrong key has used up budget all the same.
Admit(c, keyMatches) ==
  LET hit == [id |-> calls, at |-> now] IN
  /\ calls < MaxCalls
  /\ HasRoom(c)
  /\ hits' = [hits EXCEPT ![c] = Pruned(c) \cup {hit}]
  /\ admitted' = [admitted EXCEPT ![c] = @ \cup {hit}]
  /\ calls' = calls + 1
  /\ Answer(c, IF keyMatches THEN 200 ELSE 401)
  /\ UNCHANGED now

Tick ==
  /\ now < MaxTime
  /\ now' = now + 1
  /\ UNCHANGED <<hits, calls, admitted, reply>>

GateNext ==
  \/ Tick
  \/ \E c \in Client :
       \/ Health(c)
       \/ TooManyRequests(c)
       \/ \E keyMatches \in BOOLEAN : Admit(c, keyMatches)

GateSpec == GateInit /\ [][GateNext]_gate

-----------------------------------------------------------------------------
GateTypeOK ==
  /\ now \in Nat
  /\ calls \in Nat
  /\ hits \in [Client -> SUBSET Hit]
  /\ admitted \in [Client -> SUBSET Hit]
  /\ reply \in {NoReply} \cup [client : Client, code : {200, 401, 429}]

\* The admitted requests of c in the window of length Window that ends at w.
AdmittedIn(c, w) == {h \in admitted[c] : w - Window < h.at /\ h.at <= w}

\* What the limiter promises: whatever second one picks, not only the last
\* one, and wherever it begins, at most MaxRequests requests of a client got
\* past the limiter in it.  The code only ever looks at the window that ends
\* now and forgets what it prunes.
RateBound ==
  \A c \in Client, w \in 0 .. MaxTime :
    Cardinality(AdmittedIn(c, w)) <= MaxRequests

\* A refusal is earned: 429 goes out only if this very client, alone, had its
\* full allowance let through during the window that ends now.  Refused
\* requests, other clients and expired hits never count against it.
RefusalIsEarned ==
  [][\A c \in Client :
       (calls' # calls /\ reply' = [client |-> c, code |-> 429])
         => Cardinality(AdmittedIn(c, now)) >= MaxRequests]_gate
=============================================================================
