-------------------------------- MODULE CApi --------------------------------
(***************************************************************************)
(* The REST API of the C port (c/src/api.c): handler, which libmicrohttpd  *)
(* calls several times for one request, with its endpoints and the state   *)
(* they share, around the rate limiter (CApiGate).  A POST or PATCH comes  *)
(* in at least two calls: the first allocates a post_data, further ones    *)
(* append what was uploaded, and the last finds nothing left to read and   *)
(* answers.  The calls of different connections alternate as data arrives, *)
(* and a connection may end after any of them.  One thread makes them all. *)
(*                                                                         *)
(* A body is a sequence of pieces.  The JSON of POST /mode begins with a   *)
(* piece that names the mode, and is over with the piece End; whatever     *)
(* comes after it cJSON_Parse does not look at.  What a request asks for   *)
(* does not matter before its last call, and is chosen there.              *)
(***************************************************************************)
EXTENDS CApiGate, Sequences

CONSTANTS
  Piece,         \* what bodies are made of
  Bodies,        \* what clients upload
  Mode,          \* jiggle, type and both
  End,           \* the piece that ends the JSON
  MaxPost,       \* MAX_POST_SIZE, in pieces
  MaxBodies,     \* bound on the number of bodies
  None           \* no request with a body

ASSUME CApiAssumption ==
  /\ MaxPost \in Nat \ {0}
  /\ Bodies \subseteq Seq(Piece)
  /\ End \notin Mode
  /\ MaxBodies \in Nat
  /\ None \notin [body : Bodies, keyed : BOOLEAN, sent : Nat, got : Seq(Piece)]

VARIABLES
  up,       \* whether the server is starting, serving or stopped
  mode,     \* api_state_t.current_mode
  session,  \* api_state_t.last_typing_session
  typer,    \* whether api_state_t.typer is set
  request,  \* request[a]: the request with a body that is being read at a
  live,     \* post_data structs that are allocated
  begun,    \* bodies so far
  dropped   \* history: bodies whose request got 429, 401 or no answer at all

state == <<mode, session, typer>>
heap == <<request, live, begun, dropped>>
vars == <<gate, up, state, heap>>

Init ==
  /\ GateInit
  /\ up = "starting"
  /\ mode \in Mode /\ session = 0
  /\ typer \in BOOLEAN /\ (typer => mode # "jiggle")
  /\ request = [a \in Addr |-> None]
  /\ live = 0 /\ begun = 0 /\ dropped = 0

Reading(a) == request[a] # None

\* api_start; without a server the daemon goes on.
Serve ==
  /\ up = "starting" /\ up' = "serving"
  /\ UNCHANGED <<gate, state, heap>>

\* Of a JSON text, as much of it as buffer holds: the mode it names, if it is
\* complete.
Says(buffer, m) ==
  /\ buffer # <<>> /\ buffer[1] = m
  /\ \E i \in DOMAIN buffer : buffer[i] = End

-----------------------------------------------------------------------------
\* The calls of handler before the last.

\* *con_cls == NULL: calloc
FirstCall(a) ==
  /\ up = "serving"
  /\ peer[a] # Nobody /\ ~Reading(a)
  /\ begun < MaxBodies
  /\ \E body \in Bodies, keyed \in BOOLEAN :
       request' = [request EXCEPT ![a] = [body |-> body, keyed |-> keyed, sent |-> 0, got |-> <<>>]]
  /\ live' = live + 1 /\ begun' = begun + 1
  /\ UNCHANGED <<gate, up, state, dropped>>

\* No memory: MHD_NO ends the connection.
FirstCallFails(a) ==
  /\ up = "serving" /\ ~Reading(a)
  /\ Close(a)
  /\ UNCHANGED <<up, state, heap>>

Smaller(m, n) == IF m < n THEN m ELSE n

\* Mutant of Remaining: no byte is kept for the NUL at the end.
RemainingAll(r) == MaxPost - Len(r.got)

Remaining(r) == MaxPost - Len(r.got) - 1

\* The next n pieces; those that have no room are lost.
Upload(a, n) ==
  /\ Reading(a)
  /\ n > 0 /\ request[a].sent + n <= Len(request[a].body)
  /\ LET r == request[a]
         to_copy == Smaller(n, Remaining(r))
     IN request' = [request EXCEPT ![a].sent = r.sent + n,
                                   ![a].got = r.got \o SubSeq(r.body, r.sent + 1, r.sent + to_copy)]
  /\ UNCHANGED <<gate, up, state, live, begun, dropped>>

-----------------------------------------------------------------------------
\* The last call, and those of requests without a body.

LastCall(a) == Reading(a) /\ request[a].sent = Len(request[a].body)

\* The request is over, and its body is not freed.
Forget(a) ==
  /\ request' = [request EXCEPT ![a] = None]
  /\ dropped' = dropped + 1
  /\ UNCHANGED <<live, begun>>

TooManyRequests(a) ==
  /\ LastCall(a)
  /\ Refuse(a)
  /\ Forget(a)
  /\ UNCHANGED <<up, state>>

\* Mutant of Authorized: the key is looked up and not compared.
AuthorizedAll(a) == TRUE

Authorized(a) == request[a].keyed

Unauthorized(a) ==
  /\ LastCall(a)
  /\ Admit(a)
  /\ ~Authorized(a)
  /\ Forget(a)
  /\ UNCHANGED <<up, state>>

\* Mutant of Free: the struct of a request that was answered stays.
FreeForgotten(a) ==
  /\ request' = [request EXCEPT ![a] = None]
  /\ UNCHANGED <<live, begun, dropped>>

Free(a) ==
  /\ request' = [request EXCEPT ![a] = None]
  /\ live' = live - 1
  /\ UNCHANGED <<begun, dropped>>

Dispatch(a) ==
  /\ LastCall(a)
  /\ Admit(a)
  /\ Authorized(a)
  /\ Free(a)
  /\ UNCHANGED up

\* POST /mode
HandleMode(a) ==
  /\ Dispatch(a)
  /\ \E m \in Mode : Says(request[a].got, m) /\ mode' = m
  /\ UNCHANGED <<session, typer>>

\* POST /type
HandleType(a) ==
  /\ Dispatch(a)
  /\ typer
  /\ session' = Second
  /\ UNCHANGED <<mode, typer>>

\* What changes nothing: POST /mode with a text that is no JSON or names no
\* mode, POST /type without a typer, POST /jiggle and /reconnect, which only
\* answer, and what is not found, PATCH among it.
HandleOther(a) ==
  /\ Dispatch(a)
  /\ UNCHANGED state

\* GET: /status and /config, 401, 404 or 429.  GET /health comes before the
\* limiter and changes nothing.
Get(a) ==
  /\ up = "serving" /\ ~Reading(a)
  /\ Admit(a) \/ Refuse(a)
  /\ UNCHANGED <<up, state, heap>>

-----------------------------------------------------------------------------
Connect(a) ==
  /\ up = "serving"
  /\ \E ip \in Ip : Open(a, ip)
  /\ UNCHANGED <<up, state, heap>>

\* The client ends the connection, in the middle of a request or between two;
\* no callback tells the program.
Hangup(a) ==
  /\ up = "serving"
  /\ Close(a)
  /\ IF Reading(a) THEN Forget(a) ELSE UNCHANGED heap
  /\ UNCHANGED <<up, state>>

\* api_stop: libmicrohttpd ends every connection.
Stop ==
  /\ up = "serving" /\ up' = "stopped"
  /\ peer' = [a \in Addr |-> Nobody]
  /\ request' = [a \in Addr |-> None]
  /\ dropped' = dropped + Cardinality({a \in Addr : Reading(a)})
  /\ UNCHANGED <<clock, entries, calls, admitted, state, live, begun>>

Time ==
  /\ Tick \/ \E d \in {-1, 1} : StepClock(d)
  /\ UNCHANGED <<up, state, heap>>

Next ==
  \/ Serve \/ Stop \/ Time
  \/ \E a \in Addr :
       \/ Connect(a) \/ Hangup(a)
       \/ FirstCall(a) \/ FirstCallFails(a)
       \/ \E n \in 1 .. 2 : Upload(a, n)
       \/ TooManyRequests(a) \/ Unauthorized(a)
       \/ HandleMode(a) \/ HandleType(a) \/ HandleOther(a)
       \/ Get(a)

Spec == Init /\ [][Next]_vars

-----------------------------------------------------------------------------
TypeOK ==
  /\ GateTypeOK
  /\ up \in {"starting", "serving", "stopped"}
  /\ mode \in Mode /\ session \in Nat /\ typer \in BOOLEAN
  /\ \A a \in Addr : Reading(a) =>
       /\ request[a].body \in Bodies /\ request[a].keyed \in BOOLEAN
       /\ request[a].sent \in 0 .. Len(request[a].body)
       /\ Len(request[a].got) < MaxPost
  /\ live \in Nat /\ begun \in 0 .. MaxBodies /\ dropped \in Nat

\* A body is freed when its request is dispatched, and only then: what is
\* allocated is what is being read and, for good, one struct for every request
\* that was refused, unauthorized or broken off.  No struct is shared by two
\* requests or lost otherwise.
BodiesAccounted == live = Cardinality({a \in Addr : Reading(a)}) + dropped

\* The mode and the time of the last session change only by a request that the
\* limiter let through, that shows the key and whose body has been read to its
\* end; and the mode becomes what the whole of that body says, not what the
\* buffer could hold of it.
StateFollowsRequests ==
  [][mode # mode' \/ session # session' =>
       /\ admitted # admitted'
       /\ \E a \in Addr :
            /\ LastCall(a) /\ request'[a] = None
            /\ request[a].keyed
            /\ mode # mode' => Says(request[a].body, mode')]_vars
=============================================================================
