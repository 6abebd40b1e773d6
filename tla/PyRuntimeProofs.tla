--------------------------- MODULE PyRuntimeProofs ---------------------------
(***************************************************************************)
(* For any number of requests, drops and workers: as long as disconnect()  *)
(* has not come in the middle of a connect(), the connected flag of the    *)
(* Python Bluetooth transport and the answers of POST /reconnect are true, *)
(* and every connect() starts from closed sockets, whatever failed before  *)
(* (ConnectedMeansOpen, ReplyIsTruthful, StartsClean).  Calls that overlap *)
(* break the three, but a later call that nothing crosses restores them    *)
(* (ReconnectHeals).                                                       *)
(*                                                                         *)
(* The flag says nothing of how it got up.  The invariant follows a call   *)
(* that nothing has crossed, and that is therefore alone, through its      *)
(* channels (Clear, Stage), and says of every socket, after any overlap,   *)
(* that one that is not closed is in its attribute, where the next         *)
(* disconnect() finds it, or in the connect() of a thread (Known).         *)
(*                                                                         *)
(* The second part is about the gate of its API: for every set of clients, *)
(* allowance, window and bound, the limiter keeps to its allowance in      *)
(* every window (RateBound) and never refuses a client that has not used   *)
(* it up (RefusalIsEarned).  RateBound speaks of requests the code has     *)
(* long forgotten, so it is not inductive.  What carries it is Remembered: *)
(* a request that can still share a window with the next one has not been  *)
(* pruned.                                                                 *)
(***************************************************************************)
EXTENDS PyRuntime, ApiGate, FiniteSetTheorems, TLAPS

Alive == {"new", "open", "dead"}

\* The channel is c's, and was connected.
Has(c, ch) == attr[ch] = c /\ sock[c][ch] \in {"open", "dead"}

\* No other call is at work.
Only(c) == \A d \in Call : pc[d] \in Busy => d = c

\* A socket that is not closed is in its attribute, or a thread is in its
\* connect().
Known ==
  \A d \in Call, ch \in Channel :
    sock[d][ch] \in Alive => attr[ch] = d \/ \E e \in Call : target[e] = <<d, ch>>

Waiting == \A c \in Call : target[c] # <<>> <=> pc[c] = "wait"

\* What a call at work has done so far.
Stage(c) ==
  /\ pc[c] \in Busy => ~connected
  /\ pc[c] = "prepare" => \A ch \in Channel : attr[ch] = None
  /\ pc[c] \in {"open", "accept"} => attr[chan[c]] = None
  /\ pc[c] \in {"read", "wait"} => attr[chan[c]] = c /\ sock[c][chan[c]] = "new"
  /\ pc[c] = "wait" => target[c] = <<c, chan[c]>>
  /\ pc[c] \in {"open", "read", "wait", "accept"} =>
       IF chan[c] = "ctrl" THEN attr["intr"] = None ELSE Has(c, "ctrl")
  /\ pc[c] = "flag" => Has(c, "ctrl") /\ Has(c, "intr")

Up == connected => \E c \in Call : Has(c, "ctrl") /\ Has(c, "intr")

\* A call that nothing has crossed is alone and has done its part.
Clear(c) == pc[c] \in Busy /\ c \notin crossed => Only(c) /\ Stage(c)

\* A call begins with the control channel.
Fresh == \A c \in Call : pc[c] \in {"idle", "prepare"} => chan[c] = "ctrl"

\* What is always so of the transport.
BtInv ==
  /\ BtTypeOK /\ Fresh /\ Waiting /\ Known
  /\ \A c \in Call : Clear(c)
  /\ ~overlapped => Up

IInv == TypeOK /\ BtInv

LEMMA NoneIsNoCall == None \notin Call /\ Main \in Call
BY BtAssumption DEF Call

LEMMA InitIInv == Init => IInv
<1> SUFFICES ASSUME Init PROVE IInv
  OBVIOUS
<1> USE NoneIsNoCall DEF Init, BtInit
<1>1. BtTypeOK
  <2>1. 0 \in 0 .. MaxDrops
    BY BtAssumption
  <2> QED  BY <2>1 DEF BtTypeOK, Busy, Channel
<1>2. TypeOK
  BY <1>1 DEF TypeOK
<1>3. Fresh /\ Waiting /\ Known /\ Up
  BY DEF Fresh, Waiting, Known, Alive, Up
<1>4. ASSUME NEW c \in Call PROVE Clear(c)
  BY DEF Clear, Only, Stage, Busy
<1> QED  BY <1>1, <1>2, <1>3, <1>4 DEF IInv, BtInv

-----------------------------------------------------------------------------
\* disconnect() while no call is at work leaves no socket that is not closed.
LEMMA DisconnectCloses ==
  ASSUME BtInv, Disconnect, AtWork = {}
  PROVE  \A d \in Call, ch \in Channel : sock'[d][ch] \notin Alive
<1>1. \A e \in Call : target[e] = <<>>
  BY DEF AtWork, BtInv, Waiting, Busy
<1>2. \A d \in Call, ch \in Channel : sock[d][ch] \in Alive => attr[ch] = d
  BY <1>1 DEF BtInv, Known
<1> QED  BY <1>2 DEF Disconnect, Closed, Alive

\* At any time it leaves those that a thread is in the connect() of.
LEMMA DisconnectKnown ==
  ASSUME BtInv, Disconnect, target' = target
  PROVE  Known'
<1> SUFFICES ASSUME NEW d \in Call, NEW ch \in Channel, sock'[d][ch] \in Alive
             PROVE  \E e \in Call : target'[e] = <<d, ch>>
  BY DEF Known
<1>1. attr[ch] # d /\ sock[d][ch] \in Alive
  BY DEF Disconnect, Closed, Alive
<1> QED  BY <1>1 DEF BtInv, Known

LEMMA DisconnectTypes ==
  ASSUME BtTypeOK, Disconnect
  PROVE  /\ connected' = FALSE
         /\ sock' \in [Call -> [Channel -> {"none", "new", "open", "dead", "closed"}]]
         /\ attr' \in [Channel -> Call \cup {None}]
         /\ \A ch \in Channel : attr'[ch] = None
BY DEF BtTypeOK, Disconnect, Closed

LEMMA ReconnectInv ==
  ASSUME BtInv, NEW c \in Requests, Reconnect(c)
  PROVE  BtInv'
<1> c \in Call
  BY DEF Call
<1>1. /\ pc[c] = "idle" /\ \A d \in Call : pc'[d] = IF d = c THEN "prepare" ELSE pc[d]
      /\ UNCHANGED <<listen, chan, target, drops>> /\ Disconnect
  BY DEF Reconnect, Goto, BtInv, BtTypeOK
<1>2. BtTypeOK'
  <2>1. crossed' \subseteq Call
    BY DEF Reconnect, BtInv, BtTypeOK, AtWork
  <2> QED  BY <1>1, <2>1, DisconnectTypes DEF BtInv, BtTypeOK, Reconnect, Goto, Busy
<1>3. Fresh' /\ Waiting' /\ Known'
  BY <1>1, DisconnectKnown DEF BtInv, Fresh, Waiting
<1>4. ASSUME NEW d \in Call, pc'[d] \in Busy, d \notin crossed'
      PROVE  d = c /\ AtWork = {}
  <2>1. d = c
    BY <1>1, <1>4 DEF Reconnect, AtWork
  <2> QED  BY <1>4, <2>1 DEF Reconnect
<1>5. ASSUME AtWork = {} PROVE Only(c)' /\ Stage(c)'
  <2>1. Only(c)'
    BY <1>1, <1>5 DEF Only, AtWork
  <2>2. /\ pc'[c] = "prepare" /\ ~connected'
        /\ \A ch \in Channel : attr'[ch] = None
    BY <1>1, DisconnectTypes DEF BtInv
  <2> QED  BY <2>1, <2>2 DEF Stage
<1>6. \A d \in Call : Clear(d)'
  BY <1>4, <1>5 DEF Clear
<1>7. Up'
  BY <1>1, DisconnectTypes DEF Up, BtInv
<1> QED  BY <1>2, <1>3, <1>6, <1>7 DEF BtInv

\* When a call at work goes on, the others are not looked at: either there are
\* none, or both are crossed.
LEMMA GoesOn ==
  ASSUME BtInv, NEW c \in Call, pc[c] \in Busy, UNCHANGED <<crossed, connected>>,
         \A d \in Call : d # c => pc'[d] = pc[d],
         c \notin crossed /\ pc'[c] \in Busy => Stage(c)'
  PROVE  (\A d \in Call : Clear(d)') /\ (~overlapped' => Up')
<1>1. ASSUME NEW d \in Call, d # c PROVE Clear(d)'
  BY <1>1 DEF BtInv, Clear, Only
<1>2. Clear(c)'
  BY DEF BtInv, Clear, Only
<1>3. ASSUME ~overlapped' PROVE ~connected
  BY <1>3 DEF overlapped, BtInv, Clear, Stage
<1> QED  BY <1>1, <1>2, <1>3 DEF Up

\* What is known of it before, if nothing has crossed it.
LEMMA ItsStage ==
  ASSUME BtInv, NEW c \in Call, pc[c] \in Busy, c \notin crossed
  PROVE  Stage(c) /\ Only(c) /\ ~connected /\ chan[c] \in Channel
BY DEF BtInv, BtTypeOK, Clear, Stage

-----------------------------------------------------------------------------
\* The steps of a call.

\* An exception outside of connect() keeps the sockets where they are.
LEMMA RaiseInv ==
  ASSUME BtInv, NEW c \in Call, pc[c] \in Busy, pc[c] # "wait", Raise(c), sock' = sock
  PROVE  BtInv'
<1>1. /\ \A d \in Call : pc'[d] = IF d = c THEN "failed" ELSE pc[d]
      /\ UNCHANGED <<crossed, chan, attr, connected, sock>>
  BY DEF Raise, mode, BtInv, BtTypeOK
<1>2. target' = target
  <2>1. target[c] = <<>>
    BY DEF BtInv, Waiting
  <2> QED  BY <2>1 DEF Raise, BtInv, BtTypeOK
<1>3. BtTypeOK'
  BY <1>2 DEF BtInv, BtTypeOK, Raise, mode, Busy
<1>4. Fresh' /\ Waiting' /\ Known'
  <2>1. Fresh' /\ Waiting'
    BY <1>1, <1>2 DEF BtInv, Fresh, Waiting, Busy
  <2>2. Known'
    BY <1>1, <1>2 DEF BtInv, Known
  <2> QED  BY <2>1, <2>2
<1>5. pc'[c] \notin Busy
  BY <1>1 DEF Busy
<1> QED  BY <1>1, <1>3, <1>4, <1>5, GoesOn DEF BtInv

LEMMA PrepareInv == ASSUME BtInv, NEW c \in Call, Prepare(c) PROVE BtInv'
<1>1. /\ pc[c] = "prepare" /\ pc[c] \in Busy
      /\ \A d \in Call : pc'[d] = IF d = c THEN IF listen THEN "accept" ELSE "open" ELSE pc[d]
      /\ UNCHANGED <<crossed, chan, target, attr, connected, sock>>
  BY DEF Prepare, Goto, mode, BtInv, BtTypeOK, Busy
<1>2. BtTypeOK'
  BY DEF BtInv, BtTypeOK, Prepare, Goto, mode, Busy
<1>3. Fresh' /\ Waiting' /\ Known' /\ chan[c] = "ctrl"
  BY <1>1 DEF BtInv, Fresh, Waiting, Known
<1>4. ASSUME c \notin crossed PROVE Stage(c)'
  <2>1. Stage(c) /\ ~connected
    BY <1>1, <1>4, ItsStage
  <2> QED  BY <1>1, <1>3, <2>1 DEF Stage, Channel
<1> QED  BY <1>1, <1>2, <1>3, <1>4, GoesOn DEF BtInv

\* An assignment to an attribute that is None makes one new socket.
LEMMA AssignEffect ==
  ASSUME BtTypeOK, NEW c \in Call, NEW status \in {"new", "open"},
         Assign(c, status), attr[chan[c]] = None
  PROVE  /\ \A d \in Call, ch \in Channel :
              sock'[d][ch] = IF d = c /\ ch = chan[c] THEN status ELSE sock[d][ch]
         /\ \A ch \in Channel : attr'[ch] = IF ch = chan[c] THEN c ELSE attr[ch]
<1>1. Replaced(chan[c]) = {}
  BY NoneIsNoCall DEF Replaced
<1> QED  BY <1>1 DEF Assign, BtTypeOK, Channel

LEMMA AssignTypes ==
  ASSUME BtTypeOK, NEW c \in Call, NEW status \in {"new", "open"}, Assign(c, status)
  PROVE  /\ sock' \in [Call -> [Channel -> {"none", "new", "open", "dead", "closed"}]]
         /\ attr' \in [Channel -> Call \cup {None}]
BY DEF Assign, BtTypeOK

\* The socket it replaces is closed, or a thread is in its connect().
LEMMA AssignKnown ==
  ASSUME BtInv, NEW c \in Call, NEW status \in {"new", "open"}, Assign(c, status), target' = target
  PROVE  Known'
<1> SUFFICES ASSUME NEW d \in Call, NEW ch \in Channel, sock'[d][ch] \in Alive
             PROVE  attr'[ch] = d \/ \E e \in Call : target[e] = <<d, ch>>
  BY DEF Known
<1>1. \A h \in Channel : attr'[h] = IF h = chan[c] THEN c ELSE attr[h]
  BY DEF Assign, BtInv, BtTypeOK
<1>2. CASE ch # chan[c]
  <2>1. sock'[d][ch] = sock[d][ch]
    BY <1>2 DEF Assign, BtInv, BtTypeOK
  <2> QED  BY <1>1, <1>2, <2>1 DEF BtInv, Known
<1>3. CASE ch = chan[c] /\ d # c
  <2>1. d \notin Replaced(ch) /\ sock'[d][ch] = sock[d][ch]
    BY <1>3 DEF Assign, BtInv, BtTypeOK, Alive
  <2> QED  BY <2>1 DEF BtInv, Known, Replaced
<1> QED  BY <1>1, <1>2, <1>3

LEMMA OpenInv == ASSUME BtInv, NEW c \in Call, Open(c) PROVE BtInv'
<1>1. /\ pc[c] = "open" /\ pc[c] \in Busy /\ Assign(c, "new")
      /\ \A d \in Call : pc'[d] = IF d = c THEN "read" ELSE pc[d]
      /\ UNCHANGED <<crossed, chan, target, connected>>
  BY DEF Open, Goto, mode, BtInv, BtTypeOK, Busy
<1>2. BtTypeOK'
  BY <1>1, AssignTypes DEF BtInv, BtTypeOK, Open, Goto, mode, Busy
<1>3. Fresh' /\ Waiting' /\ Known'
  BY <1>1, AssignKnown DEF BtInv, Fresh, Waiting
<1>4. ASSUME c \notin crossed PROVE Stage(c)'
  <2>1. Stage(c) /\ ~connected /\ chan[c] \in Channel
    BY <1>1, <1>4, ItsStage
  <2>2. attr[chan[c]] = None
    BY <1>1, <2>1 DEF Stage
  <2>3. /\ \A d \in Call, ch \in Channel :
             sock'[d][ch] = IF d = c /\ ch = chan[c] THEN "new" ELSE sock[d][ch]
        /\ \A ch \in Channel : attr'[ch] = IF ch = chan[c] THEN c ELSE attr[ch]
    BY <1>1, <2>2, AssignEffect DEF BtInv
  <2> QED  BY <1>1, <2>1, <2>2, <2>3 DEF Stage, Has, Channel
<1> QED  BY <1>1, <1>2, <1>3, <1>4, GoesOn DEF BtInv

LEMMA ReadInv == ASSUME BtInv, NEW c \in Call, Read(c) PROVE BtInv'
<1>1. /\ pc[c] = "read" /\ pc[c] \in Busy /\ attr[chan[c]] \in Call /\ chan[c] \in Channel
      /\ \A d \in Call : pc'[d] = IF d = c THEN "wait" ELSE pc[d]
      /\ \A d \in Call : target'[d] = IF d = c THEN <<attr[chan[c]], chan[c]>> ELSE target[d]
      /\ UNCHANGED <<crossed, chan, attr, sock, connected>>
  BY DEF Read, Goto, mode, BtInv, BtTypeOK, Busy
<1>2. BtTypeOK'
  <2>1. target' \in [Call -> {<<>>} \cup (Call \X Channel)]
    BY <1>1 DEF Read, BtInv, BtTypeOK
  <2> QED  BY <2>1 DEF BtInv, BtTypeOK, Read, Goto, mode, Busy
<1>3. Fresh' /\ Waiting'
  BY <1>1 DEF BtInv, Fresh, Waiting
<1>4. Known'
  <2>1. target[c] = <<>>
    BY <1>1 DEF BtInv, Waiting
  <2> SUFFICES ASSUME NEW d \in Call, NEW ch \in Channel, sock[d][ch] \in Alive, attr[ch] # d
               PROVE  \E e \in Call : target'[e] = <<d, ch>>
    BY <1>1 DEF Known
  <2>2. PICK e \in Call : target[e] = <<d, ch>>
    BY DEF BtInv, Known
  <2>3. e # c
    BY <2>1, <2>2
  <2> QED  BY <1>1, <2>2, <2>3
<1>5. ASSUME c \notin crossed PROVE Stage(c)'
  <2>1. Stage(c) /\ ~connected
    BY <1>1, <1>5, ItsStage
  <2> QED  BY <1>1, <2>1 DEF Stage, Has
<1> QED  BY <1>1, <1>2, <1>3, <1>4, <1>5, GoesOn DEF BtInv

\* A call goes on to the next channel, or has both.
LEMMA OnwardEffect ==
  ASSUME BtTypeOK, NEW c \in Call, Onward(c)
  PROVE  /\ \A d \in Call : d # c => pc'[d] = pc[d] /\ chan'[d] = chan[d]
         /\ chan'[c] = "intr"
         /\ chan[c] = "intr" => pc'[c] = "flag"
         /\ chan[c] = "ctrl" => pc'[c] \in {"open", "accept"}
         /\ pc' \in [Call -> Busy \cup {"idle", "done", "failed"}]
         /\ chan' \in [Call -> Channel]
BY DEF Onward, BtTypeOK, Busy, Channel

LEMMA ConnectTypes ==
  ASSUME BtTypeOK, NEW c \in Call, Connect(c)
  PROVE  BtTypeOK'
<1>1. sock' \in [Call -> [Channel -> {"none", "new", "open", "dead", "closed"}]]
  BY DEF Connect, BtTypeOK
<1>2. target' \in [Call -> {<<>>} \cup (Call \X Channel)]
  BY DEF Connect, BtTypeOK
<1>3. /\ pc' \in [Call -> Busy \cup {"idle", "done", "failed"}]
      /\ chan' \in [Call -> Channel]
  BY OnwardEffect DEF Connect
<1> QED  BY <1>1, <1>2, <1>3 DEF Connect, BtTypeOK, mode

\* Once the channel a call works on is open, the next one, or the flag.
LEMMA ChannelOpened ==
  ASSUME BtTypeOK, NEW c \in Call, pc[c] \in {"wait", "accept"}, Stage(c), ~connected,
         Onward(c), connected' = connected,
         \A ch \in Channel : sock'[c][ch] = IF ch = chan[c] THEN "open" ELSE sock[c][ch],
         \A ch \in Channel : attr'[ch] = IF ch = chan[c] THEN c ELSE attr[ch]
  PROVE  Stage(c)'
<1>1. chan[c] \in Channel
  BY DEF BtTypeOK
<1>2. /\ chan'[c] = "intr"
      /\ chan[c] = "intr" => pc'[c] = "flag"
      /\ chan[c] = "ctrl" => pc'[c] \in {"open", "accept"}
  BY OnwardEffect
<1>3. CASE chan[c] = "ctrl"
  <2>1. attr["intr"] = None /\ attr'["intr"] = None
    BY <1>3 DEF Stage, Channel
  <2>2. attr'["ctrl"] = c /\ sock'[c]["ctrl"] = "open"
    BY <1>3 DEF Channel
  <2> QED  BY <1>2, <1>3, <2>1, <2>2 DEF Stage, Has, Busy
<1>4. CASE chan[c] = "intr"
  <2>1. Has(c, "ctrl")
    BY <1>4 DEF Stage
  <2>2. attr'["ctrl"] = c /\ sock'[c]["ctrl"] \in {"open", "dead"}
    BY <1>4, <2>1 DEF Has, Channel
  <2>3. attr'["intr"] = c /\ sock'[c]["intr"] = "open"
    BY <1>4 DEF Channel
  <2> QED  BY <1>2, <1>4, <2>2, <2>3 DEF Stage, Has, Busy
<1> QED  BY <1>1, <1>3, <1>4 DEF Channel

\* When a thread comes out of connect(), the socket it was in is open, in its
\* attribute, in another thread's connect(), or closed.
LEMMA ConnectKnown ==
  ASSUME BtInv, NEW c \in Call, pc[c] = "wait", attr' = attr,
         target' = [target EXCEPT ![c] = <<>>],
         NEW d \in Call, NEW ch \in Channel, target[c] = <<d, ch>>,
         \A b \in Call, h \in Channel : b # d \/ h # ch => sock'[b][h] = sock[b][h],
         sock'[d][ch] \in Alive => attr[ch] = d \/ \E e \in Call \ {c} : target[e] = <<d, ch>>
  PROVE  Known'
<1> SUFFICES ASSUME NEW b \in Call, NEW h \in Channel, sock'[b][h] \in Alive
             PROVE  attr[h] = b \/ \E e \in Call : target'[e] = <<b, h>>
  BY DEF Known
<1>1. \A e \in Call \ {c} : target'[e] = target[e]
  BY DEF BtInv, BtTypeOK
<1>2. CASE b = d /\ h = ch
  BY <1>1, <1>2
<1>3. CASE ~(b = d /\ h = ch)
  <2>1. sock[b][h] \in Alive /\ target[c] # <<b, h>>
    BY <1>3
  <2>2. CASE attr[h] # b
    <3>1. PICK e \in Call : target[e] = <<b, h>>
      BY <2>1, <2>2 DEF BtInv, Known
    <3> QED  BY <1>1, <2>1, <3>1
  <2> QED  BY <2>2
<1> QED  BY <1>2, <1>3

LEMMA ConnectInv == ASSUME BtInv, NEW c \in Call, Connect(c) PROVE BtInv'
<1>1. /\ pc[c] = "wait" /\ pc[c] \in Busy /\ Onward(c)
      /\ target' = [target EXCEPT ![c] = <<>>]
      /\ UNCHANGED <<crossed, attr, connected>>
  BY DEF Connect, mode, Busy
<1>2. BtTypeOK'
  BY ConnectTypes DEF BtInv
<1>3. Fresh' /\ Waiting'
  <2>1. \A d \in Call : target'[d] = IF d = c THEN <<>> ELSE target[d]
    BY <1>1 DEF BtInv, BtTypeOK
  <2>2. pc'[c] \in {"flag", "open", "accept"}
    BY <1>1, OnwardEffect DEF BtInv, BtTypeOK, Channel
  <2> QED  BY <1>1, <2>1, <2>2, OnwardEffect DEF BtInv, Fresh, Waiting
<1>4. Known'
  <2>1. PICK d \in Call, ch \in Channel : target[c] = <<d, ch>>
    BY <1>1 DEF BtInv, BtTypeOK, Waiting
  <2>2. sock' = [sock EXCEPT ![d][ch] = IF @ = "new" /\ attr[ch] = d THEN "open" ELSE "closed"]
    BY <2>1 DEF Connect
  <2>3. \A b \in Call, h \in Channel : b # d \/ h # ch => sock'[b][h] = sock[b][h]
    BY <2>2 DEF BtInv, BtTypeOK
  <2>4. sock'[d][ch] \in Alive => attr[ch] = d
    BY <2>2 DEF BtInv, BtTypeOK, Alive
  <2> QED  BY <1>1, <2>1, <2>3, <2>4, ConnectKnown
<1>5. ASSUME c \notin crossed PROVE Stage(c)'
  <2>1. Stage(c) /\ ~connected /\ chan[c] \in Channel
    BY <1>1, <1>5, ItsStage
  <2>2. /\ attr[chan[c]] = c /\ sock[c][chan[c]] = "new"
        /\ target[c] = <<c, chan[c]>>
    BY <1>1, <2>1 DEF Stage
  <2>3. \A ch \in Channel : sock'[c][ch] = IF ch = chan[c] THEN "open" ELSE sock[c][ch]
    BY <2>1, <2>2 DEF Connect, BtInv, BtTypeOK
  <2>4. \A ch \in Channel : attr'[ch] = IF ch = chan[c] THEN c ELSE attr[ch]
    BY <1>1, <2>2
  <2> QED  BY <1>1, <2>1, <2>3, <2>4, ChannelOpened DEF BtInv
<1>6. \A d \in Call : d # c => pc'[d] = pc[d]
  BY <1>1, OnwardEffect DEF BtInv
<1> QED  BY <1>1, <1>2, <1>3, <1>4, <1>5, <1>6, GoesOn DEF BtInv

LEMMA ConnectFailsInv == ASSUME BtInv, NEW c \in Call, ConnectFails(c) PROVE BtInv'
<1>1. /\ pc[c] = "wait" /\ pc[c] \in Busy
      /\ target' = [target EXCEPT ![c] = <<>>]
      /\ \A d \in Call : pc'[d] = IF d = c THEN "failed" ELSE pc[d]
      /\ UNCHANGED <<listen, crossed, chan, attr, connected, drops>>
  BY DEF ConnectFails, Raise, mode, BtInv, BtTypeOK, Busy
<1>2. PICK d \in Call, ch \in Channel : target[c] = <<d, ch>>
  BY <1>1 DEF BtInv, BtTypeOK, Waiting
<1>3. sock' = [sock EXCEPT ![d][ch] =
                 IF attr[ch] = d \/ \E e \in Call \ {c} : target[e] = <<d, ch>>
                 THEN sock[d][ch] ELSE "closed"]
  BY <1>2 DEF ConnectFails
<1>4. BtTypeOK'
  <2>1. target' \in [Call -> {<<>>} \cup (Call \X Channel)]
    BY <1>1 DEF BtInv, BtTypeOK
  <2>2. sock' \in [Call -> [Channel -> {"none", "new", "open", "dead", "closed"}]]
    BY <1>3 DEF BtInv, BtTypeOK
  <2> QED  BY <1>1, <2>1, <2>2 DEF BtInv, BtTypeOK, ConnectFails, Raise, Busy
<1>5. Fresh' /\ Waiting'
  <2>1. \A b \in Call : target'[b] = IF b = c THEN <<>> ELSE target[b]
    BY <1>1 DEF BtInv, BtTypeOK
  <2> QED  BY <1>1, <2>1 DEF BtInv, Fresh, Waiting
<1>6. Known'
  <2>1. \A b \in Call, h \in Channel : b # d \/ h # ch => sock'[b][h] = sock[b][h]
    BY <1>3 DEF BtInv, BtTypeOK
  <2>2. sock'[d][ch] \in Alive => attr[ch] = d \/ \E e \in Call \ {c} : target[e] = <<d, ch>>
    BY <1>3 DEF BtInv, BtTypeOK, Alive
  <2> QED  BY <1>1, <1>2, <2>1, <2>2, ConnectKnown
<1>7. pc'[c] \notin Busy
  BY <1>1 DEF Busy
<1> QED  BY <1>1, <1>4, <1>5, <1>6, <1>7, GoesOn DEF BtInv

LEMMA AcceptInv == ASSUME BtInv, NEW c \in Call, Accept(c) PROVE BtInv'
<1>1. /\ pc[c] = "accept" /\ pc[c] \in Busy /\ Assign(c, "open") /\ Onward(c)
      /\ UNCHANGED <<listen, crossed, target, connected, drops>>
  BY DEF Accept, mode, Busy
<1>2. BtTypeOK'
  BY <1>1, AssignTypes, OnwardEffect DEF BtInv, BtTypeOK
<1>3. pc'[c] \in {"flag", "open", "accept"} /\ \A d \in Call : d # c => pc'[d] = pc[d]
  BY <1>1, OnwardEffect DEF BtInv, BtTypeOK, Channel
<1>4. Fresh' /\ Waiting' /\ Known'
  BY <1>1, <1>3, OnwardEffect, AssignKnown DEF BtInv, Fresh, Waiting
<1>5. ASSUME c \notin crossed PROVE Stage(c)'
  <2>1. Stage(c) /\ ~connected
    BY <1>1, <1>5, ItsStage
  <2>2. attr[chan[c]] = None
    BY <1>1, <2>1 DEF Stage
  <2>3. /\ \A ch \in Channel : sock'[c][ch] = IF ch = chan[c] THEN "open" ELSE sock[c][ch]
        /\ \A ch \in Channel : attr'[ch] = IF ch = chan[c] THEN c ELSE attr[ch]
    BY <1>1, <2>2, AssignEffect DEF BtInv
  <2> QED  BY <1>1, <2>1, <2>3, ChannelOpened DEF BtInv
<1> QED  BY <1>1, <1>2, <1>3, <1>4, <1>5, GoesOn DEF BtInv

LEMMA SetFlagInv == ASSUME BtInv, NEW c \in Call, SetFlag(c) PROVE BtInv'
<1>1. /\ pc[c] = "flag" /\ pc[c] \in Busy /\ connected' = TRUE
      /\ \A d \in Call : pc'[d] = IF d = c THEN "done" ELSE pc[d]
      /\ UNCHANGED <<crossed, chan, target, attr, sock>>
  BY DEF SetFlag, Goto, mode, BtInv, BtTypeOK, Busy
<1>2. BtTypeOK'
  BY DEF BtInv, BtTypeOK, SetFlag, Goto, mode, Busy
<1>3. Fresh' /\ Waiting' /\ Known'
  BY <1>1 DEF BtInv, Fresh, Waiting, Known
<1>4. ASSUME NEW d \in Call PROVE Clear(d)'
  <2>1. pc'[d] \in Busy => d # c
    BY <1>1 DEF Busy
  <2> QED  BY <1>1, <2>1 DEF BtInv, Clear, Only
<1>5. ASSUME ~overlapped' PROVE Up'
  <2>1. Stage(c)
    BY <1>1, <1>5, ItsStage DEF overlapped
  <2>2. Has(c, "ctrl")' /\ Has(c, "intr")'
    BY <1>1, <2>1 DEF Stage, Has
  <2> QED  BY <2>2 DEF Up
<1> QED  BY <1>2, <1>3, <1>4, <1>5 DEF BtInv

LEMMA PeerDropsInv == ASSUME BtInv, PeerDrops PROVE BtInv'
<1>1. /\ UNCHANGED <<mode, pc, chan, target, attr, connected>>
      /\ \A d \in Call, ch \in Channel :
           sock'[d][ch] = IF sock[d][ch] = "open" THEN "dead" ELSE sock[d][ch]
  BY DEF PeerDrops
<1>2. BtTypeOK'
  <2>1. drops' \in 0 .. MaxDrops
    BY BtAssumption DEF PeerDrops, BtInv, BtTypeOK
  <2>2. sock' \in [Call -> [Channel -> {"none", "new", "open", "dead", "closed"}]]
    BY DEF PeerDrops, BtInv, BtTypeOK
  <2> QED  BY <1>1, <2>1, <2>2 DEF BtInv, BtTypeOK, mode
<1>3. Fresh' /\ Waiting' /\ Known'
  BY <1>1 DEF BtInv, Fresh, Waiting, Known, Alive
<1>4. \A d \in Call, ch \in Channel : Has(d, ch) => Has(d, ch)'
  BY <1>1 DEF Has
<1>5. ~overlapped' => Up'
  BY <1>1, <1>4 DEF BtInv, Up, Channel, overlapped, mode
<1>6. ASSUME NEW d \in Call PROVE Clear(d)'
  <2>1. Stage(d) => Stage(d)'
    BY <1>1, <1>4 DEF Stage, Channel, BtInv, BtTypeOK
  <2> QED  BY <1>1, <2>1 DEF BtInv, Clear, Only, mode
<1> QED  BY <1>2, <1>3, <1>5, <1>6 DEF BtInv

-----------------------------------------------------------------------------
\* The steps of the daemon.
LEMMA ThreadInv == ASSUME BtInv, NEW c \in Call, ThreadStep(c) PROVE BtInv'
<1>1. CASE PrepareFails(c)
  BY <1>1, RaiseInv DEF PrepareFails, Busy
<1>2. CASE ReadNone(c)
  BY <1>2, RaiseInv DEF ReadNone, Busy
<1> QED
  BY <1>1, <1>2, PrepareInv, OpenInv, ReadInv, ConnectInv, ConnectFailsInv, SetFlagInv DEF ThreadStep

LEMMA BtKept == ASSUME BtInv, UNCHANGED bt PROVE BtInv'
<1> USE DEF bt, mode
<1>1. BtTypeOK' /\ Fresh' /\ Waiting' /\ Known'
  BY DEF BtInv, BtTypeOK, Fresh, Waiting, Known
<1>2. ASSUME NEW c \in Call PROVE Clear(c)'
  BY DEF BtInv, Clear, Only, Stage, Has
<1>3. ~overlapped' => Up'
  BY DEF BtInv, Up, Has, overlapped
<1> QED  BY <1>1, <1>2, <1>3 DEF BtInv

LEMMA LeaveInv == ASSUME BtInv, Leave PROVE BtInv'
<1>1. /\ UNCHANGED <<listen, pc, chan, target, drops>> /\ Disconnect
      /\ crossed' = crossed \cup AtWork
  BY DEF Leave
<1>2. BtTypeOK'
  BY <1>1, DisconnectTypes DEF BtInv, BtTypeOK, AtWork
<1>3. Fresh' /\ Waiting' /\ Known'
  BY <1>1, DisconnectKnown DEF BtInv, Fresh, Waiting
<1>4. \A d \in Call : Clear(d)'
  BY <1>1 DEF Clear, AtWork
<1>5. Up'
  BY <1>1, DisconnectTypes DEF Up, BtInv
<1> QED  BY <1>2, <1>3, <1>4, <1>5 DEF BtInv

LEMMA BtStepInv == ASSUME BtInv, [Next]_vars PROVE BtInv'
<1>1. CASE Start \/ StartRaises \/ StartFails \/ Shutdown \/ Exit \/ Signal
  BY <1>1, BtKept DEF Start, StartRaises, StartFails, Shutdown, Exit, Signal
<1>2. CASE \E w \in Workers : PatchConfig(w) \/ WorkerDies(w)
  BY <1>2, BtKept DEF PatchConfig, WorkerDies
<1>3. CASE \E t \in Tasks : TaskEnds(t)
  BY <1>3, BtKept DEF TaskEnds
<1>4. CASE ApiReconnect
  BY <1>4, ReconnectInv DEF ApiReconnect
<1>5. CASE Transport
  BY <1>5, ThreadInv, AcceptInv, PeerDropsInv DEF Transport
<1>6. CASE \E c \in Call : Abandon(c)
  BY <1>6, RaiseInv DEF Abandon, Busy
<1>7. CASE UNCHANGED vars
  BY <1>7, BtKept DEF vars
<1> QED
  BY <1>1, <1>2, <1>3, <1>4, <1>5, <1>6, <1>7, LeaveInv DEF Next, MainStep

\* The variables of main.
LEMMA RunStepInv ==
  ASSUME TypeOK, [Next]_vars
  PROVE  /\ main' \in {"starting", "running", "gathering", "leaving", "exited", "failed"}
         /\ signalled' \in BOOLEAN
         /\ task' \in [Tasks -> {"off", "running", "died", "ended"}]
         /\ spoiled' \subseteq Workers
<1> USE DEF TypeOK
<1>1. CASE Signal
  BY <1>1 DEF Signal, bt
<1>2. CASE Start
  BY <1>2 DEF Start, GotoMain, bt
<1>3. CASE StartRaises
  BY <1>3 DEF StartRaises, GotoMain, bt
<1>4. CASE StartFails \/ Shutdown
  BY <1>4 DEF StartFails, Shutdown, GotoMain, bt
<1>5. CASE Leave
  BY <1>5 DEF Leave, GotoMain
<1>6. CASE Exit
  BY <1>6 DEF Exit, GotoMain, bt
<1>7. CASE \E w \in Workers : PatchConfig(w) \/ WorkerDies(w)
  BY <1>7 DEF PatchConfig, WorkerDies, bt
<1>8. CASE \E t \in Tasks : TaskEnds(t)
  BY <1>8 DEF TaskEnds, bt
<1>9. CASE ApiReconnect
  BY <1>9 DEF ApiReconnect, run
<1>10. CASE Transport
  BY <1>10 DEF Transport, run
<1>11. CASE \E c \in Call : Abandon(c)
  BY <1>11 DEF Abandon, run
<1>12. CASE UNCHANGED vars
  BY <1>12 DEF vars, run, bt
<1> QED
  BY <1>1, <1>2, <1>3, <1>4, <1>5, <1>6, <1>7, <1>8, <1>9, <1>10, <1>11, <1>12
  DEF Next, MainStep

LEMMA Invariance == Spec => []IInv
<1>1. IInv /\ [Next]_vars => IInv'
  <2> SUFFICES ASSUME IInv, [Next]_vars PROVE IInv'
    OBVIOUS
  <2>1. BtInv'
    BY BtStepInv DEF IInv, BtInv, TypeOK
  <2> QED  BY <2>1, RunStepInv DEF IInv, BtInv, TypeOK
<1> QED  BY <1>1, InitIInv, PTL DEF Spec

\* Type correctness of the Python daemon.
THEOREM TypeCorrect == Spec => []TypeOK
<1>1. IInv => TypeOK
  BY DEF IInv
<1> QED  BY <1>1, Invariance, PTL

\* hid_transport.py:30: the flag is up only over two channels that were opened
\* and not closed since, for any number of reconnects that do not overlap.
THEOREM ConnectedMeansOpenHolds == Spec => []ConnectedMeansOpen
<1>1. IInv => ConnectedMeansOpen
  <2> SUFFICES ASSUME IInv, ~overlapped, connected, NEW ch \in Channel
               PROVE  ChannelIs(ch, {"open", "dead"})
    BY DEF ConnectedMeansOpen
  <2>1. PICK c \in Call : Has(c, "ctrl") /\ Has(c, "intr")
    BY DEF IInv, BtInv, Up
  <2> QED  BY <2>1, NoneIsNoCall DEF Has, ChannelIs, Channel
<1> QED  BY <1>1, Invariance, PTL

\* bt_hid.py:313: a connect() that failed half way leaves nothing open for the
\* next one.
THEOREM StartsCleanHolds == Spec => []StartsClean
<1>1. IInv => StartsClean
  <2> SUFFICES ASSUME IInv, ~overlapped, NEW c \in Call, pc[c] = "prepare",
                      NEW d \in Call, NEW ch \in Channel
               PROVE  sock[d][ch] \notin Alive
    BY DEF StartsClean, Alive
  <2>1. pc[c] \in Busy /\ c \notin crossed
    BY DEF overlapped, Busy
  <2>2. attr[ch] = None /\ Only(c)
    BY <2>1, ItsStage DEF IInv, Stage
  <2>3. \A e \in Call : target[e] = <<>>
    BY <2>2 DEF IInv, BtInv, Waiting, Only, Busy
  <2> QED  BY <2>2, <2>3, NoneIsNoCall DEF IInv, BtInv, Known
<1> QED  BY <1>1, Invariance, PTL

-----------------------------------------------------------------------------
\* A call that ends by an exception was at work, and nothing else happened.
LEMMA FailureEffect ==
  ASSUME TypeOK, [Next]_vars, NEW c \in Call, pc[c] # "failed", pc'[c] = "failed"
  PROVE  /\ pc[c] \in Busy /\ UNCHANGED <<connected, crossed, attr>>
         /\ \A e \in Call : e # c => pc'[e] = pc[e]
<1> USE DEF TypeOK, BtTypeOK
<1>1. CASE Start \/ StartRaises \/ StartFails \/ Shutdown \/ Leave \/ Exit \/ Signal
  BY <1>1 DEF Start, StartRaises, StartFails, Shutdown, Leave, Exit, Signal, bt
<1>2. CASE \E w \in Workers : PatchConfig(w) \/ WorkerDies(w)
  BY <1>2 DEF PatchConfig, WorkerDies, bt
<1>3. CASE \E t \in Tasks : TaskEnds(t)
  BY <1>3 DEF TaskEnds, bt
<1>4. CASE ApiReconnect
  BY <1>4 DEF ApiReconnect, Reconnect, Goto
<1>5. ASSUME NEW d \in Call, ThreadStep(d) \/ Accept(d) \/ Abandon(d)
      PROVE  /\ pc[c] \in Busy /\ UNCHANGED <<connected, crossed, attr>>
             /\ \A e \in Call : e # c => pc'[e] = pc[e]
  <2>1. CASE PrepareFails(d) \/ ReadNone(d) \/ ConnectFails(d) \/ Abandon(d)
    BY <2>1 DEF PrepareFails, ReadNone, ConnectFails, Abandon, Raise, Busy, mode
  <2>2. CASE Prepare(d) \/ Open(d) \/ Read(d) \/ SetFlag(d)
    BY <2>2 DEF Prepare, Open, Read, SetFlag, Goto
  <2>3. CASE Connect(d) \/ Accept(d)
    BY <2>3 DEF Connect, Accept, Onward
  <2> QED  BY <1>5, <2>1, <2>2, <2>3 DEF ThreadStep
<1>6. CASE Transport
  BY <1>5, <1>6 DEF Transport, PeerDrops
<1>7. CASE UNCHANGED vars
  BY <1>7 DEF vars, bt
<1> QED
  BY <1>1, <1>2, <1>3, <1>4, <1>5, <1>6, <1>7 DEF Next, MainStep

\* A call is made once.
LEMMA NeverIdleAgain ==
  ASSUME TypeOK, [Next]_vars, NEW c \in Call, pc[c] # "idle"
  PROVE  pc'[c] # "idle"
<1> USE DEF TypeOK, BtTypeOK
<1>1. CASE Start \/ StartRaises \/ StartFails \/ Shutdown \/ Leave \/ Exit \/ Signal
  BY <1>1 DEF Start, StartRaises, StartFails, Shutdown, Leave, Exit, Signal, bt
<1>2. CASE \E w \in Workers : PatchConfig(w) \/ WorkerDies(w)
  BY <1>2 DEF PatchConfig, WorkerDies, bt
<1>3. CASE \E t \in Tasks : TaskEnds(t)
  BY <1>3 DEF TaskEnds, bt
<1>4. CASE ApiReconnect
  BY <1>4 DEF ApiReconnect, Reconnect, Goto
<1>5. ASSUME NEW d \in Call, ThreadStep(d) \/ Accept(d) \/ Abandon(d)
      PROVE  pc'[c] # "idle"
  <2>1. CASE PrepareFails(d) \/ ReadNone(d) \/ ConnectFails(d) \/ Abandon(d)
    BY <2>1 DEF PrepareFails, ReadNone, ConnectFails, Abandon, Raise
  <2>2. CASE Prepare(d) \/ Open(d) \/ Read(d) \/ SetFlag(d)
    BY <2>2 DEF Prepare, Open, Read, SetFlag, Goto
  <2>3. CASE Connect(d) \/ Accept(d)
    BY <2>3 DEF Connect, Accept, Onward
  <2> QED  BY <1>5, <2>1, <2>2, <2>3 DEF ThreadStep
<1>6. CASE Transport
  BY <1>5, <1>6 DEF Transport, PeerDrops
<1>7. CASE UNCHANGED vars
  BY <1>7 DEF vars, bt
<1> QED
  BY <1>1, <1>2, <1>3, <1>4, <1>5, <1>6, <1>7 DEF Next, MainStep

\* A call that ends well has just set the flag.
LEMMA SuccessEffect ==
  ASSUME TypeOK, [Next]_vars, NEW c \in Call, pc[c] # "done", pc'[c] = "done"
  PROVE  SetFlag(c)
<1> USE DEF TypeOK, BtTypeOK
<1>1. CASE Start \/ StartRaises \/ StartFails \/ Shutdown \/ Leave \/ Exit \/ Signal
  BY <1>1 DEF Start, StartRaises, StartFails, Shutdown, Leave, Exit, Signal, bt
<1>2. CASE \E w \in Workers : PatchConfig(w) \/ WorkerDies(w)
  BY <1>2 DEF PatchConfig, WorkerDies, bt
<1>3. CASE \E t \in Tasks : TaskEnds(t)
  BY <1>3 DEF TaskEnds, bt
<1>4. CASE ApiReconnect
  BY <1>4 DEF ApiReconnect, Reconnect, Goto
<1>5. ASSUME NEW d \in Call, ThreadStep(d) \/ Accept(d) \/ Abandon(d)
      PROVE  SetFlag(c)
  <2>1. CASE PrepareFails(d) \/ ReadNone(d) \/ ConnectFails(d) \/ Abandon(d)
    BY <2>1 DEF PrepareFails, ReadNone, ConnectFails, Abandon, Raise
  <2>2. CASE Prepare(d) \/ Open(d) \/ Read(d)
    BY <2>2 DEF Prepare, Open, Read, Goto
  <2>3. CASE Connect(d) \/ Accept(d)
    BY <2>3 DEF Connect, Accept, Onward
  <2>4. CASE SetFlag(d)
    <3>1. d = c
      BY <2>4 DEF SetFlag, Goto
    <3> QED  BY <2>4, <3>1
  <2> QED  BY <1>5, <2>1, <2>2, <2>3, <2>4 DEF ThreadStep
<1>6. CASE Transport
  BY <1>5, <1>6 DEF Transport, PeerDrops
<1>7. CASE UNCHANGED vars
  BY <1>7 DEF vars, bt
<1> QED
  BY <1>1, <1>2, <1>3, <1>4, <1>5, <1>6, <1>7 DEF Next, MainStep

\* A call that ends and that nothing has crossed says what is so, and leaves no
\* socket of another.
LEMMA EndsWell ==
  ASSUME IInv, [Next]_vars, NEW c \in Call, pc[c] \in Busy, pc'[c] \notin Busy, c \notin crossed'
  PROVE  /\ pc'[c] = "done" => /\ connected'
                               /\ \A ch \in Channel : attr'[ch] = c /\ sock'[c][ch] \in {"open", "dead"}
         /\ pc'[c] # "done" => ~connected'
         /\ \A d \in Call \ {c}, ch \in Channel : sock'[d][ch] \in {"none", "closed"}
<1>1. BtInv /\ BtInv' /\ TypeOK
  BY BtStepInv DEF IInv
<1>2. pc'[c] \in {"idle", "done", "failed"}
  BY <1>1 DEF BtInv, BtTypeOK
<1>3. pc[c] # "idle" /\ pc[c] # "done" /\ pc[c] # "failed"
  BY DEF Busy
<1>4. CASE pc'[c] = "done"
  <2>1. SetFlag(c)
    BY <1>1, <1>3, <1>4, SuccessEffect
  <2>2. pc[c] = "flag" /\ c \notin crossed /\ UNCHANGED <<attr, sock, target>> /\ connected'
    BY <2>1 DEF SetFlag, Goto, mode
  <2>3. Stage(c) /\ Only(c)
    BY <1>1, <2>2, ItsStage
  <2>4. \A e \in Call : target[e] = <<>>
    BY <1>1, <2>2, <2>3 DEF BtInv, Waiting, Only, Busy
  <2>5. \A ch \in Channel : attr[ch] = c /\ sock[c][ch] \in {"open", "dead"}
    BY <2>2, <2>3 DEF Stage, Has, Channel
  <2>6. ASSUME NEW d \in Call \ {c}, NEW ch \in Channel PROVE sock[d][ch] \notin Alive
    BY <1>1, <2>4, <2>5, <2>6 DEF BtInv, Known
  <2> QED  BY <1>1, <1>4, <2>2, <2>5, <2>6 DEF BtInv, BtTypeOK, Alive
<1>5. CASE pc'[c] = "failed"
  <2>1. connected' = connected /\ crossed' = crossed /\ attr' = attr
    BY <1>1, <1>3, <1>5, FailureEffect
  <2>2. Stage(c) /\ Only(c) /\ ~connected /\ chan[c] \in Channel
    BY <1>1, <2>1, ItsStage
  <2>3. \A ch \in Channel : attr[ch] \in {None, c}
    <3>1. pc[c] \in {"prepare", "open", "accept", "read", "wait", "flag"}
      BY DEF Busy
    <3> QED  BY <2>2, <3>1 DEF Stage, Has, Channel
  <2>4. \A e \in Call : target'[e] = <<>>
    <3>1. \A e \in Call : pc'[e] # "wait"
      <4>1. \A e \in Call : e # c => pc'[e] = pc[e]
        BY <1>1, <1>3, <1>5, FailureEffect
      <4> QED  BY <1>5, <2>2, <4>1 DEF Only, Busy
    <3> QED  BY <1>1, <3>1 DEF BtInv, Waiting
  <2>5. ASSUME NEW d \in Call \ {c}, NEW ch \in Channel PROVE sock'[d][ch] \notin Alive
    BY <1>1, <2>1, <2>3, <2>4, <2>5, NoneIsNoCall DEF BtInv, Known
  <2> QED  BY <1>1, <1>5, <2>1, <2>2, <2>5 DEF BtInv, BtTypeOK, Alive
<1>6. pc'[c] # "idle"
  BY <1>1, <1>3, NeverIdleAgain
<1> QED  BY <1>2, <1>4, <1>5, <1>6

\* api.py:227: a reconnect that answers true holds both channels, one that
\* answers with an error has left the transport down.
THEOREM ReplyIsTruthfulHolds == Spec => ReplyIsTruthful
<1> DEFINE Truthful(c) ==
      /\ pc[c] # "done" /\ pc'[c] = "done" =>
           connected' /\ \A ch \in Channel : attr'[ch] = c
      /\ pc[c] # "failed" /\ pc'[c] = "failed" => ~connected'
<1>1. ASSUME IInv, [Next]_vars, ~overlapped', NEW c \in Call
      PROVE  Truthful(c)
  <2>0. c \notin crossed'
    BY <1>1 DEF overlapped
  <2>1. CASE pc[c] # "done" /\ pc'[c] = "done"
    <3>1. SetFlag(c)
      BY <1>1, <2>1, SuccessEffect DEF IInv
    <3>2. pc[c] \in Busy /\ pc'[c] \notin Busy
      BY <2>1, <3>1 DEF SetFlag, Goto, Busy
    <3> QED  BY <1>1, <2>0, <2>1, <3>2, EndsWell
  <2>2. CASE pc[c] # "failed" /\ pc'[c] = "failed"
    <3>1. pc[c] \in Busy /\ pc'[c] \notin Busy
      BY <1>1, <2>2, FailureEffect DEF IInv, Busy
    <3> QED  BY <1>1, <2>0, <2>2, <3>1, EndsWell
  <2> QED  BY <2>1, <2>2
<1>2. IInv /\ [Next]_vars => [~overlapped' => \A c \in Call : Truthful(c)]_bt
  BY <1>1
<1> QED  BY <1>2, Invariance, PTL DEF Spec, ReplyIsTruthful

\* api.py:227: whatever reconnects that overlapped have left, the next one that
\* nothing crosses ends with a true answer, its own sockets and no others.
THEOREM ReconnectHealsHolds == Spec => ReconnectHeals
<1> DEFINE Heals(c) ==
      pc[c] \in Busy /\ pc'[c] \notin Busy =>
        /\ connected' <=> pc'[c] = "done"
        /\ connected' => \A ch \in Channel : attr'[ch] = c /\ sock'[c][ch] \in {"open", "dead"}
        /\ \A d \in Call \ {c}, ch \in Channel : sock'[d][ch] \in {"none", "closed"}
<1>1. ASSUME IInv, [Next]_vars, NEW c \in Requests \ crossed'
      PROVE  Heals(c)
  <2>1. c \in Call /\ c \notin crossed'
    BY <1>1 DEF Call
  <2>2. connected' \in BOOLEAN
    BY <1>1, BtStepInv DEF IInv, BtInv, BtTypeOK
  <2> QED  BY <1>1, <2>1, <2>2, EndsWell
<1>2. IInv /\ [Next]_vars => [\A c \in Requests \ crossed' : Heals(c)]_bt
  BY <1>1
<1> QED  BY <1>2, Invariance, PTL DEF Spec, ReconnectHeals

-----------------------------------------------------------------------------
\* The gate of the API.

\* Both histories are finite, so their cardinalities are numbers.
Finite ==
  \A c \in Client : IsFiniteSet(hits[c]) /\ IsFiniteSet(admitted[c])

\* No admitted request lies in the future, and serial numbers are not reused.
Past ==
  \A c \in Client : \A h \in admitted[c] : h.at <= now /\ h.id < calls

\* The limiter remembers only what it admitted, and all of it that is recent.
Remembered ==
  \A c \in Client :
    /\ hits[c] \subseteq admitted[c]
    /\ \A h \in admitted[c] : h.at > now - Window => h \in hits[c]

\* RateBound for windows that end at any time at all.
RateBoundInt ==
  \A c \in Client, w \in Int : Cardinality(AdmittedIn(c, w)) <= MaxRequests

GateInv == GateTypeOK /\ Finite /\ Past /\ Remembered /\ RateBoundInt

\* One more element makes a finite set larger by at most one.
LEMMA AddOne ==
  ASSUME NEW S, IsFiniteSet(S), NEW x
  PROVE  /\ IsFiniteSet(S \cup {x})
         /\ Cardinality(S) \in Nat
         /\ Cardinality(S \cup {x}) \in Nat
         /\ Cardinality(S \cup {x}) <= Cardinality(S) + 1
<1>1. IsFiniteSet(S \cup {x}) /\ Cardinality(S) \in Nat
  BY FS_AddElement, FS_CardinalityType, Zenon
<1>2. Cardinality(S \cup {x}) =
        IF x \in S THEN Cardinality(S) ELSE Cardinality(S) + 1
  BY FS_AddElement, Zenon
<1> QED  BY <1>1, <1>2

LEMMA InitGate == GateInit => GateInv
<1> SUFFICES ASSUME GateInit PROVE GateInv
  OBVIOUS
<1>1. GateTypeOK
  BY DEF GateInit, GateTypeOK, NoReply
<1>2. Finite /\ Past /\ Remembered
  BY FS_EmptySet DEF GateInit, Finite, Past, Remembered
<1>3. RateBoundInt
  <2> SUFFICES ASSUME NEW c \in Client, NEW w \in Int
               PROVE  Cardinality(AdmittedIn(c, w)) <= MaxRequests
    BY DEF RateBoundInt
  <2>1. AdmittedIn(c, w) = {}
    BY DEF GateInit, AdmittedIn
  <2> QED  BY <2>1, FS_EmptySet, GateAssumption
<1> QED  BY <1>1, <1>2, <1>3 DEF GateInv

LEMMA StepGate == GateInv /\ [GateNext]_gate => GateInv'
<1> SUFFICES ASSUME GateInv, [GateNext]_gate PROVE GateInv'
  OBVIOUS
<1> USE DEF GateInv
<1>1. CASE Tick
  <2>1. /\ now' = now + 1
        /\ UNCHANGED <<hits, calls, admitted, reply>>
    BY <1>1 DEF Tick
  <2>2. GateTypeOK' /\ Finite'
    BY <2>1 DEF GateTypeOK, Finite
  <2>3. Past'
    BY <2>1 DEF Past, GateTypeOK, Hit
  <2>4. Remembered'
    BY <2>1, GateAssumption DEF Remembered, GateTypeOK, Hit
  <2>5. RateBoundInt'
    BY <2>1 DEF RateBoundInt, AdmittedIn
  <2> QED  BY <2>2, <2>3, <2>4, <2>5
<1>2. ASSUME NEW c \in Client, Health(c) PROVE GateInv'
  <2>1. /\ reply' = [client |-> c, code |-> 200]
        /\ UNCHANGED <<now, hits, calls, admitted>>
    BY <1>2 DEF Health, Answer
  <2> QED
    BY <2>1 DEF GateTypeOK, Finite, Past, Remembered, RateBoundInt, AdmittedIn
<1>3. ASSUME NEW c \in Client, TooManyRequests(c) PROVE GateInv'
  <2>1. /\ hits' = [hits EXCEPT ![c] = Pruned(c)]
        /\ calls' = calls + 1
        /\ reply' = [client |-> c, code |-> 429]
        /\ UNCHANGED <<now, admitted>>
    BY <1>3 DEF TooManyRequests, Answer
  <2>2. Pruned(c) \subseteq hits[c]
    BY DEF Pruned
  <2>3. GateTypeOK'
    BY <2>1, <2>2 DEF GateTypeOK
  <2>4. Finite'
    BY <2>1, <2>2, FS_Subset DEF Finite, GateTypeOK
  <2>5. Past'
    BY <2>1 DEF Past, GateTypeOK, Hit
  <2>6. Remembered'
    BY <2>1, <2>2 DEF Remembered, GateTypeOK, Pruned
  <2>7. RateBoundInt'
    BY <2>1 DEF RateBoundInt, AdmittedIn
  <2> QED  BY <2>3, <2>4, <2>5, <2>6, <2>7
<1>4. ASSUME NEW c \in Client, NEW k \in BOOLEAN, Admit(c, k) PROVE GateInv'
  <2> DEFINE hit == [id |-> calls, at |-> now]
  <2>1. /\ hits' = [hits EXCEPT ![c] = Pruned(c) \cup {hit}]
        /\ admitted' = [admitted EXCEPT ![c] = @ \cup {hit}]
        /\ calls' = calls + 1
        /\ reply' = [client |-> c, code |-> IF k THEN 200 ELSE 401]
        /\ now' = now
        /\ Cardinality(Pruned(c)) < MaxRequests
    BY <1>4 DEF Admit, Answer, HasRoom
  <2>2. Pruned(c) \subseteq hits[c]
    BY DEF Pruned
  <2>3. hit \in Hit /\ hit.at = now /\ hit.id = calls
    BY DEF GateTypeOK, Hit
  <2> HIDE DEF hit
  <2>4. /\ hits'[c] = Pruned(c) \cup {hit}
        /\ admitted'[c] = admitted[c] \cup {hit}
        /\ \A d \in Client \ {c} : hits'[d] = hits[d] /\ admitted'[d] = admitted[d]
    BY <2>1 DEF GateTypeOK
  <2>5. GateTypeOK'
    <3>1. reply' \in [client : Client, code : {200, 401, 429}]
      BY <2>1
    <3>2. Pruned(c) \cup {hit} \in SUBSET Hit
      BY <2>2, <2>3 DEF GateTypeOK
    <3>3. hits' \in [Client -> SUBSET Hit] /\ admitted' \in [Client -> SUBSET Hit]
      BY <2>1, <2>3, <3>2 DEF GateTypeOK
    <3> QED  BY <2>1, <3>1, <3>3 DEF GateTypeOK
  <2>6. Finite'
    <3>1. IsFiniteSet(Pruned(c))
      BY <2>2, FS_Subset DEF Finite
    <3>2. IsFiniteSet(hits'[c]) /\ IsFiniteSet(admitted'[c])
      <4>1. IsFiniteSet(Pruned(c) \cup {hit})
        BY <3>1, AddOne, Zenon
      <4>2. IsFiniteSet(admitted[c])
        BY DEF Finite
      <4>3. IsFiniteSet(admitted[c] \cup {hit})
        BY <4>2, AddOne, Zenon
      <4> QED  BY <2>4, <4>1, <4>3
    <3> QED  BY <2>4, <3>2 DEF Finite
  <2>7. Past'
    BY <2>1, <2>3, <2>4 DEF Past, GateTypeOK, Hit
  <2>8. Remembered'
    BY <2>1, <2>2, <2>4 DEF Remembered, Pruned
  <2>9. RateBoundInt'
    <3> SUFFICES ASSUME NEW d \in Client, NEW w \in Int
                 PROVE  Cardinality(AdmittedIn(d, w)') <= MaxRequests
      BY DEF RateBoundInt
    <3>1. CASE d # c \/ ~(w - Window < now /\ now <= w)
      <4>1. AdmittedIn(d, w)' = AdmittedIn(d, w)
        BY <3>1, <2>3, <2>4 DEF AdmittedIn
      <4> QED  BY <4>1 DEF RateBoundInt
    <3>2. CASE d = c /\ w - Window < now /\ now <= w
      <4>1. AdmittedIn(d, w)' \subseteq Pruned(c) \cup {hit}
        <5> SUFFICES ASSUME NEW h \in admitted[c], w - Window < h.at
                     PROVE  h \in Pruned(c)
          BY <3>2, <2>4 DEF AdmittedIn
        <5>1. h.at > now - Window
          BY <3>2, GateAssumption DEF GateTypeOK, Hit
        <5> QED  BY <5>1 DEF Remembered, Pruned
      <4>2. IsFiniteSet(Pruned(c))
        BY <2>2, FS_Subset DEF Finite
      <4>3. /\ IsFiniteSet(Pruned(c) \cup {hit})
            /\ Cardinality(Pruned(c) \cup {hit}) <= Cardinality(Pruned(c)) + 1
        BY <4>2, AddOne, Zenon
      <4>4. Cardinality(AdmittedIn(d, w)') <= Cardinality(Pruned(c) \cup {hit})
        BY <4>1, <4>3, FS_Subset
      <4>5. /\ Cardinality(Pruned(c)) \in Nat
            /\ Cardinality(Pruned(c) \cup {hit}) \in Nat
            /\ Cardinality(AdmittedIn(d, w)') \in Nat
        BY <4>1, <4>2, <4>3, FS_Subset, FS_CardinalityType
      <4> QED  BY <2>1, <4>3, <4>4, <4>5, GateAssumption
    <3> QED  BY <3>1, <3>2
  <2> QED  BY <2>5, <2>6, <2>7, <2>8, <2>9
<1>5. CASE UNCHANGED gate
  BY <1>5 DEF gate, GateTypeOK, Finite, Past, Remembered, RateBoundInt, AdmittedIn
<1> QED  BY <1>1, <1>2, <1>3, <1>4, <1>5 DEF GateNext

LEMMA GateInvariance == GateSpec => []GateInv
BY InitGate, StepGate, PTL DEF GateSpec

\* Type correctness of the gate.
THEOREM GateTypeCorrect == GateSpec => []GateTypeOK
<1>1. GateInv => GateTypeOK
  BY DEF GateInv
<1> QED  BY <1>1, GateInvariance, PTL

\* In no window, wherever it begins, does a client get more than its
\* allowance past RateLimiter.is_allowed.
THEOREM RateBoundHolds == GateSpec => []RateBound
<1>1. GateInv => RateBound
  BY DEF GateInv, RateBoundInt, RateBound
<1> QED  BY <1>1, GateInvariance, PTL

\* is_allowed answers False only to a client that has used its allowance up.
THEOREM RefusalIsEarnedHolds == GateSpec => RefusalIsEarned
<1>1. GateInv /\ [GateNext]_gate =>
        [\A c \in Client :
           (calls' # calls /\ reply' = [client |-> c, code |-> 429])
             => Cardinality(AdmittedIn(c, now)) >= MaxRequests]_gate
  <2> SUFFICES ASSUME GateInv, GateNext, NEW c \in Client,
                      calls' # calls, reply' = [client |-> c, code |-> 429]
               PROVE  Cardinality(AdmittedIn(c, now)) >= MaxRequests
    BY DEF gate
  <2>1. ~Tick
    BY DEF Tick
  <2>2. \A d \in Client : ~Health(d)
    BY DEF Health
  <2>3. ASSUME NEW d \in Client, NEW k \in BOOLEAN, Admit(d, k) PROVE FALSE
    <3>1. reply'.code \in {200, 401}
      BY <2>3 DEF Admit, Answer
    <3> QED  BY <3>1
  <2>4. PICK d \in Client : TooManyRequests(d)
    BY <2>1, <2>2, <2>3 DEF GateNext
  <2>5. d = c
    <3>1. reply'.client = d /\ reply'.client = c
      BY <2>4 DEF TooManyRequests, Answer
    <3> QED  BY <3>1
  <2>6. ~(Cardinality(Pruned(c)) < MaxRequests)
    BY <2>4, <2>5 DEF TooManyRequests, HasRoom
  <2>7. Pruned(c) \subseteq AdmittedIn(c, now)
    BY DEF GateInv, Pruned, Remembered, AdmittedIn, Past
  <2>8. IsFiniteSet(AdmittedIn(c, now))
    BY FS_Subset DEF GateInv, Finite, AdmittedIn
  <2>9. /\ Cardinality(Pruned(c)) <= Cardinality(AdmittedIn(c, now))
        /\ Cardinality(Pruned(c)) \in Nat
        /\ Cardinality(AdmittedIn(c, now)) \in Nat
    BY <2>7, <2>8, FS_Subset, FS_CardinalityType
  <2> QED  BY <2>6, <2>9, GateAssumption
<1> QED  BY <1>1, GateInvariance, PTL DEF GateSpec, RefusalIsEarned
=============================================================================
