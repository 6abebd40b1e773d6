---------------------------- MODULE CDaemonProofs ----------------------------
(***************************************************************************)
(* For every alphabet, keymap, set of answers and bound, and whichever     *)
(* reports, system calls and LLM requests fail: the C daemon over          *)
(* Bluetooth gives back what it has pointers to (GivesBack), a key stays   *)
(* down only when a report was lost (KeyDownOnlyIfLost), as long as none   *)
(* is, the document is that of a typing session (TypesTheText), and each   *)
(* press that fails costs it one edit at most (DamageBounded).             *)
(*                                                                         *)
(* GivesBack needs to know which of its seven things llm_fetch_text may    *)
(* hold at each of its places (Holdings), and that bt_connect makes the    *)
(* interrupt channel last (Sockets).  TypesTheText needs, as for the       *)
(* Python typer, that the key pressed next is up and that the wrong        *)
(* character of a typo is the last one (Clean).  DamageBounded follows the *)
(* document through a typo (Damage); that an edit at the end makes it one  *)
(* edit worse at most comes down to the characters that are kept.          *)
(***************************************************************************)
EXTENDS CDaemon, HostKeyboardProofs, FiniteSetTheorems

Request == {"curl", "json", "headers", "data"}

\* What llm_fetch_text may hold at each place: no pointer is left over from
\* what was freed.
Holdings ==
  /\ named = live \ Stray
  /\ stage \in {"out", "curl"} => named = {}
  /\ stage = "payload" => named \subseteq {"curl"}
  /\ stage = "print" => named \subseteq {"curl", "payload"}
  /\ stage \in {"perform", "status"} => named \subseteq Request
  /\ stage = "extract" => named \subseteq Request \cup {"root"}
  /\ stage \in {"trim", "cleanup"} => named \subseteq Request \cup {"result"}
  /\ stage = "returned" => named \subseteq {"result"}

\* The text that comes back is the trimmed text of an answer.
TextTrimmed ==
  /\ stage = "trim" => text \in Answers
  /\ stage \in {"cleanup", "returned"} /\ "result" \in live =>
       text \in {Trimmed(a) : a \in Answers}

FetchInv == FetchTypeOK /\ Holdings /\ TextTrimmed /\ text \in Seq(Char)

\* The typer is in llm_fetch_text, has its text, or has called nobody.
CallPlace ==
  /\ pc = "fetch" => stage # "out"
  /\ pc \in Typing => stage = "returned"
  /\ pc \notin Typing \cup {"fetch"} => stage = "out"

\* bt_connect makes the interrupt channel last, and main uses the transport
\* only after it.
Sockets ==
  /\ main = "connect" /\ calls # <<>> =>
       Last(calls) \in {<<"connect", "intr">>, <<"accept", "intr">>}
  /\ (main = "connect" /\ calls = <<>>) \/ main \in {"start", "loop", "join", "disconnect"} =>
       fd["intr"] = "up"
  /\ main = "exited" => fd = [s \in Socket |-> "none"]

Threads ==
  /\ main \in {"connect", "start"} => pc = "off"
  /\ main \in {"disconnect", "destroy", "exited"} => pc \in {"off", "ended"}

\* As long as every report reaches the host, no key is down between two
\* keystrokes, and the character to be corrected is the last one.
Clean ==
  Unharmed =>
    /\ pc \notin Holding => held = NoKey
    /\ pc \in {"typoHold", "typoGap"} =>
         doc # <<>> /\ rest # <<>> /\ Last(doc) \in Near[Head(rest)]

IInv ==
  /\ TypeOK /\ FetchInv /\ CallPlace
  /\ Sockets /\ Threads /\ KeyDownOnlyIfLost /\ Clean

-----------------------------------------------------------------------------
\* Trimming yields a text over the same alphabet.

\* A set of naturals has a least one: of the sets of smaller ones, the
\* smallest is that of the least.
LEMMA LeastNatural ==
  ASSUME NEW T \in SUBSET Nat, T # {}
  PROVE  \E m \in T : \A j \in T : m <= j
<1> DEFINE Below(m) == {j \in T : j < m}
           Family == {Below(m) : m \in T}
<1>0. \A m \in T : m \in Nat
  OBVIOUS
<1>1. ASSUME NEW m \in T PROVE Below(m) \in FiniteSubsetsOf(T)
  <2>1. m \in Nat /\ Below(m) \in SUBSET Nat /\ \A j \in Below(m) : j <= m
    <3>1. \A j \in T : j < m => j <= m
      BY <1>0
    <3>2. \A j \in Below(m) : j <= m
      BY <3>1
    <3>3. Below(m) \in SUBSET Nat
      BY <1>0
    <3> QED  BY <1>0, <3>2, <3>3
  <2>2. IsFiniteSet(Below(m))
    <3> HIDE DEF Below
    <3> QED  BY <2>1, FS_BoundedSetOfNaturals
  <2> QED  BY <2>2 DEF FiniteSubsetsOf
<1>2. Family \subseteq FiniteSubsetsOf(T) /\ Family # {}
  BY <1>1
<1>3. PICK B \in Family : \A C \in Family : ~(<<C, B>> \in StrictSubsetOrdering(T))
  <2> HIDE DEF Family
  <2> QED  BY <1>2, FS_StrictSubsetOrderingWellFounded, WFMin
<1>4. PICK m \in T : B = Below(m)
  BY <1>3
<1>5. ASSUME NEW j \in T, j < m PROVE FALSE
  <2>1. j \in Below(m) /\ j \notin Below(j)
    BY <1>5
  <2>2. Below(j) \subseteq Below(m)
    <3>1. \A x \in T : x < j => x < m
      BY <1>0, <1>5
    <3> QED  BY <3>1
  <2>3. <<Below(j), Below(m)>> \in StrictSubsetOrdering(T)
    BY <2>1, <2>2 DEF StrictSubsetOrdering
  <2> QED  BY <1>3, <1>4, <2>3
<1> QED  BY <1>5

LEMMA GreatestIndex ==
  ASSUME NEW n \in Nat, NEW T \in SUBSET (1 .. n), T # {}
  PROVE  \E m \in T : \A j \in T : j <= m
<1> DEFINE U == {n - j : j \in T}
<1>1. U \in SUBSET Nat /\ U # {}
  <2>1. \A j \in T : n - j \in Nat
    OBVIOUS
  <2> QED  BY <2>1
<1>2. PICK u \in U : \A v \in U : u <= v
  <2> HIDE DEF U
  <2> QED  BY <1>1, LeastNatural
<1>3. PICK m \in T : u = n - m
  BY <1>2
<1>4. ASSUME NEW j \in T PROVE j <= m
  <2>1. n - m <= n - j
    BY <1>2, <1>3
  <2> QED  BY <2>1
<1> QED  BY <1>4

LEMMA TrimmedType ==
  ASSUME NEW s \in Seq(Char) PROVE Trimmed(s) \in Seq(Char)
<1>1. CASE Solid(s) = {}
  BY <1>1 DEF Trimmed
<1>2. CASE Solid(s) # {}
  <2>1. Solid(s) \in SUBSET (1 .. Len(s)) /\ Len(s) \in Nat
    BY LenProperties DEF Solid
  <2>2. \E i \in Solid(s) : \A j \in Solid(s) : i <= j
    BY <1>2, <2>1, LeastNatural
  <2>3. \E i \in Solid(s) : \A j \in Solid(s) : j <= i
    BY <1>2, <2>1, GreatestIndex
  <2> DEFINE first == CHOOSE i \in Solid(s) : \A j \in Solid(s) : i <= j
             last == CHOOSE i \in Solid(s) : \A j \in Solid(s) : j <= i
  <2>4. first \in Solid(s)
    BY <2>2
  <2>5. last \in Solid(s)
    BY <2>3
  <2>6. Trimmed(s) = SubSeq(s, first, last)
    BY <1>2 DEF Trimmed
  <2> HIDE DEF first, last
  <2>7. \A i \in first .. last : s[i] \in Char
    BY <2>1, <2>4, <2>5, ElementOfSeq
  <2>8. first \in Int /\ last \in Int
    BY <2>1, <2>4, <2>5
  <2> QED  BY <2>6, <2>7, <2>8, SubSeqProperties
<1> QED  BY <1>1, <1>2

-----------------------------------------------------------------------------
\* llm_fetch_text holds what Holdings says, whatever goes wrong in it.
LEMMA FetchStepInv ==
  ASSUME FetchInv, FetchStep
  PROVE  FetchInv' /\ stage' # "out"
<1> USE DEF Pass, Deleted, FetchInv, FetchTypeOK, Held, Stray, Holdings, TextTrimmed, Request
<1>1. CASE NoCurl \/ InitCurl \/ NoPayload \/ CreatePayload \/ MessagesMissing
  BY <1>1 DEF NoCurl, InitCurl, NoPayload, CreatePayload, MessagesMissing
<1>2. CASE PayloadUnprinted \/ PayloadPrinted
  BY <1>2 DEF PayloadUnprinted, PayloadPrinted
<1>3. CASE PerformFails \/ Perform
  BY <1>3 DEF PerformFails, Perform
<1>4. CASE BadAnswer \/ BadJson \/ Parse \/ NoText
  BY <1>4 DEF BadAnswer, BadJson, Parse, NoText
<1>5. CASE Extract
  <2>1. text' \in Answers /\ text' \in Seq(Char)
    BY <1>5, CTyperAssumption DEF Extract
  <2> QED  BY <1>5, <2>1 DEF Extract
<1>6. CASE Trim
  <2>1. text' = Trimmed(text) /\ text \in Answers
    BY <1>6 DEF Trim
  <2>2. text' \in Seq(Char)
    BY <2>1, TrimmedType
  <2>3. text' \in {Trimmed(a) : a \in Answers}
    BY <2>1
  <2> QED  BY <1>6, <2>2, <2>3 DEF Trim
<1>7. CASE TrimFails \/ Cleanup
  BY <1>7 DEF TrimFails, Cleanup
<1> QED
  BY <1>1, <1>2, <1>3, <1>4, <1>5, <1>6, <1>7 DEF FetchStep

\* bt_connect has four calls to make, or six, and the last is for the
\* interrupt channel.
LEMMA PlanOfCalls ==
  \A plan \in {Active, Listening} :
    /\ plan \in Seq({"socket", "connect", "bind", "accept"} \X Socket)
    /\ plan # <<>>
    /\ Last(plan) \in {<<"connect", "intr">>, <<"accept", "intr">>}
<1> DEFINE C == {"socket", "connect", "bind", "accept"} \X Socket
<1>1. /\ <<"socket", "ctrl">> \in C /\ <<"connect", "ctrl">> \in C
      /\ <<"socket", "intr">> \in C /\ <<"connect", "intr">> \in C
      /\ <<"socket", "ctrl_server">> \in C /\ <<"bind", "ctrl_server">> \in C
      /\ <<"socket", "intr_server">> \in C /\ <<"bind", "intr_server">> \in C
      /\ <<"accept", "ctrl">> \in C /\ <<"accept", "intr">> \in C
  BY DEF Socket
<1> HIDE DEF C
<1>2. /\ Active \in Seq(C) /\ Active # <<>>
      /\ Last(Active) = <<"connect", "intr">>
  <2>1. ASSUME NEW a \in C, NEW b \in C, NEW c \in C, NEW d \in C,
               Active = <<a, b, c, d>>, d = <<"connect", "intr">>
        PROVE  /\ Active \in Seq(C) /\ Active # <<>>
               /\ Last(Active) = <<"connect", "intr">>
    <3>1. /\ <<a, b, c, d>> \in Seq(C) /\ <<a, b, c, d>> # <<>>
          /\ Last(<<a, b, c, d>>) = d
      BY DEF Last
    <3> QED  BY <2>1, <3>1, Zenon
  <2> QED  BY <1>1, <2>1 DEF Active
<1>3. /\ Listening \in Seq(C) /\ Listening # <<>>
      /\ Last(Listening) = <<"accept", "intr">>
  <2>1. ASSUME NEW a \in C, NEW b \in C, NEW c \in C, NEW d \in C, NEW e \in C, NEW f \in C,
               Listening = <<a, b, c, d, e, f>>, f = <<"accept", "intr">>
        PROVE  /\ Listening \in Seq(C) /\ Listening # <<>>
               /\ Last(Listening) = <<"accept", "intr">>
    <3>1. /\ <<a, b, c, d, e, f>> \in Seq(C) /\ <<a, b, c, d, e, f>> # <<>>
          /\ Last(<<a, b, c, d, e, f>>) = f
      BY DEF Last
    <3> QED  BY <2>1, <3>1, Zenon
  <2> QED  BY <1>1, <2>1, Zenon DEF Listening
<1> QED  BY <1>2, <1>3 DEF C

LEMMA InitIInv == Init => IInv
<1> SUFFICES ASSUME Init PROVE IInv
  OBVIOUS
<1> USE DEF Init, BtInit, TyperInit, FetchInit
<1>1. /\ calls \in Seq({"socket", "connect", "bind", "accept"} \X Socket)
      /\ calls # <<>>
      /\ Last(calls) \in {<<"connect", "intr">>, <<"accept", "intr">>}
  BY PlanOfCalls
<1>2. BtTypeOK
  BY <1>1, Zenon DEF BtTypeOK
<1>3. FetchTypeOK
  BY DEF FetchTypeOK
<1>4. TyperTypeOK
  <2>1. doc \in Seq(Char) /\ wanted = doc /\ rest \in Seq(Char) /\ text \in Seq(Char)
    BY CTyperAssumption, EmptySeq
  <2>2. sessions \in 0 .. MaxSessions /\ faults \in 0 .. MaxFaults
    BY CTyperAssumption
  <2>3. pc \in Between /\ pc \notin Typing
    BY DEF Typing, Between, Holding
  <2> QED  BY <2>1, <2>2, <2>3 DEF TyperTypeOK
<1>5. FetchInv
  BY <1>3, EmptySeq DEF FetchInv, Holdings, TextTrimmed
<1>6. CallPlace /\ Sockets /\ Threads /\ KeyDownOnlyIfLost /\ Clean
  BY <1>1 DEF CallPlace, Sockets, Threads, KeyDownOnlyIfLost, Clean, Typing, Holding
<1> QED  BY <1>2, <1>3, <1>4, <1>5, <1>6 DEF IInv, TypeOK

-----------------------------------------------------------------------------
\* The steps of main, of the host and of a stop.

\* What is left of bt_connect after one more call.
LEMMA NextCall ==
  ASSUME NEW S, NEW s \in Seq(S), s # <<>>
  PROVE  /\ Head(s) \in S /\ Tail(s) \in Seq(S)
         /\ Tail(s) = <<>> => Last(s) = Head(s)
         /\ Tail(s) # <<>> => Last(Tail(s)) = Last(s)
<1>1. /\ Head(s) \in S /\ Tail(s) \in Seq(S)
      /\ Len(Tail(s)) = Len(s) - 1 /\ Head(s) = s[1]
      /\ \A i \in 1 .. Len(Tail(s)) : Tail(s)[i] = s[i + 1]
  BY HeadTailProperties
<1>2. Len(s) \in Nat \ {0}
  BY EmptySeq
<1>3. CASE Tail(s) = <<>>
  <2> DEFINE n == Len(s)
             m == Len(Tail(s))
  <2>1. m = 0
    BY <1>1, <1>3, EmptySeq
  <2>2. n \in Nat /\ m = n - 1
    BY <1>1, <1>2
  <2> HIDE DEF n, m
  <2>3. n = 1
    BY <2>1, <2>2
  <2>4. Len(s) = 1
    BY <2>3 DEF n
  <2> QED  BY <1>1, <1>3, <2>4 DEF Last
<1>4. CASE Tail(s) # <<>>
  <2>1. Len(Tail(s)) \in Nat \ {0}
    BY <1>1, <1>4, EmptySeq
  <2> QED  BY <1>1, <1>2, <1>4, <2>1 DEF Last
<1> QED  BY <1>1, <1>3, <1>4

LEMMA ConnectingIInv == ASSUME IInv, Connecting PROVE IInv'
<1> DEFINE C == {"socket", "connect", "bind", "accept"} \X Socket
<1>1. /\ main = "connect" /\ UNCHANGED <<main, typer>>
      /\ calls # <<>> /\ calls' = Tail(calls) /\ alive' = alive
      /\ \/ /\ fd' = [fd EXCEPT ![Head(calls)[2]] = "new"]
            /\ Head(calls)[1] = "socket"
         \/ fd' = [fd EXCEPT ![Head(calls)[2]] = "up"]
  BY DEF Connecting, OpenSocket, ConnectSocket, BindSocket, AcceptSocket, SystemCall
<1>2. /\ calls \in Seq(C) /\ fd \in [Socket -> {"none", "new", "up"}]
      /\ alive \in BOOLEAN
  BY DEF IInv, TypeOK, BtTypeOK
<1>3. Last(calls) \in {<<"connect", "intr">>, <<"accept", "intr">>}
  BY <1>1 DEF IInv, Sockets
<1>4. /\ Head(calls) \in C /\ Tail(calls) \in Seq(C)
      /\ Tail(calls) = <<>> => Last(calls) = Head(calls)
      /\ Tail(calls) # <<>> => Last(Tail(calls)) = Last(calls)
  <2> HIDE DEF C
  <2> QED  BY <1>1, <1>2, NextCall
<1>5. fd' \in [Socket -> {"none", "new", "up"}]
  BY <1>1, <1>2, <1>4
<1>6. calls' = <<>> => fd'["intr"] = "up"
  <2> SUFFICES ASSUME calls' = <<>> PROVE fd'["intr"] = "up"
    OBVIOUS
  <2>1. Head(calls)[1] # "socket" /\ Head(calls)[2] = "intr"
    BY <1>1, <1>3, <1>4
  <2>2. fd' = [fd EXCEPT !["intr"] = "up"]
    BY <1>1, <2>1
  <2> QED  BY <1>2, <2>2 DEF Socket
<1>7. BtTypeOK' /\ Sockets'
  BY <1>1, <1>2, <1>3, <1>4, <1>5, <1>6 DEF BtTypeOK, Sockets
<1>8. UNCHANGED <<pc, rest, running, sessions, wanted, missed, faults, slipped, doc,
                  held, stage, named, live, text>>
  BY <1>1 DEF typer, history, host, fetch
<1>9. FetchTypeOK' /\ TyperTypeOK'
  BY <1>8 DEF IInv, TypeOK, FetchTypeOK, TyperTypeOK
<1>10. FetchInv' /\ CallPlace' /\ KeyDownOnlyIfLost' /\ Threads' /\ Clean'
  BY <1>1, <1>8, <1>9 DEF IInv, FetchInv, Holdings, TextTrimmed, CallPlace,
     KeyDownOnlyIfLost, Threads, Clean, Unharmed
<1> QED  BY <1>1, <1>7, <1>9, <1>10 DEF IInv, TypeOK

LEMMA MainIInv ==
  ASSUME IInv, ConnectFailed \/ Connected \/ StartNone \/ Joined \/ Destroy
  PROVE  IInv'
<1>1. UNCHANGED <<pc, rest, running, sessions, wanted, missed, faults, slipped, doc,
                  held, stage, named, live, text, alive>>
  BY DEF ConnectFailed, Connected, StartNone, Joined, Destroy, ConnectFails,
     CloseSockets, typer, history, host, fetch, bt
<1>2. FetchTypeOK' /\ TyperTypeOK'
  BY <1>1 DEF IInv, TypeOK, FetchTypeOK, TyperTypeOK
<1>3. FetchInv' /\ CallPlace' /\ KeyDownOnlyIfLost' /\ Clean'
  BY <1>1, <1>2 DEF IInv, FetchInv, Holdings, TextTrimmed, CallPlace,
     KeyDownOnlyIfLost, Clean, Unharmed
<1>4. BtTypeOK'
  BY <1>1, EmptySeq DEF IInv, TypeOK, BtTypeOK, ConnectFailed, Connected, StartNone, Joined,
     Destroy, ConnectFails, CloseSockets, bt
<1>5. Sockets'
  BY DEF IInv, Sockets, ConnectFailed, Connected, StartNone, Joined,
     Destroy, ConnectFails, CloseSockets, MainGoes, bt
<1>6. Threads'
  BY <1>1 DEF IInv, Threads, ConnectFailed, Connected, StartNone, Joined,
     Destroy, MainGoes
<1>7. main' \in {"connect", "start", "loop", "join", "disconnect", "destroy", "exited"}
  BY DEF ConnectFailed, Connected, StartNone, Joined, Destroy, MainGoes
<1> QED  BY <1>2, <1>3, <1>4, <1>5, <1>6, <1>7 DEF IInv, TypeOK

LEMMA StartStopIInv == ASSUME IInv, Start \/ Stop PROVE IInv'
<1>1. /\ UNCHANGED <<rest, sessions, wanted, missed, faults, slipped, doc, held, stage,
                     named, live, text, calls, fd, alive>>
      /\ running' \in BOOLEAN
      /\ \/ main = "start" /\ main' = "loop" /\ pc = "off" /\ pc' = "wait"
         \/ main = "loop" /\ main' = "join" /\ pc' = pc
  BY DEF Start, Stop, StartTyper, MainGoes, Goto, history, host, fetch, bt
<1>2. TypeOK'
  BY <1>1 DEF IInv, TypeOK, BtTypeOK, FetchTypeOK, TyperTypeOK, Typing, Between, Holding
<1>3. FetchInv'
  BY <1>1, <1>2 DEF IInv, TypeOK, FetchInv, Holdings, TextTrimmed
<1>4. CallPlace' /\ Sockets' /\ Threads' /\ KeyDownOnlyIfLost' /\ Clean'
  BY <1>1 DEF IInv, CallPlace, Sockets, Threads, KeyDownOnlyIfLost, Clean, Unharmed,
     Typing, Holding
<1> QED  BY <1>2, <1>3, <1>4 DEF IInv

LEMMA LinkEndsIInv == ASSUME IInv, Disconnect \/ HostGoes PROVE IInv'
<1>1. /\ UNCHANGED <<pc, rest, running, sessions, wanted, missed, faults, slipped, doc,
                     stage, named, live, text, calls>>
      /\ held' = NoKey
      /\ \/ /\ main = "disconnect" /\ main' = "destroy" /\ alive' = alive
            /\ fd' = [s \in Socket |-> "none"]
         \/ main' = main /\ alive' = FALSE /\ fd' = fd
  BY DEF Disconnect, HostGoes, PeerGoes, CloseSockets, AllUp, MainGoes, history, fetch
<1>2. TypeOK'
  <2>1. BtTypeOK' /\ FetchTypeOK'
    BY <1>1 DEF IInv, TypeOK, BtTypeOK, FetchTypeOK
  <2>2. TyperTypeOK'
    BY <1>1 DEF IInv, TypeOK, TyperTypeOK
  <2> QED  BY <1>1, <2>1, <2>2 DEF IInv, TypeOK
<1>3. FetchInv'
  BY <1>1, <1>2 DEF IInv, TypeOK, FetchInv, Holdings, TextTrimmed
<1>4. CallPlace' /\ Threads' /\ KeyDownOnlyIfLost'
  BY <1>1 DEF IInv, CallPlace, Threads, KeyDownOnlyIfLost
<1>5. Sockets'
  BY <1>1 DEF IInv, Sockets
<1>6. Clean'
  BY <1>1 DEF IInv, Clean, Unharmed
<1> QED  BY <1>2, <1>3, <1>4, <1>5, <1>6 DEF IInv

-----------------------------------------------------------------------------
\* The steps of the typer.

\* While the typer is anywhere, main waits for it, and the link is open.
LEMMA TypistRuns ==
  ASSUME IInv, pc \notin {"off", "ended"}
  PROVE  main \in {"loop", "join"} /\ fd["intr"] = "up"
BY DEF IInv, Threads, Sockets, TypeOK

\* What a step of the typer leaves alone.
LEMMA TypistKeeps ==
  ASSUME IInv, UNCHANGED <<main, bt>>, pc \notin {"off", "ended"}, pc' # "off"
  PROVE  BtTypeOK' /\ Sockets' /\ Threads'
<1>1. UNCHANGED <<main, calls, fd, alive>>
  BY DEF bt
<1>2. BtTypeOK' /\ Sockets'
  BY <1>1 DEF IInv, TypeOK, BtTypeOK, Sockets
<1>3. Threads'
  BY <1>1, TypistRuns DEF Threads
<1> QED  BY <1>2, <1>3

LEMMA ThreadIInv ==
  ASSUME IInv, UNCHANGED <<main, bt>>, Wake \/ StopSeen \/ BackoffOver
  PROVE  IInv'
<1>1. /\ UNCHANGED <<rest, running, sessions, wanted, missed, faults, slipped, doc, held,
                     named, live, alive, main>>
      /\ \/ pc = "wait" /\ pc' = "fetch" /\ stage' = "curl" /\ text' = <<>> /\ stage = "out"
         \/ pc = "wait" /\ pc' = "ended" /\ stage' = stage /\ text' = text
         \/ pc = "backoff" /\ pc' = "wait" /\ stage' = stage /\ text' = text
  BY DEF Wake, StopSeen, BackoffOver, Call, Pass, Goto, history, host, fetch, bt
<1>2. BtTypeOK' /\ Sockets' /\ Threads'
  BY <1>1, TypistKeeps
<1>3. FetchTypeOK' /\ TyperTypeOK'
  BY <1>1, EmptySeq DEF IInv, TypeOK, FetchTypeOK, TyperTypeOK, Typing, Between, Holding
<1>4. FetchInv'
  BY <1>1, <1>3, EmptySeq DEF IInv, FetchInv, Holdings, TextTrimmed
<1>5. CallPlace' /\ KeyDownOnlyIfLost' /\ Clean'
  BY <1>1 DEF IInv, CallPlace, KeyDownOnlyIfLost, Clean, Unharmed, Typing, Holding
<1> QED  BY <1>1, <1>2, <1>3, <1>4, <1>5 DEF IInv, TypeOK

LEMMA FetchingIInv ==
  ASSUME IInv, UNCHANGED <<main, bt>>, Fetching PROVE IInv'
<1>1. /\ UNCHANGED <<pc, rest, running, wanted, missed, faults, slipped, doc, held, alive, main>>
      /\ pc = "fetch" /\ FetchStep
      /\ sessions' \in {sessions, sessions + 1} /\ sessions' <= MaxSessions
  BY DEF Fetching, history, host, bt
<1>2. BtTypeOK' /\ Sockets' /\ Threads'
  BY <1>1, TypistKeeps
<1>3. FetchInv' /\ stage' # "out"
  BY <1>1, FetchStepInv DEF IInv
<1>4. TyperTypeOK'
  BY <1>1, <1>3, CTyperAssumption DEF IInv, TypeOK, TyperTypeOK, FetchInv
<1>5. CallPlace' /\ KeyDownOnlyIfLost' /\ Clean'
  BY <1>1, <1>3 DEF IInv, CallPlace, KeyDownOnlyIfLost, Clean, Unharmed, Typing, Holding
<1> QED  BY <1>1, <1>2, <1>3, <1>4, <1>5 DEF IInv, TypeOK, FetchInv

LEMMA TypeTextIInv ==
  ASSUME IInv, UNCHANGED <<main, bt>>, TypeText PROVE IInv'
<1>1. /\ UNCHANGED <<running, sessions, wanted, missed, faults, slipped, doc, held,
                     stage, named, live, text, alive, main>>
      /\ pc = "fetch" /\ pc' = "char" /\ stage = "returned"
      /\ rest' = text /\ text # <<>>
  BY DEF TypeText, Goto, history, host, fetch, bt
<1>2. BtTypeOK' /\ Sockets' /\ Threads'
  BY <1>1, TypistKeeps
<1>3. TyperTypeOK' /\ FetchTypeOK'
  BY <1>1 DEF IInv, TypeOK, FetchTypeOK, TyperTypeOK, Typing, Between, Holding
<1>4. FetchInv'
  BY <1>1, <1>3 DEF IInv, FetchInv, Holdings, TextTrimmed
<1>5. CallPlace' /\ KeyDownOnlyIfLost' /\ Clean'
  BY <1>1 DEF IInv, CallPlace, KeyDownOnlyIfLost, Clean, Unharmed, Typing, Holding
<1> QED  BY <1>1, <1>2, <1>3, <1>4, <1>5 DEF IInv, TypeOK

\* The text is freed, whoever has it.
LEMMA TextFreedIInv ==
  ASSUME IInv, UNCHANGED <<main, bt>>, NothingToType \/ LastChar \/ StopBetween
  PROVE  IInv'
<1>1. /\ UNCHANGED <<running, sessions, wanted, missed, faults, slipped, doc, held, text,
                     alive, main>>
      /\ pc \in {"fetch", "gap", "char"} /\ pc' \in {"backoff", "wait"}
      /\ stage = "returned" /\ stage' = "out"
      /\ named' = {} /\ live' = live \ {"result"}
      /\ rest' = <<>>
  BY DEF NothingToType, LastChar, StopBetween, TextDone, Done, Goto, history, host, bt,
     IInv, CallPlace, TypeOK, TyperTypeOK, Typing, Holding
<1>2. BtTypeOK' /\ Sockets' /\ Threads'
  BY <1>1, TypistKeeps
<1>3. live' \subseteq Stray
  BY <1>1 DEF IInv, FetchInv, Holdings
<1>4. TyperTypeOK' /\ FetchTypeOK'
  BY <1>1, <1>3, EmptySeq DEF IInv, TypeOK, FetchTypeOK, TyperTypeOK, Typing, Between, Holding, Held
<1>5. FetchInv'
  BY <1>1, <1>3, <1>4 DEF IInv, FetchInv, Holdings, TextTrimmed
<1>6. CallPlace' /\ KeyDownOnlyIfLost' /\ Clean'
  BY <1>1 DEF IInv, CallPlace, KeyDownOnlyIfLost, Clean, Unharmed, Typing, Holding
<1> QED  BY <1>1, <1>2, <1>4, <1>5, <1>6 DEF IInv, TypeOK

\* A report that harms nothing has reached the host.
LEMMA PressSent ==
  ASSUME IInv, NEW key \in Char \cup {Backspace}, SendPress(key),
         fd["intr"] = "up", alive' = alive
  PROVE  /\ doc' \in Seq(Char) /\ held' \in Char \cup {NoKey, Backspace}
         /\ missed' \in BOOLEAN /\ faults' \in 0 .. MaxFaults /\ slipped' = slipped
         /\ Unharmed' => Unharmed /\ Press(key)
<1>1. /\ doc \in Seq(Char) /\ held \in Char \cup {NoKey, Backspace}
      /\ faults \in 0 .. MaxFaults /\ alive \in BOOLEAN
  BY DEF IInv, TypeOK, TyperTypeOK, BtTypeOK
<1>2. CASE Up /\ Press(key) /\ missed' = FALSE /\ UNCHANGED <<faults, slipped>>
  BY <1>1, <1>2, PressKeepsTypes DEF Unharmed
<1>3. CASE ~Up /\ missed' = TRUE /\ UNCHANGED <<host, faults, slipped>>
  BY <1>1, <1>3 DEF Unharmed, Up, host
<1>4. CASE /\ missed' = TRUE /\ faults < MaxFaults /\ faults' = faults + 1
           /\ UNCHANGED <<host, slipped>>
  BY <1>1, <1>4, CTyperAssumption DEF Unharmed, host
<1> QED  BY <1>2, <1>3, <1>4 DEF SendPress

LEMMA ReleaseSent ==
  ASSUME IInv, SendRelease, fd["intr"] = "up", alive' = alive
  PROVE  /\ doc' = doc /\ held' \in {held, NoKey} /\ faults' = faults
         /\ missed' \in BOOLEAN /\ slipped' \in BOOLEAN
         /\ held' # NoKey => missed'
         /\ Unharmed' => Unharmed /\ held' = NoKey
BY DEF SendRelease, Unharmed, Up, AllUp, host, IInv, TypeOK, TyperTypeOK

\* The characters at hand while the typer types.
LEMMA RestAtHand ==
  ASSUME IInv, pc \in Typing
  PROVE  /\ rest \in Seq(Char) /\ rest # <<>>
         /\ Head(rest) \in Char /\ Tail(rest) \in Seq(Char)
         /\ Near[Head(rest)] \subseteq Char
<1>1. rest \in Seq(Char) /\ rest # <<>>
  BY DEF IInv, TypeOK, TyperTypeOK
<1>2. Head(rest) \in Char /\ Tail(rest) \in Seq(Char)
  BY <1>1, HeadTailProperties
<1> QED  BY <1>1, <1>2, KeyboardAssumption

\* What the steps between two characters leave alone.
LEMMA TypingKeeps ==
  ASSUME IInv, UNCHANGED <<main, bt, fetch>>, pc \in Typing, pc' \in Typing
  PROVE  /\ BtTypeOK' /\ Sockets' /\ Threads' /\ FetchInv' /\ FetchTypeOK' /\ CallPlace'
         /\ main' \in {"connect", "start", "loop", "join", "disconnect", "destroy", "exited"}
         /\ fd["intr"] = "up" /\ alive' = alive /\ text' \in Seq(Char)
<1>1. pc \notin {"off", "ended", "fetch"} /\ pc' \notin {"off", "ended", "fetch"}
  BY DEF Typing, Holding
<1>2. UNCHANGED <<stage, named, live, text, main, alive>>
  BY DEF fetch, bt
<1>3. BtTypeOK' /\ Sockets' /\ Threads' /\ fd["intr"] = "up"
  BY <1>1, TypistKeeps, TypistRuns
<1>4. FetchInv' /\ FetchTypeOK'
  BY <1>2 DEF IInv, FetchInv, FetchTypeOK, Holdings, TextTrimmed
<1>5. CallPlace'
  BY <1>1, <1>2 DEF IInv, CallPlace
<1> QED  BY <1>2, <1>3, <1>4, <1>5 DEF IInv, TypeOK, FetchInv

LEMMA PressTypoIInv ==
  ASSUME IInv, UNCHANGED <<main, bt>>, PressTypo PROVE IInv'
<1>1. /\ UNCHANGED <<rest, running, sessions, wanted, fetch>>
      /\ pc = "char" /\ pc' = "typoHold"
  BY DEF PressTypo, Goto
<1>2. PICK wrong \in Near[Head(rest)] : SendPress(wrong)
  BY DEF PressTypo
<1>3. pc \in Typing /\ pc' \in Holding
  BY <1>1 DEF Typing, Holding
<1>4. /\ BtTypeOK' /\ Sockets' /\ Threads' /\ FetchInv' /\ FetchTypeOK' /\ CallPlace'
      /\ main' \in {"connect", "start", "loop", "join", "disconnect", "destroy", "exited"}
      /\ fd["intr"] = "up" /\ alive' = alive /\ text' \in Seq(Char)
  BY <1>1, <1>3, TypingKeeps DEF Typing
<1>5. wrong \in Char /\ rest # <<>>
  BY <1>2, <1>3, RestAtHand
<1>6. /\ doc' \in Seq(Char) /\ held' \in Char \cup {NoKey, Backspace}
      /\ missed' \in BOOLEAN /\ faults' \in 0 .. MaxFaults /\ slipped' = slipped
      /\ Unharmed' => Unharmed /\ Press(wrong)
  BY <1>2, <1>4, <1>5, PressSent
<1>7. TyperTypeOK'
  BY <1>1, <1>3, <1>4, <1>5, <1>6 DEF IInv, TypeOK, TyperTypeOK, Typing
<1>8. ASSUME Unharmed' PROVE doc' # <<>> /\ Last(doc') = wrong
  <2>1. held = NoKey /\ Press(wrong)
    BY <1>1, <1>6, <1>8 DEF IInv, Clean, Holding
  <2>2. doc' = Append(doc, wrong)
    BY <1>5, <2>1, KeyboardAssumption DEF Press, Edit
  <2> QED  BY <1>5, <2>2, FrontOfAppend DEF IInv, TypeOK, TyperTypeOK
<1>9. KeyDownOnlyIfLost' /\ Clean'
  BY <1>1, <1>2, <1>3, <1>5, <1>8 DEF KeyDownOnlyIfLost, Clean
<1> QED  BY <1>4, <1>7, <1>9 DEF IInv, TypeOK

LEMMA PressBackspaceIInv ==
  ASSUME IInv, UNCHANGED <<main, bt>>, PressBackspace PROVE IInv'
<1>1. /\ UNCHANGED <<rest, running, sessions, wanted, fetch>>
      /\ pc = "typoGap" /\ pc' = "bsHold" /\ SendPress(Backspace)
  BY DEF PressBackspace, Goto
<1>2. pc \in Typing /\ pc' \in Holding /\ pc' \in Typing
  BY <1>1 DEF Typing, Holding
<1>3. /\ BtTypeOK' /\ Sockets' /\ Threads' /\ FetchInv' /\ FetchTypeOK' /\ CallPlace'
      /\ main' \in {"connect", "start", "loop", "join", "disconnect", "destroy", "exited"}
      /\ fd["intr"] = "up" /\ alive' = alive /\ text' \in Seq(Char)
  BY <1>1, <1>2, TypingKeeps
<1>4. /\ doc' \in Seq(Char) /\ held' \in Char \cup {NoKey, Backspace}
      /\ missed' \in BOOLEAN /\ faults' \in 0 .. MaxFaults /\ slipped' = slipped
  BY <1>1, <1>3, PressSent
<1>5. TyperTypeOK'
  BY <1>1, <1>2, <1>3, <1>4 DEF IInv, TypeOK, TyperTypeOK
<1>6. KeyDownOnlyIfLost' /\ Clean'
  BY <1>1, <1>2 DEF KeyDownOnlyIfLost, Clean
<1> QED  BY <1>3, <1>5, <1>6 DEF IInv, TypeOK

LEMMA PressCharIInv ==
  ASSUME IInv, UNCHANGED <<main, bt>>, PressChar PROVE IInv'
<1>1. /\ UNCHANGED <<rest, running, sessions, fetch>>
      /\ pc \in {"char", "bsGap"} /\ pc' = "hold" /\ SendPress(Head(rest))
      /\ wanted' = Append(wanted, Head(rest))
  BY DEF PressChar, AtCharacter
<1>2. pc \in Typing /\ pc' \in Holding /\ pc' \in Typing
  BY <1>1 DEF Typing, Holding
<1>3. /\ BtTypeOK' /\ Sockets' /\ Threads' /\ FetchInv' /\ FetchTypeOK' /\ CallPlace'
      /\ main' \in {"connect", "start", "loop", "join", "disconnect", "destroy", "exited"}
      /\ fd["intr"] = "up" /\ alive' = alive /\ text' \in Seq(Char)
  BY <1>1, <1>2, TypingKeeps
<1>4. Head(rest) \in Char /\ rest # <<>>
  BY <1>2, RestAtHand
<1>5. /\ doc' \in Seq(Char) /\ held' \in Char \cup {NoKey, Backspace}
      /\ missed' \in BOOLEAN /\ faults' \in 0 .. MaxFaults /\ slipped' = slipped
  BY <1>1, <1>3, <1>4, PressSent
<1>6. wanted' \in Seq(Char)
  BY <1>1, <1>4, AppendProperties DEF IInv, TypeOK, TyperTypeOK
<1>7. TyperTypeOK'
  BY <1>1, <1>2, <1>3, <1>5, <1>6 DEF IInv, TypeOK, TyperTypeOK
<1>8. KeyDownOnlyIfLost' /\ Clean'
  BY <1>1, <1>2 DEF KeyDownOnlyIfLost, Clean
<1> QED  BY <1>3, <1>7, <1>8 DEF IInv, TypeOK

LEMMA ReleaseIInv ==
  ASSUME IInv, UNCHANGED <<main, bt>>, ReleaseTypo \/ ReleaseBackspace \/ ReleaseChar
  PROVE  IInv'
<1>1. /\ UNCHANGED <<rest, running, sessions, wanted, fetch>>
      /\ SendRelease
      /\ \/ pc = "typoHold" /\ pc' = "typoGap"
         \/ pc = "bsHold" /\ pc' = "bsGap"
         \/ pc = "hold" /\ pc' = "gap"
  BY DEF ReleaseTypo, ReleaseBackspace, ReleaseChar, Release, Goto
<1>2. pc \in Typing /\ pc' \in Typing
  BY <1>1 DEF Typing, Holding
<1>3. /\ BtTypeOK' /\ Sockets' /\ Threads' /\ FetchInv' /\ FetchTypeOK' /\ CallPlace'
      /\ main' \in {"connect", "start", "loop", "join", "disconnect", "destroy", "exited"}
      /\ fd["intr"] = "up" /\ alive' = alive /\ text' \in Seq(Char)
  BY <1>1, <1>2, TypingKeeps
<1>4. /\ doc' = doc /\ held' \in {held, NoKey} /\ faults' = faults
      /\ missed' \in BOOLEAN /\ slipped' \in BOOLEAN
      /\ held' # NoKey => missed'
      /\ Unharmed' => Unharmed /\ held' = NoKey
  BY <1>1, <1>3, ReleaseSent
<1>5. TyperTypeOK'
  BY <1>1, <1>2, <1>3, <1>4 DEF IInv, TypeOK, TyperTypeOK
<1>6. KeyDownOnlyIfLost'
  BY <1>4 DEF KeyDownOnlyIfLost
<1>7. Clean'
  BY <1>1, <1>4 DEF IInv, Clean
<1> QED  BY <1>3, <1>5, <1>6, <1>7 DEF IInv, TypeOK

LEMMA SkipNextIInv ==
  ASSUME IInv, UNCHANGED <<main, bt>>, SkipChar \/ NextChar PROVE IInv'
<1>1. /\ UNCHANGED <<running, sessions, wanted, missed, faults, slipped, doc, held, fetch>>
      /\ \/ pc \in {"char", "bsGap"} /\ pc' = "gap" /\ rest' = rest
         \/ pc = "gap" /\ pc' = "char" /\ rest' = Tail(rest) /\ Tail(rest) # <<>>
  BY DEF SkipChar, NextChar, AtCharacter, history, host
<1>2. pc \in Typing \ Holding /\ pc' \in Typing \ Holding
  BY <1>1 DEF Typing, Holding
<1>3. /\ BtTypeOK' /\ Sockets' /\ Threads' /\ FetchInv' /\ FetchTypeOK' /\ CallPlace'
      /\ main' \in {"connect", "start", "loop", "join", "disconnect", "destroy", "exited"}
      /\ fd["intr"] = "up" /\ alive' = alive /\ text' \in Seq(Char)
  BY <1>1, <1>2, TypingKeeps
<1>4. rest' \in Seq(Char) /\ rest' # <<>>
  BY <1>1, <1>2, RestAtHand
<1>5. TyperTypeOK'
  BY <1>1, <1>2, <1>3, <1>4 DEF IInv, TypeOK, TyperTypeOK
<1>6. KeyDownOnlyIfLost' /\ Clean'
  BY <1>1, <1>2, <1>3 DEF IInv, KeyDownOnlyIfLost, Clean, Unharmed
<1> QED  BY <1>3, <1>5, <1>6 DEF IInv, TypeOK

LEMMA StepIInv == IInv /\ [Next]_vars => IInv'
<1> SUFFICES ASSUME IInv, [Next]_vars PROVE IInv'
  OBVIOUS
<1>1. CASE Typist
  BY <1>1, ThreadIInv, FetchingIInv, TypeTextIInv, TextFreedIInv, PressTypoIInv,
     PressBackspaceIInv, PressCharIInv, ReleaseIInv, SkipNextIInv DEF Typist, TyperStep
<1>2. CASE UNCHANGED vars
  <2>1. UNCHANGED <<main, calls, fd, alive, pc, rest, running, sessions, wanted, missed,
                    faults, slipped, doc, held, stage, named, live, text>>
    BY <1>2 DEF vars, bt, typer, history, host, fetch
  <2>2. TypeOK'
    BY <2>1 DEF IInv, TypeOK, BtTypeOK, FetchTypeOK, TyperTypeOK
  <2>3. FetchInv' /\ CallPlace' /\ Sockets' /\ Threads'
    BY <2>1 DEF IInv, FetchInv, FetchTypeOK, Holdings, TextTrimmed, CallPlace, Sockets,
       Threads
  <2>4. KeyDownOnlyIfLost' /\ Clean'
    BY <2>1 DEF IInv, KeyDownOnlyIfLost, Clean, Unharmed
  <2> QED  BY <2>2, <2>3, <2>4 DEF IInv
<1> QED
  BY <1>1, <1>2, ConnectingIInv, MainIInv, StartStopIInv, LinkEndsIInv DEF Next, MainStep

LEMMA Invariance == Spec => []IInv
BY InitIInv, StepIInv, PTL DEF Spec

\* Every variable has its type, whatever fails.
THEOREM TypeCorrect == Spec => []TypeOK
<1>1. IInv => TypeOK
  BY DEF IInv
<1> QED  BY <1>1, Invariance, PTL

\* llm_client.c:208, "cleanup:", and main.c: a fetch frees what it has a pointer
\* to on each of its paths, and nothing twice, the typer frees the text however
\* typing ends, and main closes the sockets of a connect that got half way too.
THEOREM GivesBackHolds == Spec => []GivesBack
<1>1. IInv => GivesBack
  <2> SUFFICES ASSUME IInv PROVE GivesBack
    OBVIOUS
  <2>1. FetchIsTidy
    BY DEF IInv, FetchInv, Holdings, FetchIsTidy
  <2>2. pc \in {"off", "wait", "backoff", "ended"} => live \subseteq Stray
    BY DEF IInv, CallPlace, FetchInv, Holdings, Typing, Holding
  <2>3. pc \notin {"off", "ended"} => fd["intr"] = "up"
    BY TypistRuns
  <2>4. main = "exited" => fd = [s \in Socket |-> "none"]
    BY DEF IInv, Sockets
  <2> QED  BY <2>1, <2>2, <2>3, <2>4 DEF GivesBack
<1> QED  BY <1>1, Invariance, PTL

\* typer.c:66: between two keystrokes a key is down only if the last report
\* was lost, however the stop, the loss of the host and the failures fall.
THEOREM KeyDownOnlyIfLostHolds == Spec => []KeyDownOnlyIfLost
<1>1. IInv => KeyDownOnlyIfLost
  BY DEF IInv
<1> QED  BY <1>1, Invariance, PTL

-----------------------------------------------------------------------------
\* What each harmless step does to Shown and Remaining.
LEMMA QuietSteps ==
  ASSUME IInv,
         \/ Connecting \/ ConnectFailed \/ MainStep \/ Stop \/ HostGoes
         \/ Wake \/ StopSeen \/ BackoffOver \/ Fetching \/ NothingToType \/ LastChar
  PROVE  UNCHANGED <<Shown, Remaining>>
<1>1. CASE Connecting \/ ConnectFailed \/ Connected \/ StartNone \/ Joined \/ Destroy
  BY <1>1 DEF Connecting, ConnectFailed, Connected, StartNone, Joined, Destroy, typer, host,
     Shown, Remaining
<1>2. CASE Start \/ Stop \/ Disconnect \/ HostGoes
  BY <1>2 DEF Start, Stop, Disconnect, HostGoes, StartTyper, AllUp, Goto, host, Shown, Remaining
<1>3. CASE Wake \/ StopSeen \/ BackoffOver \/ Fetching
  BY <1>3 DEF Wake, StopSeen, BackoffOver, Fetching, Goto, host, Shown, Remaining
<1>4. CASE NothingToType
  BY <1>4 DEF NothingToType, Goto, host, Shown, Remaining
<1>5. CASE LastChar
  BY <1>5 DEF LastChar, TextDone, host, Shown, Remaining
<1> QED  BY <1>1, <1>2, <1>3, <1>4, <1>5 DEF MainStep

LEMMA TypeTextRefines ==
  ASSUME IInv, TypeText PROVE Session!Next
<1>1. /\ pc = "fetch" /\ pc' = "char" /\ stage = "returned" /\ "result" \in live
      /\ rest' = text /\ text # <<>> /\ doc' = doc
  BY DEF TypeText, Goto, host
<1>2. rest = <<>>
  BY <1>1 DEF IInv, TypeOK, TyperTypeOK, Typing, Holding
<1>3. text \in {Trimmed(a) : a \in Answers} \ {<<>>}
  BY <1>1 DEF IInv, FetchInv, TextTrimmed
<1>4. Remaining = <<>> /\ Remaining' = text /\ Shown = doc /\ Shown' = doc
  BY <1>1, <1>2 DEF Remaining, Shown
<1> QED  BY <1>3, <1>4 DEF Session!Next, Session!Begin

LEMMA StopBetweenRefines ==
  ASSUME IInv, StopBetween PROVE Session!Next
<1>1. /\ pc = "char" /\ pc' = "wait" /\ rest' = <<>> /\ doc' = doc /\ rest # <<>>
  BY DEF StopBetween, TextDone, host, IInv, TypeOK, TyperTypeOK, Typing
<1>2. Remaining = rest /\ Remaining' = <<>> /\ Shown = doc /\ Shown' = doc
  BY <1>1 DEF Remaining, Shown
<1> QED  BY <1>1, <1>2 DEF Session!Next, Session!GiveUp

LEMMA PressTypoRefines ==
  ASSUME IInv, UNCHANGED <<main, bt>>, PressTypo, Unharmed'
  PROVE  UNCHANGED <<Shown, Remaining>>
<1>1. pc = "char" /\ pc' = "typoHold" /\ rest' = rest /\ pc \in Typing
  BY DEF PressTypo, Goto, Typing
<1>2. PICK wrong \in Near[Head(rest)] : SendPress(wrong)
  BY DEF PressTypo
<1>3. wrong \in Char
  BY <1>1, <1>2, RestAtHand
<1>4. fd["intr"] = "up" /\ alive' = alive
  BY <1>1, TypistRuns DEF bt
<1>5. Unharmed /\ Press(wrong)
  BY <1>2, <1>3, <1>4, PressSent
<1>6. held = NoKey
  BY <1>1, <1>5 DEF IInv, Clean, Holding
<1>7. doc' = Append(doc, wrong)
  BY <1>3, <1>5, <1>6, KeyboardAssumption DEF Press, Edit
<1>8. Front(doc') = doc
  BY <1>3, <1>7, FrontOfAppend DEF IInv, TypeOK, TyperTypeOK
<1> QED  BY <1>1, <1>8 DEF Shown, Remaining

LEMMA PressBackspaceRefines ==
  ASSUME IInv, UNCHANGED <<main, bt>>, PressBackspace, Unharmed'
  PROVE  UNCHANGED <<Shown, Remaining>>
<1>1. pc = "typoGap" /\ pc' = "bsHold" /\ rest' = rest /\ SendPress(Backspace)
  BY DEF PressBackspace, Goto
<1>2. fd["intr"] = "up" /\ alive' = alive
  BY <1>1, TypistRuns DEF bt
<1>3. Unharmed /\ Press(Backspace)
  BY <1>1, <1>2, PressSent
<1>4. held = NoKey /\ doc # <<>>
  BY <1>1, <1>3 DEF IInv, Clean, Holding
<1>5. doc' = Front(doc)
  BY <1>3, <1>4, KeyboardAssumption DEF Press, Edit
<1> QED  BY <1>1, <1>5 DEF Shown, Remaining

LEMMA ReleaseRefines ==
  ASSUME ReleaseTypo \/ ReleaseBackspace \/ ReleaseChar
  PROVE  UNCHANGED <<Shown, Remaining>>
BY DEF ReleaseTypo, ReleaseBackspace, ReleaseChar, Release, SendRelease, AllUp, host, Goto,
   Shown, Remaining

LEMMA PressCharRefines ==
  ASSUME IInv, UNCHANGED <<main, bt>>, PressChar, Unharmed'
  PROVE  Session!Next
<1>1. /\ pc \in {"char", "bsGap"} /\ pc' = "hold" /\ rest' = rest /\ pc \in Typing
      /\ Head(rest) \in Mapped /\ SendPress(Head(rest))
  BY DEF PressChar, AtCharacter, Typing
<1>2. rest # <<>> /\ Head(rest) \in Char
  BY <1>1, RestAtHand
<1>3. fd["intr"] = "up" /\ alive' = alive
  BY <1>1, TypistRuns DEF bt
<1>4. Unharmed /\ Press(Head(rest))
  BY <1>1, <1>2, <1>3, PressSent
<1>5. held = NoKey
  BY <1>1, <1>4 DEF IInv, Clean, Holding
<1>6. doc' = Append(doc, Head(rest))
  BY <1>2, <1>4, <1>5, KeyboardAssumption DEF Press, Edit
<1>7. Shown = doc /\ Shown' = doc' /\ Remaining = rest /\ Remaining' = Tail(rest)
  BY <1>1 DEF Shown, Remaining
<1> QED  BY <1>1, <1>2, <1>6, <1>7 DEF Session!Next, Session!Type

LEMMA SkipNextRefines ==
  ASSUME IInv, SkipChar \/ NextChar PROVE [Session!Next]_<<Shown, Remaining>>
<1>1. CASE SkipChar
  <2>1. /\ pc \in {"char", "bsGap"} /\ pc' = "gap" /\ rest' = rest /\ doc' = doc
        /\ rest # <<>> /\ Head(rest) \notin Mapped
    BY <1>1 DEF SkipChar, AtCharacter, host, IInv, TypeOK, TyperTypeOK, Typing
  <2>2. Shown = doc /\ Shown' = doc /\ Remaining = rest /\ Remaining' = Tail(rest)
    BY <2>1 DEF Shown, Remaining
  <2> QED  BY <2>1, <2>2 DEF Session!Next, Session!Type
<1>2. CASE NextChar
  BY <1>2 DEF NextChar, host, Shown, Remaining
<1> QED  BY <1>1, <1>2

\* For as long as every report reaches the host, the C typer with its typos,
\* failing requests and stops implements TypingSession step by step.
THEOREM TypesTheTextHolds == Spec => TypesTheText
<1>1. IInv /\ [Next]_vars => [Unharmed' => Session!Next]_<<Shown, Remaining>>
  <2> SUFFICES ASSUME IInv, [Next]_vars, Unharmed'
               PROVE  [Session!Next]_<<Shown, Remaining>>
    OBVIOUS
  <2>1. CASE Typist
    BY <2>1, QuietSteps, TypeTextRefines, StopBetweenRefines, PressTypoRefines,
       PressBackspaceRefines, ReleaseRefines, PressCharRefines, SkipNextRefines
       DEF Typist, TyperStep
  <2>2. CASE UNCHANGED vars
    BY <2>2 DEF vars, typer, host, Shown, Remaining
  <2> QED  BY <2>1, <2>2, QuietSteps DEF Next
<1> QED  BY <1>1, Invariance, PTL DEF Spec, TypesTheText, Session!vars

-----------------------------------------------------------------------------
\* How far the document is from what was wanted.

LEMMA FrontIsShorter ==
  ASSUME NEW t \in Seq(Char), t # <<>>
  PROVE  /\ Len(t) \in Nat /\ DOMAIN t = 1 .. Len(t)
         /\ Len(Front(t)) = Len(t) - 1 /\ DOMAIN Front(t) = 1 .. Len(t) - 1
         /\ \A i \in 1 .. Len(t) - 1 : Front(t)[i] = t[i]
<1>1. Front(t) \in Seq(Char) /\ Last(t) \in Char /\ Append(Front(t), Last(t)) = t
  BY AppendOfFront
<1>2. Len(t) \in Nat /\ DOMAIN t = 1 .. Len(t) /\ Len(Front(t)) \in Nat
      /\ DOMAIN Front(t) = 1 .. Len(Front(t))
  BY <1>1, LenProperties
<1>3. Len(t) = Len(Front(t)) + 1 /\ \A i \in 1 .. Len(Front(t)) : t[i] = Front(t)[i]
  BY <1>1, AppendProperties
<1> QED  BY <1>2, <1>3

\* What is kept is finite, and no more than there is.
LEMMA KeptIsFinite ==
  ASSUME NEW s \in Seq(Char), NEW kept \in SUBSET DOMAIN s
  PROVE  /\ IsFiniteSet(kept) /\ Cardinality(kept) \in Nat
         /\ DOMAIN s = 1 .. Len(s) /\ Len(s) \in Nat
<1>1. DOMAIN s = 1 .. Len(s) /\ Len(s) \in Nat
  BY LenProperties
<1>2. IsFiniteSet(1 .. Len(s))
  BY <1>1, FS_Interval
<1>3. IsFiniteSet(kept)
  BY <1>1, <1>2, FS_Subset
<1> QED  BY <1>1, <1>3, FS_CardinalityType

LEMMA NoEdit ==
  ASSUME NEW s \in Seq(Char)
  PROVE  EditsAway(s, s, 0)
<1> DEFINE same == [i \in DOMAIN s |-> i]
<1>1. DOMAIN s = 1 .. Len(s) /\ Len(s) \in Nat
  BY LenProperties
<1>2. Cardinality(1 .. Len(s)) = Len(s)
  BY <1>1, FS_Interval
<1>3. same \in [DOMAIN s -> DOMAIN s] /\ Found(s, s, DOMAIN s, same)
  BY DEF Found
<1>4. (Len(s) - Cardinality(DOMAIN s)) + (Len(s) - Cardinality(DOMAIN s)) <= 0
  BY <1>1, <1>2
<1> QED  BY <1>3, <1>4 DEF EditsAway

LEMMA MoreEdits ==
  ASSUME NEW s \in Seq(Char), NEW t \in Seq(Char), NEW n \in Nat, EditsAway(s, t, n)
  PROVE  EditsAway(s, t, n + 1)
<1>1. PICK kept \in SUBSET DOMAIN s :
        /\ (Len(s) - Cardinality(kept)) + (Len(t) - Cardinality(kept)) <= n
        /\ \E where \in [kept -> DOMAIN t] : Found(s, t, kept, where)
  BY DEF EditsAway
<1>2. Cardinality(kept) \in Nat /\ Len(s) \in Nat /\ Len(t) \in Nat
  BY KeptIsFinite, LenProperties
<1>3. (Len(s) - Cardinality(kept)) + (Len(t) - Cardinality(kept)) <= n + 1
  BY <1>1, <1>2
<1> QED  BY <1>1, <1>3 DEF EditsAway

\* The same character at the end of both is no edit.
LEMMA AppendToBoth ==
  ASSUME NEW s \in Seq(Char), NEW t \in Seq(Char), NEW n \in Nat, EditsAway(s, t, n), NEW c \in Char
  PROVE  EditsAway(Append(s, c), Append(t, c), n)
<1>1. PICK kept \in SUBSET DOMAIN s :
        /\ (Len(s) - Cardinality(kept)) + (Len(t) - Cardinality(kept)) <= n
        /\ \E where \in [kept -> DOMAIN t] : Found(s, t, kept, where)
  BY DEF EditsAway
<1>2. PICK where \in [kept -> DOMAIN t] : Found(s, t, kept, where)
  BY <1>1
<1> DEFINE S == Append(s, c)
           T == Append(t, c)
           last == Len(s) + 1
           all == kept \cup {last}
           there == [i \in all |-> IF i = last THEN Len(t) + 1 ELSE where[i]]
<1>3. /\ Len(s) \in Nat /\ DOMAIN s = 1 .. Len(s) /\ Len(t) \in Nat /\ DOMAIN t = 1 .. Len(t)
      /\ S \in Seq(Char) /\ Len(S) = Len(s) + 1 /\ DOMAIN S = 1 .. Len(s) + 1
      /\ T \in Seq(Char) /\ Len(T) = Len(t) + 1 /\ DOMAIN T = 1 .. Len(t) + 1
      /\ \A i \in 1 .. Len(s) : S[i] = s[i]
      /\ \A i \in 1 .. Len(t) : T[i] = t[i]
      /\ S[Len(s) + 1] = c /\ T[Len(t) + 1] = c
  BY AppendProperties, LenProperties
<1>4. IsFiniteSet(kept) /\ Cardinality(kept) \in Nat /\ last \notin kept
  BY <1>3, KeptIsFinite
<1>5. Cardinality(all) = Cardinality(kept) + 1
  BY <1>4, FS_AddElement
<1> HIDE DEF S, T
<1>6. all \in SUBSET DOMAIN S /\ there \in [all -> DOMAIN T]
  BY <1>3
<1>7. Found(S, T, all, there)
  <2>1. \A i \in kept : /\ i \in 1 .. Len(s) /\ i # last /\ there[i] = where[i]
                        /\ where[i] \in 1 .. Len(t) /\ t[where[i]] = s[i]
    BY <1>2, <1>3, <1>4 DEF Found
  <2>2. there[last] = Len(t) + 1
    OBVIOUS
  <2> HIDE DEF there, last
  <2>3. \A i \in all : T[there[i]] = S[i]
    BY <1>3, <2>1, <2>2 DEF last
  <2>4. \A i, j \in all : i < j => there[i] < there[j]
    BY <1>2, <1>3, <2>1, <2>2 DEF last, Found
  <2> QED  BY <2>3, <2>4 DEF Found
<1>8. (Len(S) - Cardinality(all)) + (Len(T) - Cardinality(all)) <= n
  BY <1>1, <1>3, <1>4, <1>5
<1> HIDE DEF all, there
<1>9. EditsAway(S, T, n)
  BY <1>6, <1>7, <1>8 DEF EditsAway
<1> QED  BY <1>9 DEF S, T

\* A character that does not arrive is one.
LEMMA AppendToFirst ==
  ASSUME NEW s \in Seq(Char), NEW t \in Seq(Char), NEW n \in Nat, EditsAway(s, t, n), NEW c \in Char
  PROVE  EditsAway(Append(s, c), t, n + 1)
<1>1. PICK kept \in SUBSET DOMAIN s :
        /\ (Len(s) - Cardinality(kept)) + (Len(t) - Cardinality(kept)) <= n
        /\ \E where \in [kept -> DOMAIN t] : Found(s, t, kept, where)
  BY DEF EditsAway
<1>2. PICK where \in [kept -> DOMAIN t] : Found(s, t, kept, where)
  BY <1>1
<1> DEFINE S == Append(s, c)
<1>3. /\ Len(s) \in Nat /\ DOMAIN s = 1 .. Len(s) /\ Len(t) \in Nat
      /\ Len(S) = Len(s) + 1 /\ DOMAIN S = 1 .. Len(s) + 1
      /\ \A i \in 1 .. Len(s) : S[i] = s[i]
  BY AppendProperties, LenProperties
<1>4. Cardinality(kept) \in Nat
  BY KeptIsFinite
<1> HIDE DEF S
<1>5. kept \in SUBSET DOMAIN S /\ Found(S, t, kept, where)
  BY <1>2, <1>3 DEF Found
<1>6. (Len(S) - Cardinality(kept)) + (Len(t) - Cardinality(kept)) <= n + 1
  BY <1>1, <1>3, <1>4
<1>7. EditsAway(S, t, n + 1)
  BY <1>5, <1>6 DEF EditsAway
<1> QED  BY <1>7 DEF S

\* So is a typo that stays, ...
LEMMA EndStays ==
  ASSUME NEW s \in Seq(Char), NEW t \in Seq(Char), NEW n \in Nat, t # <<>>, EditsAway(s, Front(t), n)
  PROVE  EditsAway(s, t, n + 1)
<1> DEFINE F == Front(t)
<1>1. PICK kept \in SUBSET DOMAIN s :
        /\ (Len(s) - Cardinality(kept)) + (Len(F) - Cardinality(kept)) <= n
        /\ \E where \in [kept -> DOMAIN F] : Found(s, F, kept, where)
  BY DEF EditsAway
<1>2. PICK where \in [kept -> DOMAIN F] : Found(s, F, kept, where)
  BY <1>1
<1>3. /\ Len(t) \in Nat /\ DOMAIN t = 1 .. Len(t) /\ Len(F) = Len(t) - 1 /\ DOMAIN F = 1 .. Len(t) - 1
      /\ \A i \in 1 .. Len(t) - 1 : F[i] = t[i]
  BY FrontIsShorter
<1>4. Cardinality(kept) \in Nat /\ Len(s) \in Nat
  BY KeptIsFinite
<1> HIDE DEF F
<1>5. where \in [kept -> DOMAIN t] /\ Found(s, t, kept, where)
  <2>1. DOMAIN F \subseteq DOMAIN t /\ \A i \in DOMAIN F : F[i] = t[i]
    BY <1>3
  <2> QED  BY <1>2, <2>1 DEF Found
<1>6. (Len(s) - Cardinality(kept)) + (Len(t) - Cardinality(kept)) <= n + 1
  BY <1>1, <1>3, <1>4
<1> QED  BY <1>5, <1>6 DEF EditsAway

\* and a good character that is removed.
LEMMA EndGoes ==
  ASSUME NEW s \in Seq(Char), NEW t \in Seq(Char), NEW n \in Nat, t # <<>>, EditsAway(s, t, n)
  PROVE  EditsAway(s, Front(t), n + 1)
<1> DEFINE F == Front(t)
<1>1. PICK kept \in SUBSET DOMAIN s :
        /\ (Len(s) - Cardinality(kept)) + (Len(t) - Cardinality(kept)) <= n
        /\ \E where \in [kept -> DOMAIN t] : Found(s, t, kept, where)
  BY DEF EditsAway
<1>2. PICK where \in [kept -> DOMAIN t] : Found(s, t, kept, where)
  BY <1>1
<1>3. /\ Len(t) \in Nat /\ DOMAIN t = 1 .. Len(t) /\ Len(F) = Len(t) - 1 /\ DOMAIN F = 1 .. Len(t) - 1
      /\ \A i \in 1 .. Len(t) - 1 : F[i] = t[i]
  BY FrontIsShorter
<1>4. /\ IsFiniteSet(kept) /\ Cardinality(kept) \in Nat /\ Len(s) \in Nat
      /\ \A i \in kept : i \in Int
  BY KeptIsFinite
<1> HIDE DEF F
<1>5. CASE \A i \in kept : where[i] # Len(t)
  <2>1. where \in [kept -> DOMAIN F] /\ Found(s, F, kept, where)
    BY <1>2, <1>3, <1>5 DEF Found
  <2>2. (Len(s) - Cardinality(kept)) + (Len(F) - Cardinality(kept)) <= n + 1
    BY <1>1, <1>3, <1>4
  <2>3. EditsAway(s, F, n + 1)
    BY <2>1, <2>2 DEF EditsAway
  <2> QED  BY <2>3 DEF F
<1>6. CASE \E k \in kept : where[k] = Len(t)
  <2>1. PICK k \in kept : where[k] = Len(t)
    BY <1>6
  <2> DEFINE others == kept \ {k}
             there == [i \in others |-> where[i]]
  <2>2. Cardinality(others) = Cardinality(kept) - 1
    BY <1>4, <2>1, FS_RemoveElement
  <2>3. \A i \in others : where[i] \in 1 .. Len(t) - 1
    <3>1. ASSUME NEW i \in others PROVE where[i] # where[k]
      <4>1. i < k \/ k < i
        BY <1>4, <2>1
      <4> QED  BY <1>2, <1>3, <2>1, <4>1 DEF Found
    <3> QED  BY <1>2, <1>3, <2>1, <3>1
  <2>4. others \in SUBSET DOMAIN s /\ there \in [others -> DOMAIN F] /\ Found(s, F, others, there)
    BY <1>2, <1>3, <2>3 DEF Found
  <2>5. (Len(s) - Cardinality(others)) + (Len(F) - Cardinality(others)) <= n + 1
    BY <1>1, <1>3, <1>4, <2>2
  <2>6. EditsAway(s, F, n + 1)
    BY <2>4, <2>5 DEF EditsAway
  <2> QED  BY <2>6 DEF F
<1> QED  BY <1>5, <1>6

\* While the host is there and no release has failed: a typo to be corrected is
\* the last character, on top of what is faults edits away; or its press was
\* lost, and the correction will be the edit that stands for it.
Damage ==
  alive /\ ~slipped =>
    /\ pc \notin Holding => held = NoKey
    /\ pc \notin {"typoHold", "typoGap"} => EditsAway(wanted, doc, faults)
    /\ pc \in {"typoHold", "typoGap"} =>
         \/ doc # <<>> /\ EditsAway(wanted, Front(doc), faults)
         \/ faults > 0 /\ EditsAway(wanted, doc, faults - 1)

\* A press with all keys up is an edit, or counts as a fault.
LEMMA PressCounts ==
  ASSUME IInv, Damage, alive, ~slipped, held = NoKey, fd["intr"] = "up",
         NEW key \in Char \cup {Backspace}, SendPress(key)
  PROVE  /\ slipped' = slipped
         /\ \/ doc' = Edit(key) /\ faults' = faults
            \/ doc' = doc /\ faults' = faults + 1
<1>1. Up /\ key # NoKey
  BY KeyboardAssumption DEF Up
<1> QED  BY <1>1 DEF SendPress, Press, host

LEMMA PressTypoDamage ==
  ASSUME IInv, Damage, UNCHANGED bt, PressTypo PROVE Damage'
<1> SUFFICES ASSUME alive, ~slipped' PROVE Damage'
  BY DEF Damage, bt
<1>1. pc = "char" /\ pc' = "typoHold" /\ wanted' = wanted
  BY DEF PressTypo, Goto
<1>2. PICK wrong \in Near[Head(rest)] : SendPress(wrong)
  BY DEF PressTypo
<1>3. wrong \in Char /\ fd["intr"] = "up" /\ ~slipped
  BY <1>1, <1>2, RestAtHand, TypistRuns DEF Typing, SendPress
<1>4. held = NoKey /\ EditsAway(wanted, doc, faults)
  BY <1>1, <1>3 DEF Damage, Holding
<1>5. \/ doc' = Append(doc, wrong) /\ faults' = faults
      \/ doc' = doc /\ faults' = faults + 1
  BY <1>2, <1>3, <1>4, PressCounts, KeyboardAssumption DEF Edit
<1>6. doc \in Seq(Char) /\ faults \in Nat
  BY DEF IInv, TypeOK, TyperTypeOK
<1>7. CASE doc' = Append(doc, wrong) /\ faults' = faults
  <2>1. doc' # <<>> /\ Front(doc') = doc
    BY <1>3, <1>6, <1>7, FrontOfAppend
  <2> QED  BY <1>1, <1>4, <1>7, <2>1 DEF Damage, Holding
<1>8. CASE doc' = doc /\ faults' = faults + 1
  <2>1. faults' > 0 /\ faults' - 1 = faults
    BY <1>6, <1>8
  <2> QED  BY <1>1, <1>4, <1>8, <2>1 DEF Damage, Holding
<1> QED  BY <1>5, <1>7, <1>8

LEMMA PressBackspaceDamage ==
  ASSUME IInv, Damage, UNCHANGED bt, PressBackspace PROVE Damage'
<1> SUFFICES ASSUME alive, ~slipped' PROVE Damage'
  BY DEF Damage, bt
<1>1. pc = "typoGap" /\ pc' = "bsHold" /\ wanted' = wanted /\ SendPress(Backspace)
  BY DEF PressBackspace, Goto
<1>2. fd["intr"] = "up" /\ ~slipped
  BY <1>1, TypistRuns DEF SendPress
<1>3. /\ held = NoKey
      /\ \/ doc # <<>> /\ EditsAway(wanted, Front(doc), faults)
         \/ faults > 0 /\ EditsAway(wanted, doc, faults - 1)
  BY <1>1, <1>2 DEF Damage, Holding
<1>4. \/ /\ doc' = IF doc = <<>> THEN doc ELSE Front(doc)
         /\ faults' = faults
      \/ doc' = doc /\ faults' = faults + 1
  BY <1>1, <1>2, <1>3, PressCounts DEF Edit
<1>5. doc \in Seq(Char) /\ wanted \in Seq(Char) /\ faults \in Nat
  BY DEF IInv, TypeOK, TyperTypeOK
<1>6. EditsAway(wanted, doc', faults')
  <2>1. CASE doc # <<>> /\ EditsAway(wanted, Front(doc), faults)
    <3>1. EditsAway(wanted, doc, faults + 1)
      BY <1>5, <2>1, EndStays
    <3> QED  BY <1>4, <2>1, <3>1
  <2>2. CASE faults > 0 /\ EditsAway(wanted, doc, faults - 1)
    <3>1. faults - 1 \in Nat /\ (faults - 1) + 1 = faults
      BY <1>5, <2>2
    <3>2. EditsAway(wanted, doc, faults)
      BY <1>5, <2>2, <3>1, MoreEdits
    <3>3. EditsAway(wanted, doc, faults + 1)
      BY <1>5, <3>2, MoreEdits
    <3>4. doc # <<>> => EditsAway(wanted, Front(doc), faults)
      BY <1>5, <2>2, <3>1, EndGoes
    <3> QED  BY <1>4, <3>2, <3>3, <3>4
  <2> QED  BY <1>3, <2>1, <2>2
<1> QED  BY <1>1, <1>6 DEF Damage, Holding

LEMMA PressCharDamage ==
  ASSUME IInv, Damage, UNCHANGED bt, PressChar PROVE Damage'
<1> SUFFICES ASSUME alive, ~slipped' PROVE Damage'
  BY DEF Damage, bt
<1>1. /\ pc \in {"char", "bsGap"} /\ pc' = "hold" /\ SendPress(Head(rest))
      /\ wanted' = Append(wanted, Head(rest))
  BY DEF PressChar, AtCharacter
<1>2. Head(rest) \in Char /\ fd["intr"] = "up" /\ ~slipped
  BY <1>1, RestAtHand, TypistRuns DEF Typing, SendPress
<1>3. held = NoKey /\ EditsAway(wanted, doc, faults)
  BY <1>1, <1>2 DEF Damage, Holding
<1>4. \/ doc' = Append(doc, Head(rest)) /\ faults' = faults
      \/ doc' = doc /\ faults' = faults + 1
  BY <1>1, <1>2, <1>3, PressCounts, KeyboardAssumption DEF Edit
<1>5. doc \in Seq(Char) /\ wanted \in Seq(Char) /\ faults \in Nat
  BY DEF IInv, TypeOK, TyperTypeOK
<1>6. EditsAway(wanted', doc', faults')
  BY <1>1, <1>2, <1>3, <1>4, <1>5, AppendToBoth, AppendToFirst
<1> QED  BY <1>1, <1>6 DEF Damage, Holding

LEMMA ReleaseDamage ==
  ASSUME IInv, Damage, UNCHANGED bt, ReleaseTypo \/ ReleaseBackspace \/ ReleaseChar
  PROVE  Damage'
<1> SUFFICES ASSUME alive, ~slipped' PROVE Damage'
  BY DEF Damage, bt
<1>1. /\ SendRelease /\ wanted' = wanted
      /\ \/ pc = "typoHold" /\ pc' = "typoGap"
         \/ pc = "bsHold" /\ pc' = "bsGap"
         \/ pc = "hold" /\ pc' = "gap"
  BY DEF ReleaseTypo, ReleaseBackspace, ReleaseChar, Release, Goto
<1>2. Up
  BY <1>1, TypistRuns DEF Up
<1>3. ~slipped /\ doc' = doc /\ faults' = faults /\ held' = NoKey
  BY <1>1, <1>2 DEF SendRelease, AllUp
<1> QED  BY <1>1, <1>3 DEF Damage, Holding

\* Every other step leaves the document as it is.
LEMMA QuietDamage ==
  ASSUME IInv, Damage,
         \/ Connecting \/ ConnectFailed \/ MainStep \/ Stop \/ HostGoes
         \/ /\ UNCHANGED bt
            /\ \/ Wake \/ StopSeen \/ BackoffOver \/ Fetching \/ TypeText \/ NothingToType
               \/ SkipChar \/ NextChar \/ LastChar \/ StopBetween
         \/ UNCHANGED vars
  PROVE  Damage'
<1>1. UNCHANGED <<wanted, faults, slipped, doc>>
  BY DEF MainStep, Connecting, ConnectFailed, Connected, Start, StartNone, Joined, Destroy,
     Disconnect, Stop, HostGoes, StartTyper, AllUp, Wake, StopSeen, BackoffOver, Fetching,
     TypeText, NothingToType, SkipChar, NextChar, LastChar, StopBetween, TextDone, typer, vars,
     history, host
<1>2. held' \in {held, NoKey} /\ (alive' => alive)
  BY DEF MainStep, Connecting, ConnectFailed, Connected, Start, StartNone, Joined, Destroy,
     Disconnect, Stop, HostGoes, StartTyper, AllUp, Wake, StopSeen, BackoffOver, Fetching,
     TypeText, NothingToType, SkipChar, NextChar, LastChar, StopBetween, TextDone, typer, vars,
     host, PeerGoes, CloseSockets, OpenSocket, ConnectSocket, BindSocket, AcceptSocket,
     SystemCall, ConnectFails, bt
<1>3. \/ pc' = pc
      \/ pc \notin Holding \cup {"typoGap"} /\ pc' \notin {"typoHold", "typoGap"}
  BY DEF MainStep, Connecting, ConnectFailed, Connected, Start, StartNone, Joined, Destroy,
     Disconnect, Stop, HostGoes, StartTyper, Wake, StopSeen, BackoffOver, Fetching,
     TypeText, NothingToType, SkipChar, NextChar, LastChar, StopBetween, TextDone, typer, vars,
     AtCharacter, Goto, Holding
<1> QED  BY <1>1, <1>2, <1>3 DEF Damage, Holding

\* typer.c:66: a press that fails costs the document one character at most, and
\* nothing else does: with the host there and no release lost, the document is
\* as many edits away from the text as presses have failed, typos included.
THEOREM DamageBoundedHolds == Spec => []DamageBounded
<1>1. Init => Damage
  <2> SUFFICES ASSUME Init PROVE Damage
    OBVIOUS
  <2>1. pc = "off" /\ held = NoKey /\ wanted = doc /\ faults = 0 /\ doc \in Seq(Char)
    BY CTyperAssumption DEF Init, TyperInit
  <2>2. EditsAway(wanted, doc, faults)
    BY <2>1, NoEdit
  <2> QED  BY <2>1, <2>2 DEF Damage
<1>2. IInv /\ Damage /\ [Next]_vars => Damage'
  <2> SUFFICES ASSUME IInv, Damage, [Next]_vars PROVE Damage'
    OBVIOUS
  <2>1. CASE Typist
    BY <2>1, QuietDamage, PressTypoDamage, PressBackspaceDamage, PressCharDamage, ReleaseDamage
       DEF Typist, TyperStep
  <2> QED  BY <2>1, QuietDamage DEF Next
<1>3. Damage => DamageBounded
  BY DEF Damage, DamageBounded, Between
<1> QED  BY <1>1, <1>2, <1>3, Invariance, PTL DEF Spec
=============================================================================
