---------------------------- MODULE CRuntimeProofs ----------------------------
(***************************************************************************)
(* What the C daemon reads before it starts and how it ends.               *)
(*                                                                         *)
(* The workers.  When one signal at most ends the daemon, and comes while  *)
(* main sleeps in its loop (Calm): a worker's struct is freed and the      *)
(* transport closed only once its thread is gone (TornDownInOrder), and    *)
(* nobody joins what is no thread (NoStrayJoin), in each of the modes and  *)
(* wherever the worker is when the signal comes.  Main then runs the one   *)
(* handler, on top of its loop.  So where main is in its code, and in the  *)
(* handler's, says how far each worker has come: whether it is created,    *)
(* armed, running, being stopped, ended and freed (State).  What the       *)
(* worker does by itself, at any time, does not take it out of that.       *)
(*                                                                         *)
(* The configuration.  parse_config reads a document of forms it knows as  *)
(* it is written (ReadAsWritten).  It has no stack, but the place of the   *)
(* next event in the document says what its two variables are (InStep);    *)
(* and as no key comes twice, the array of the prompts is emptied at the   *)
(* beginning of their sequence and at no other time (ResetOnce).           *)
(***************************************************************************)
EXTENDS CWorkers, CConfig, SequenceTheorems, TLAPS

-----------------------------------------------------------------------------
\* The workers.

\* Where the parts of main's code are, and of the handler's.
Both == Worker = {"jiggler", "typer"}
Second(w) == Both /\ w = "typer"

StartOf(w) == IF Second(w) THEN 7 ELSE 1
LoopAt == IF Both THEN 16 ELSE 10
StopOf(w) == LoopAt + 1 + (IF Second(w) THEN 4 ELSE 0)
CloseAt == IF Both THEN 25 ELSE 15
ExitAt == CloseAt + 3
HandlerStop(w) == IF Second(w) THEN 7 ELSE 4
HandlerEnd == IF Both THEN 10 ELSE 7

\* The stack of main at the place i, and at the place j of a handler if j # 0.
\* No other thread runs a handler.
Frames(i, j, s) ==
  LET base == [sig |-> "none", code |-> SubSeq(MainCode, i, ExitAt)] IN
  IF j = 0 THEN <<base>>
  ELSE <<base, [sig |-> s, code |-> SubSeq(HandlerCode, j, HandlerEnd - 1)]>>

Stacked(i, j, s) ==
  stack = [th \in Thread |-> IF th = "main" THEN Frames(i, j, s) ELSE <<>>]

Place(i, j) ==
  /\ \E s \in Sigs \cup {"none"} : Stacked(i, j, s)
  /\ process \in {"up", "exited"}
  /\ j # 0 => i = LoopAt
  /\ j # 0 \/ ~g_running => signals = 1 /\ pending = {}
  /\ pending # {} => signals = 1 /\ i = LoopAt /\ \E s \in Sigs : pending = {s}
  /\ signals \in 0 .. 1
  /\ open <=> i <= CloseAt
  /\ created = {w \in Worker : i > StartOf(w)}
  /\ freed = {w \in Worker : i > StopOf(w) + 3}

\* The worker's flag is about to be cleared, and its thread to be joined.
Clearing(w, i, j) == i = StopOf(w) + 1 \/ j = HandlerStop(w) + 1
Joining(w, i, j) == i = StopOf(w) + 2 \/ j = HandlerStop(w) + 2

State(w, i, j) ==
  /\ i <= StartOf(w) + 1 => ~running[w]
  /\ i <= StartOf(w) + 5 => thr[w] = "none"
  /\ i = StartOf(w) + 2 \/ Clearing(w, i, j) => running[w]
  /\ i > StartOf(w) + 5 => IF running[w] THEN thr[w] \in Alive \ {"stopping"}
                           ELSE Gone(w) \/ Joining(w, i, j)
  /\ Joining(w, i, j) => ~running[w] /\ thr[w] # "none"
  /\ i > StopOf(w) + 2 => ~running[w]
  /\ joiner[w] \in {"nobody", "main"}

Types ==
  /\ running \in [Worker -> BOOLEAN]
  /\ thr \in [Worker -> Alive \cup {"none", "ended"}]
  /\ joiner \in [Worker -> Thread \cup {"nobody"}]

Steady(i, j) == Types /\ Place(i, j) /\ \A w \in Worker : State(w, i, j)

IInv ==
  /\ signals \in Nat /\ outside \in BOOLEAN
  /\ Calm => \E i \in 1 .. ExitAt, j \in 0 .. HandlerEnd : Steady(i, j)
-----------------------------------------------------------------------------
\* The code.

Instruction == [op : {"lock", "unlock", "quit", "test", "clear", "join", "create", "arm", "spawn",
                      "disarm", "api", "loop", "free", "disconnect", "exit"}, of : Thread]

\* Its parts do not overlap, and follow each other.
LEMMA Layout ==
  /\ LoopAt \in Nat /\ CloseAt \in Nat /\ ExitAt = CloseAt + 3 /\ HandlerEnd \in Nat
  /\ LoopAt >= 10 /\ CloseAt >= LoopAt + 5 /\ HandlerEnd >= 7
  /\ \A w \in Worker :
       /\ StartOf(w) \in Nat /\ StopOf(w) \in Nat /\ HandlerStop(w) \in Nat
       /\ 1 <= StartOf(w) /\ StartOf(w) + 9 <= LoopAt
       /\ LoopAt + 1 <= StopOf(w) /\ StopOf(w) + 4 <= CloseAt
       /\ 4 <= HandlerStop(w) /\ HandlerStop(w) + 3 <= HandlerEnd
  /\ \A w, v \in Worker :
       w # v => /\ StartOf(w) + 6 <= StartOf(v) \/ StartOf(v) + 6 <= StartOf(w)
                /\ StopOf(w) + 4 <= StopOf(v) \/ StopOf(v) + 4 <= StopOf(w)
                /\ HandlerStop(w) + 3 <= HandlerStop(v) \/ HandlerStop(v) + 3 <= HandlerStop(w)
  /\ "main" \notin Worker
<1> USE WorkersAssumption DEF LoopAt, CloseAt, ExitAt, HandlerEnd, StartOf, StopOf, HandlerStop, Second, Both
<1>1. CASE Worker = {"jiggler"}
  BY <1>1
<1>2. CASE Worker = {"typer"}
  BY <1>2
<1>3. CASE Worker = {"jiggler", "typer"}
  BY <1>3
<1> QED  BY <1>1, <1>2, <1>3

\* What main's code says of one worker.
LEMMA CodeParts ==
  \A w \in {"jiggler", "typer"} :
    /\ w \in Worker => StartCode(w) \in Seq(Instruction) /\ CleanupCode(w) \in Seq(Instruction)
    /\ Len(StartCode(w)) = 6 /\ Len(CleanupCode(w)) = 4
    /\ StartCode(w)[1] = Instr("create", w) /\ StartCode(w)[2] = Instr("arm", w)
    /\ StartCode(w)[3] = Instr("spawn", w) /\ StartCode(w)[4] = Instr("lock", "main")
    /\ StartCode(w)[5] = Instr("unlock", "main") /\ StartCode(w)[6] = Instr("disarm", w)
    /\ CleanupCode(w)[1] = Instr("test", w) /\ CleanupCode(w)[2] = Instr("clear", w)
    /\ CleanupCode(w)[3] = Instr("join", w) /\ CleanupCode(w)[4] = Instr("free", w)
    /\ StartCode(w) \o <<>> = StartCode(w) /\ <<>> \o StartCode(w) = StartCode(w)
    /\ CleanupCode(w) \o <<>> = CleanupCode(w) /\ <<>> \o CleanupCode(w) = CleanupCode(w)
<1> TAKE w \in {"jiggler", "typer"}
<1>1. PICK start : start = StartCode(w)
  OBVIOUS
<1>2. start = <<Instr("create", w), Instr("arm", w), Instr("spawn", w)>>
              \o <<Instr("lock", "main"), Instr("unlock", "main")>> \o <<Instr("disarm", w)>>
  BY <1>1, Zenon DEF StartCode, PrintCode
<1>3. /\ Len(start) = 6 /\ start[1] = Instr("create", w) /\ start[2] = Instr("arm", w)
      /\ start[3] = Instr("spawn", w) /\ start[4] = Instr("lock", "main")
      /\ start[5] = Instr("unlock", "main") /\ start[6] = Instr("disarm", w)
  BY <1>2
<1>4. w \in Worker => start \in Seq(Instruction)
  BY <1>2 DEF Instruction, Instr, Thread
<1>5. start \o <<>> = start /\ <<>> \o start = start
  BY <1>2
<1>6. PICK stop : stop = CleanupCode(w)
  OBVIOUS
<1>7. stop = <<Instr("test", w), Instr("clear", w), Instr("join", w)>> \o <<Instr("free", w)>>
  BY <1>6, Zenon DEF CleanupCode, Stop
<1>8. /\ Len(stop) = 4 /\ stop[1] = Instr("test", w) /\ stop[2] = Instr("clear", w)
      /\ stop[3] = Instr("join", w) /\ stop[4] = Instr("free", w)
  BY <1>7
<1>9. w \in Worker => stop \in Seq(Instruction)
  BY <1>7 DEF Instruction, Instr, Thread
<1>10. stop \o <<>> = stop /\ <<>> \o stop = stop
  BY <1>7
<1> QED  BY <1>1, <1>3, <1>4, <1>5, <1>6, <1>8, <1>9, <1>10

\* Main's code, put together from its parts.
Assembled(start, stop, code) ==
  code = start
         \o <<Instr("lock", "main"), Instr("unlock", "main")>>
         \o <<Instr("api", "main"), Instr("loop", "main")>>
         \o stop
         \o <<Instr("disconnect", "main")>>
         \o <<Instr("lock", "main"), Instr("unlock", "main")>>
         \o <<Instr("exit", "main")>>

\* What is at its places, n of them before the API and m before the end.
LaidOut(start, stop, code, n, m) ==
  /\ code \in Seq(Instruction) /\ Len(code) = m + 4
  /\ \A i \in 1 .. n : code[i] = start[i]
  /\ code[n + 1] = Instr("lock", "main") /\ code[n + 2] = Instr("unlock", "main")
  /\ code[n + 3] = Instr("api", "main") /\ code[n + 4] = Instr("loop", "main")
  /\ \A i \in 1 .. Len(stop) : code[i + n + 4] = stop[i]
  /\ code[m + 1] = Instr("disconnect", "main") /\ code[m + 2] = Instr("lock", "main")
  /\ code[m + 3] = Instr("unlock", "main") /\ code[m + 4] = Instr("exit", "main")

\* c is a and b one after the other, both of length n.
JoinOf(S, a, b, c, n) ==
  /\ c \in Seq(S) /\ Len(c) = n + n
  /\ \A i \in 1 .. n : c[i] = a[i] /\ c[i + n] = b[i]

LEMMA JoinIs ==
  ASSUME NEW S, NEW a \in Seq(S), NEW b \in Seq(S), NEW c, c = a \o b, NEW n \in Nat,
         Len(a) = n, Len(b) = n
  PROVE  JoinOf(S, a, b, c, n)
<1>1. c \in Seq(S) /\ Len(c) = n + n
  BY ConcatProperties
<1>2. ASSUME NEW i \in 1 .. n PROVE c[i] = a[i] /\ c[i + n] = b[i]
  <2>1. \A k \in 1 .. n + n : c[k] = IF k <= n THEN a[k] ELSE b[k - n]
    BY ConcatProperties
  <2>2. i \in 1 .. n + n /\ i + n \in 1 .. n + n /\ i <= n /\ ~(i + n <= n) /\ (i + n) - n = i
    OBVIOUS
  <2>3. c[i] = a[i]
    BY <2>1, <2>2
  <2>4. c[i + n] = b[(i + n) - n]
    BY <2>1, <2>2
  <2> QED  BY <2>2, <2>3, <2>4
<1> QED  BY <1>1, <1>2 DEF JoinOf

LEMMA Assembly ==
  ASSUME NEW start \in Seq(Instruction), NEW stop \in Seq(Instruction), NEW code,
         Assembled(start, stop, code),
         NEW n, n = Len(start), NEW m, m = n + 4 + Len(stop)
  PROVE  LaidOut(start, stop, code, n, m)
<1>1. PICK lock \in Instruction, unlock \in Instruction, api \in Instruction, loop \in Instruction,
           disconnect \in Instruction, exit \in Instruction :
        /\ lock = Instr("lock", "main") /\ unlock = Instr("unlock", "main")
        /\ api = Instr("api", "main") /\ loop = Instr("loop", "main")
        /\ disconnect = Instr("disconnect", "main") /\ exit = Instr("exit", "main")
  BY DEF Instr, Instruction, Thread
<1>2. PICK c1, c2, c3, c4, c5 :
        /\ c1 = start \o <<lock, unlock>> /\ c2 = c1 \o <<api, loop>> /\ c3 = c2 \o stop
        /\ c4 = c3 \o <<disconnect>> /\ c5 = c4 \o <<lock, unlock>>
  OBVIOUS
<1>3. code = c5 \o <<exit>>
  BY <1>1, <1>2, Zenon DEF Assembled
<1>4. n \in Nat /\ m \in Nat /\ m >= n + 4 /\ m = n + 4 + Len(stop)
  OBVIOUS
<1>5. /\ c1 \in Seq(Instruction) /\ Len(c1) = n + 2
      /\ \A i \in 1 .. n : c1[i] = start[i]
      /\ c1[n + 1] = lock /\ c1[n + 2] = unlock
  BY <1>2
<1>6. /\ c2 \in Seq(Instruction) /\ Len(c2) = n + 4
      /\ \A i \in 1 .. n + 2 : c2[i] = c1[i]
      /\ c2[n + 3] = api /\ c2[n + 4] = loop
  BY <1>2, <1>4, <1>5
<1>7. /\ c3 \in Seq(Instruction) /\ Len(c3) = m
      /\ \A i \in 1 .. n + 4 : c3[i] = c2[i]
      /\ \A i \in 1 .. Len(stop) : c3[i + n + 4] = stop[i]
  BY <1>2, <1>4, <1>6
<1>8. /\ c4 \in Seq(Instruction) /\ Len(c4) = m + 1
      /\ \A i \in 1 .. m : c4[i] = c3[i]
      /\ c4[m + 1] = disconnect
  BY <1>2, <1>4, <1>7
<1>9. /\ c5 \in Seq(Instruction) /\ Len(c5) = m + 3
      /\ \A i \in 1 .. m + 1 : c5[i] = c4[i]
      /\ c5[m + 2] = lock /\ c5[m + 3] = unlock
  BY <1>2, <1>4, <1>8
<1>10. /\ code \in Seq(Instruction) /\ Len(code) = m + 4
       /\ \A i \in 1 .. m + 3 : code[i] = c5[i]
       /\ code[m + 4] = exit
  <2>1. code = Append(c5, exit)
    BY <1>3, <1>9
  <2>2. PICK k \in Nat : k = m + 3
    BY <1>4
  <2>3. Len(c5) = k /\ Len(code) = k + 1 /\ code \in Seq(Instruction)
        /\ (\A i \in 1 .. k : code[i] = c5[i]) /\ code[k + 1] = exit
    <3>1. c5 \in Seq(Instruction) /\ Len(c5) = k
      BY <1>9, <2>2
    <3> QED  BY <2>1, <3>1
  <2>4. k + 1 = m + 4
    BY <1>4, <2>2
  <2> QED  BY <2>2, <2>3, <2>4
<1>11. \A i \in 1 .. m : code[i] = c3[i]
  <2> TAKE i \in 1 .. m
  <2>1. i \in 1 .. m + 1 /\ i \in 1 .. m + 3
    BY <1>4
  <2>2. code[i] = c5[i] /\ c5[i] = c4[i] /\ c4[i] = c3[i]
    BY <1>8, <1>9, <1>10, <2>1
  <2> QED  BY <2>2
<1>12. \A i \in 1 .. n + 2 : code[i] = c1[i]
  BY <1>4, <1>6, <1>7, <1>11
<1>13. \A i \in 1 .. n : code[i] = start[i]
  BY <1>4, <1>5, <1>12
<1>14. code[n + 1] = lock /\ code[n + 2] = unlock
  BY <1>4, <1>5, <1>12
<1>15. code[n + 3] = api /\ code[n + 4] = loop
  <2>1. n + 3 \in 1 .. n + 4 /\ n + 4 \in 1 .. n + 4 /\ n + 3 \in 1 .. m /\ n + 4 \in 1 .. m
    BY <1>4
  <2> QED  BY <1>6, <1>7, <1>11, <2>1
<1>16. \A i \in 1 .. Len(stop) : code[i + n + 4] = stop[i]
  <2> TAKE i \in 1 .. Len(stop)
  <2>1. i + n + 4 \in 1 .. m
    BY <1>4
  <2> QED  BY <1>7, <1>11, <2>1
<1>17. code[m + 1] = disconnect /\ code[m + 2] = lock /\ code[m + 3] = unlock
  <2>1. /\ m + 1 \in 1 .. m + 1 /\ m + 1 \in 1 .. m + 3
        /\ m + 2 \in 1 .. m + 3 /\ m + 3 \in 1 .. m + 3
    BY <1>4
  <2> QED  BY <1>8, <1>9, <1>10, <2>1
<1> QED  BY <1>1, <1>10, <1>13, <1>14, <1>15, <1>16, <1>17 DEF LaidOut

LEMMA MainCodeIs ==
  /\ MainCode \in Seq(Instruction) /\ Len(MainCode) = ExitAt
  /\ \A w \in Worker :
       /\ MainCode[StartOf(w)] = Instr("create", w)
       /\ MainCode[StartOf(w) + 1] = Instr("arm", w)
       /\ MainCode[StartOf(w) + 2] = Instr("spawn", w)
       /\ MainCode[StartOf(w) + 3] = Instr("lock", "main")
       /\ MainCode[StartOf(w) + 4] = Instr("unlock", "main")
       /\ MainCode[StartOf(w) + 5] = Instr("disarm", w)
       /\ MainCode[StopOf(w)] = Instr("test", w)
       /\ MainCode[StopOf(w) + 1] = Instr("clear", w)
       /\ MainCode[StopOf(w) + 2] = Instr("join", w)
       /\ MainCode[StopOf(w) + 3] = Instr("free", w)
  /\ MainCode[LoopAt - 3] = Instr("lock", "main") /\ MainCode[LoopAt - 2] = Instr("unlock", "main")
  /\ MainCode[LoopAt - 1] = Instr("api", "main") /\ MainCode[LoopAt] = Instr("loop", "main")
  /\ MainCode[CloseAt] = Instr("disconnect", "main") /\ MainCode[CloseAt + 1] = Instr("lock", "main")
  /\ MainCode[CloseAt + 2] = Instr("unlock", "main") /\ MainCode[ExitAt] = Instr("exit", "main")
  /\ \A i \in 1 .. ExitAt :
       \/ i \in LoopAt - 3 .. LoopAt \/ i \in CloseAt .. ExitAt
       \/ \E w \in Worker : i \in StartOf(w) .. StartOf(w) + 5 \/ i \in StopOf(w) .. StopOf(w) + 3
<1>1. CASE \E v \in {"jiggler", "typer"} : Worker = {v}
  <2>0. PICK v \in {"jiggler", "typer"} : Worker = {v}
    BY <1>1
  <2>1. /\ InTurn(StartCode) = StartCode(v)
        /\ InTurn(CleanupCode) = CleanupCode(v)
    <3>1. CASE v = "jiggler"
      BY <2>0, <3>1, CodeParts DEF InTurn
    <3>2. CASE v = "typer"
      BY <2>0, <3>2, CodeParts DEF InTurn
    <3> QED  BY <3>1, <3>2
  <2>2. PICK start, stop : start = StartCode(v) /\ stop = CleanupCode(v)
    OBVIOUS
  <2>3. PICK code : code = MainCode
    OBVIOUS
  <2>4. code = start
               \o <<Instr("lock", "main"), Instr("unlock", "main")>>
               \o <<Instr("api", "main"), Instr("loop", "main")>>
               \o stop
               \o <<Instr("disconnect", "main")>>
               \o <<Instr("lock", "main"), Instr("unlock", "main")>>
               \o <<Instr("exit", "main")>>
    BY <2>1, <2>2, <2>3, Zenon DEF MainCode, PrintCode
  <2>5. /\ start \in Seq(Instruction) /\ Len(start) = 6
        /\ stop \in Seq(Instruction) /\ Len(stop) = 4
        /\ start[1] = Instr("create", v) /\ start[2] = Instr("arm", v) /\ start[3] = Instr("spawn", v)
        /\ start[4] = Instr("lock", "main") /\ start[5] = Instr("unlock", "main")
        /\ start[6] = Instr("disarm", v)
        /\ stop[1] = Instr("test", v) /\ stop[2] = Instr("clear", v)
        /\ stop[3] = Instr("join", v) /\ stop[4] = Instr("free", v)
    BY <2>0, <2>2, CodeParts
  <2>7. /\ code \in Seq(Instruction) /\ Len(code) = 18
        /\ \A i \in 1 .. 6 : code[i] = start[i]
        /\ code[7] = Instr("lock", "main") /\ code[8] = Instr("unlock", "main")
        /\ code[9] = Instr("api", "main") /\ code[10] = Instr("loop", "main")
        /\ \A i \in 1 .. 4 : code[i + 10] = stop[i]
        /\ code[15] = Instr("disconnect", "main") /\ code[16] = Instr("lock", "main")
        /\ code[17] = Instr("unlock", "main") /\ code[18] = Instr("exit", "main")
    <3>1. Assembled(start, stop, code)
      BY <2>4 DEF Assembled
    <3>2. PICK n \in Nat, m \in Nat : n = 6 /\ m = 14
      OBVIOUS
    <3>3. LaidOut(start, stop, code, n, m)
      <4>1. n = Len(start) /\ m = n + 4 + Len(stop)
        BY <2>5, <3>2
      <4> QED  BY <2>5, <3>1, <4>1, Assembly
    <3>4. \A i \in 1 .. 4 : i + 6 + 4 = i + 10
      OBVIOUS
    <3> QED  BY <2>5, <3>2, <3>3, <3>4 DEF LaidOut
  <2>8. LoopAt = 10 /\ CloseAt = 15 /\ ExitAt = 18 /\ StartOf(v) = 1 /\ StopOf(v) = 11
    BY <2>0 DEF LoopAt, CloseAt, ExitAt, StartOf, StopOf, Second, Both
  <2>9. \A i \in 1 .. 18 :
          i \in 10 - 3 .. 10 \/ i \in 15 .. 18 \/ i \in 1 .. 1 + 5 \/ i \in 11 .. 11 + 3
    OBVIOUS
  <2>10. code[11] = stop[1] /\ code[12] = stop[2] /\ code[13] = stop[3] /\ code[14] = stop[4]
    BY <2>7
  <2> QED  BY <2>0, <2>3, <2>5, <2>7, <2>8, <2>9, <2>10
<1>2. CASE Worker = {"jiggler", "typer"}
  <2>1. /\ InTurn(StartCode) = StartCode("jiggler") \o StartCode("typer")
        /\ InTurn(CleanupCode) = CleanupCode("jiggler") \o CleanupCode("typer")
    BY <1>2 DEF InTurn
  <2>2. PICK start, start2, stop, stop2 :
          /\ start = StartCode("jiggler") /\ stop = CleanupCode("jiggler")
          /\ start2 = StartCode("typer") /\ stop2 = CleanupCode("typer")
    OBVIOUS
  <2>3. PICK code : code = MainCode
    OBVIOUS
  <2>4. code = (start \o start2)
               \o <<Instr("lock", "main"), Instr("unlock", "main")>>
               \o <<Instr("api", "main"), Instr("loop", "main")>>
               \o (stop \o stop2)
               \o <<Instr("disconnect", "main")>>
               \o <<Instr("lock", "main"), Instr("unlock", "main")>>
               \o <<Instr("exit", "main")>>
    BY <2>1, <2>2, <2>3, Zenon DEF MainCode, PrintCode
  <2>5. /\ start \in Seq(Instruction) /\ Len(start) = 6
        /\ stop \in Seq(Instruction) /\ Len(stop) = 4
        /\ start[1] = Instr("create", "jiggler") /\ start[2] = Instr("arm", "jiggler")
        /\ start[3] = Instr("spawn", "jiggler")
        /\ start[4] = Instr("lock", "main") /\ start[5] = Instr("unlock", "main")
        /\ start[6] = Instr("disarm", "jiggler")
        /\ stop[1] = Instr("test", "jiggler") /\ stop[2] = Instr("clear", "jiggler")
        /\ stop[3] = Instr("join", "jiggler") /\ stop[4] = Instr("free", "jiggler")
    BY <1>2, <2>2, CodeParts
  <2>6. /\ start2 \in Seq(Instruction) /\ Len(start2) = 6
        /\ stop2 \in Seq(Instruction) /\ Len(stop2) = 4
        /\ start2[1] = Instr("create", "typer") /\ start2[2] = Instr("arm", "typer")
        /\ start2[3] = Instr("spawn", "typer")
        /\ start2[4] = Instr("lock", "main") /\ start2[5] = Instr("unlock", "main")
        /\ start2[6] = Instr("disarm", "typer")
        /\ stop2[1] = Instr("test", "typer") /\ stop2[2] = Instr("clear", "typer")
        /\ stop2[3] = Instr("join", "typer") /\ stop2[4] = Instr("free", "typer")
    BY <1>2, <2>2, CodeParts
  <2>8. /\ code \in Seq(Instruction) /\ Len(code) = 28
        /\ \A i \in 1 .. 6 : code[i] = start[i]
        /\ \A i \in 1 .. 6 : code[i + 6] = start2[i]
        /\ code[13] = Instr("lock", "main") /\ code[14] = Instr("unlock", "main")
        /\ code[15] = Instr("api", "main") /\ code[16] = Instr("loop", "main")
        /\ \A i \in 1 .. 4 : code[i + 16] = stop[i]
        /\ \A i \in 1 .. 4 : code[i + 20] = stop2[i]
        /\ code[25] = Instr("disconnect", "main") /\ code[26] = Instr("lock", "main")
        /\ code[27] = Instr("unlock", "main") /\ code[28] = Instr("exit", "main")
    <3>1. PICK starts, stops : starts = start \o start2 /\ stops = stop \o stop2
      OBVIOUS
    <3>2. /\ starts \in Seq(Instruction) /\ Len(starts) = 12
          /\ \A i \in 1 .. 6 : starts[i] = start[i] /\ starts[i + 6] = start2[i]
      <4>1. start \in Seq(Instruction) /\ start2 \in Seq(Instruction) /\ Len(start) = 6 /\ Len(start2) = 6
        BY <2>5, <2>6
      <4>2. PICK n \in Nat : n = 6
        OBVIOUS
      <4>3. JoinOf(Instruction, start, start2, starts, n)
        BY <3>1, <4>1, <4>2, JoinIs
      <4> QED  BY <4>2, <4>3 DEF JoinOf
    <3>3. /\ stops \in Seq(Instruction) /\ Len(stops) = 8
          /\ \A i \in 1 .. 4 : stops[i] = stop[i] /\ stops[i + 4] = stop2[i]
      <4>1. stop \in Seq(Instruction) /\ stop2 \in Seq(Instruction) /\ Len(stop) = 4 /\ Len(stop2) = 4
        BY <2>5, <2>6
      <4>2. PICK n \in Nat : n = 4
        OBVIOUS
      <4>3. JoinOf(Instruction, stop, stop2, stops, n)
        BY <3>1, <4>1, <4>2, JoinIs
      <4> QED  BY <4>2, <4>3 DEF JoinOf
    <3>4. Assembled(starts, stops, code)
      BY <2>4, <3>1, Zenon DEF Assembled
    <3>5. /\ code \in Seq(Instruction) /\ Len(code) = 28
          /\ \A i \in 1 .. 12 : code[i] = starts[i]
          /\ code[13] = Instr("lock", "main") /\ code[14] = Instr("unlock", "main")
          /\ code[15] = Instr("api", "main") /\ code[16] = Instr("loop", "main")
          /\ \A i \in 1 .. 8 : code[i + 16] = stops[i]
          /\ code[25] = Instr("disconnect", "main") /\ code[26] = Instr("lock", "main")
          /\ code[27] = Instr("unlock", "main") /\ code[28] = Instr("exit", "main")
      <4>1. PICK n \in Nat, m \in Nat : n = 12 /\ m = 24
        OBVIOUS
      <4>2. LaidOut(starts, stops, code, n, m)
        <5>1. n = Len(starts) /\ m = n + 4 + Len(stops)
          BY <3>2, <3>3, <4>1
        <5> QED  BY <3>2, <3>3, <3>4, <5>1, Assembly
      <4>3. \A i \in 1 .. 8 : i + 12 + 4 = i + 16
        OBVIOUS
      <4> QED  BY <3>3, <4>1, <4>2, <4>3 DEF LaidOut
    <3>6. ASSUME NEW i \in 1 .. 6 PROVE code[i] = start[i] /\ code[i + 6] = start2[i]
      <4>1. i \in 1 .. 12 /\ i + 6 \in 1 .. 12
        OBVIOUS
      <4> QED  BY <3>2, <3>5, <4>1
    <3>7. ASSUME NEW i \in 1 .. 4 PROVE code[i + 16] = stop[i] /\ code[i + 20] = stop2[i]
      <4>1. i \in 1 .. 8 /\ i + 4 \in 1 .. 8 /\ (i + 4) + 16 = i + 20
        OBVIOUS
      <4> QED  BY <3>3, <3>5, <4>1
    <3> QED  BY <3>5, <3>6, <3>7
  <2>9. /\ code[7] = start2[1] /\ code[8] = start2[2] /\ code[9] = start2[3]
        /\ code[10] = start2[4] /\ code[11] = start2[5] /\ code[12] = start2[6]
        /\ code[17] = stop[1] /\ code[18] = stop[2] /\ code[19] = stop[3] /\ code[20] = stop[4]
        /\ code[21] = stop2[1] /\ code[22] = stop2[2] /\ code[23] = stop2[3] /\ code[24] = stop2[4]
    BY <2>8
  <2>10. /\ LoopAt = 16 /\ CloseAt = 25 /\ ExitAt = 28
         /\ StartOf("jiggler") = 1 /\ StopOf("jiggler") = 17
         /\ StartOf("typer") = 7 /\ StopOf("typer") = 21
    BY <1>2 DEF LoopAt, CloseAt, ExitAt, StartOf, StopOf, Second, Both
  <2>11. \A i \in 1 .. 28 :
          \/ i \in 16 - 3 .. 16 \/ i \in 25 .. 28 \/ i \in 1 .. 1 + 5 \/ i \in 17 .. 17 + 3
          \/ i \in 7 .. 7 + 5 \/ i \in 21 .. 21 + 3
    OBVIOUS
  <2>12. ASSUME NEW w \in Worker
         PROVE  /\ code[StartOf(w)] = Instr("create", w)
                /\ code[StartOf(w) + 1] = Instr("arm", w)
                /\ code[StartOf(w) + 2] = Instr("spawn", w)
                /\ code[StartOf(w) + 3] = Instr("lock", "main")
                /\ code[StartOf(w) + 4] = Instr("unlock", "main")
                /\ code[StartOf(w) + 5] = Instr("disarm", w)
                /\ code[StopOf(w)] = Instr("test", w)
                /\ code[StopOf(w) + 1] = Instr("clear", w)
                /\ code[StopOf(w) + 2] = Instr("join", w)
                /\ code[StopOf(w) + 3] = Instr("free", w)
    <3>1. CASE w = "jiggler"
      <4>1. \A i \in 1 .. 6 : code[i] = start[i]
        BY <2>8
      <4> QED  BY <2>5, <2>9, <2>10, <3>1, <4>1
    <3>2. CASE w = "typer"
      BY <2>6, <2>9, <2>10, <3>2
    <3> QED  BY <1>2, <3>1, <3>2
  <2>13. \A i \in 1 .. ExitAt :
           \/ i \in LoopAt - 3 .. LoopAt \/ i \in CloseAt .. ExitAt
           \/ \E w \in Worker : i \in StartOf(w) .. StartOf(w) + 5 \/ i \in StopOf(w) .. StopOf(w) + 3
    BY <1>2, <2>10, <2>11
  <2> QED  BY <2>3, <2>8, <2>10, <2>12, <2>13
<1> QED  BY WorkersAssumption, <1>1, <1>2

LEMMA HandlerCodeIs ==
  /\ HandlerCode \in Seq(Instruction) /\ Len(HandlerCode) = HandlerEnd - 1
  /\ HandlerCode[1] = Instr("lock", "main") /\ HandlerCode[2] = Instr("unlock", "main")
  /\ HandlerCode[3] = Instr("quit", "main")
  /\ \A w \in Worker :
       /\ HandlerCode[HandlerStop(w)] = Instr("test", w)
       /\ HandlerCode[HandlerStop(w) + 1] = Instr("clear", w)
       /\ HandlerCode[HandlerStop(w) + 2] = Instr("join", w)
  /\ \A j \in 4 .. HandlerEnd - 1 : \E w \in Worker : j \in HandlerStop(w) .. HandlerStop(w) + 2
<1>1. CASE \E v \in {"jiggler", "typer"} : Worker = {v}
  <2>0. PICK v \in {"jiggler", "typer"} : Worker = {v}
    BY <1>1
  <2>1. InTurn(Stop) = Stop(v)
    <3>1. CASE v = "jiggler"
      BY <2>0, <3>1 DEF InTurn, Stop
    <3>2. CASE v = "typer"
      BY <2>0, <3>2 DEF InTurn, Stop
    <3> QED  BY <3>1, <3>2
  <2>2. PICK code : code = HandlerCode
    OBVIOUS
  <2>3. code = <<Instr("lock", "main"), Instr("unlock", "main")>> \o <<Instr("quit", "main")>> \o Stop(v)
    BY <2>1, <2>2, Zenon DEF HandlerCode, PrintCode
  <2>4. /\ Len(code) = 6 /\ code[1] = Instr("lock", "main")
        /\ code[2] = Instr("unlock", "main") /\ code[3] = Instr("quit", "main")
        /\ code[4] = Instr("test", v) /\ code[5] = Instr("clear", v)
        /\ code[6] = Instr("join", v)
    BY <2>3 DEF Stop
  <2>5. code \in Seq(Instruction)
    BY <2>0, <2>3 DEF Stop, Instruction, Instr, Thread
  <2>6. HandlerEnd = 7 /\ HandlerStop(v) = 4
    BY <2>0 DEF HandlerEnd, HandlerStop, Second, Both
  <2> QED  BY <2>0, <2>2, <2>4, <2>5, <2>6
<1>2. CASE Worker = {"jiggler", "typer"}
  <2>1. InTurn(Stop) = Stop("jiggler") \o Stop("typer")
    BY <1>2 DEF InTurn, Stop
  <2>2. PICK code : code = HandlerCode
    OBVIOUS
  <2>3. code = <<Instr("lock", "main"), Instr("unlock", "main")>>
               \o <<Instr("quit", "main")>> \o (Stop("jiggler") \o Stop("typer"))
    BY <2>1, <2>2, Zenon DEF HandlerCode, PrintCode
  <2>4. /\ Len(code) = 9 /\ code[1] = Instr("lock", "main")
        /\ code[2] = Instr("unlock", "main") /\ code[3] = Instr("quit", "main")
        /\ code[4] = Instr("test", "jiggler") /\ code[5] = Instr("clear", "jiggler")
        /\ code[6] = Instr("join", "jiggler") /\ code[7] = Instr("test", "typer")
        /\ code[8] = Instr("clear", "typer") /\ code[9] = Instr("join", "typer")
    BY <2>3 DEF Stop
  <2>5. code \in Seq(Instruction)
    BY <1>2, <2>3 DEF Stop, Instruction, Instr, Thread
  <2> QED  BY <1>2, <2>2, <2>4, <2>5 DEF HandlerEnd, HandlerStop, Second, Both
<1> QED  BY WorkersAssumption, <1>1, <1>2

-----------------------------------------------------------------------------
\* Where main is.

\* What is left of a list of instructions from the place k on.
LEMMA Rest ==
  ASSUME NEW S, NEW c \in Seq(S), NEW k \in 1 .. Len(c) + 1
  PROVE  SubSeq(c, k, Len(c)) \in Seq(S) /\ Len(SubSeq(c, k, Len(c))) = Len(c) - k + 1
OBVIOUS

LEMMA RestHead ==
  ASSUME NEW S, NEW c \in Seq(S), NEW k \in 1 .. Len(c)
  PROVE  Head(SubSeq(c, k, Len(c))) = c[k]
<1>1. k \in 1 .. Len(c) + 1
  OBVIOUS
<1>2. PICK r : r = SubSeq(c, k, Len(c))
  OBVIOUS
<1>3. r \in Seq(S) /\ Len(r) >= 1 /\ r[1] = c[k]
  BY <1>1, <1>2
<1> QED  BY <1>2, <1>3

LEMMA RestOfRest ==
  ASSUME NEW S, NEW c \in Seq(S), NEW k \in 1 .. Len(c) + 1, NEW n \in Nat, k + n <= Len(c) + 1,
         NEW r, r = SubSeq(c, k, Len(c))
  PROVE  SubSeq(r, n + 1, Len(r)) = SubSeq(c, k + n, Len(c))
<1>1. r \in Seq(S) /\ Len(r) = Len(c) - k + 1 /\ \A m \in 1 .. Len(r) : r[m] = c[k + m - 1]
  OBVIOUS
<1> DEFINE a == SubSeq(r, n + 1, Len(r))
           b == SubSeq(c, k + n, Len(c))
<1>2. a \in Seq(S) /\ Len(a) = Len(r) - n /\ \A m \in 1 .. Len(a) : a[m] = r[n + m]
  BY <1>1
<1>3. b \in Seq(S) /\ Len(b) = Len(c) - k - n + 1 /\ \A m \in 1 .. Len(b) : b[m] = c[k + n + m - 1]
  OBVIOUS
<1>4. \A m \in 1 .. Len(a) : a[m] = b[m]
  BY <1>1, <1>2, <1>3
<1> HIDE DEF a, b
<1>5. a = b
  BY <1>1, <1>2, <1>3, <1>4, SeqEqual
<1> QED  BY <1>5 DEF a, b

\* Main runs its own code, or the handler's on top of it.
LEMMA CodesAre ==
  /\ ExitAt = Len(MainCode) /\ CloseAt \in Nat /\ ExitAt = CloseAt + 3
  /\ MainCode \in Seq(Instruction)
  /\ HandlerEnd - 1 = Len(HandlerCode) /\ HandlerEnd \in Nat /\ HandlerCode \in Seq(Instruction)
BY Layout, MainCodeIs, HandlerCodeIs

LEMMA TopOfMain ==
  ASSUME NEW i \in 1 .. ExitAt, NEW s, NEW f, f = Frames(i, 0, s)
  PROVE  /\ Len(f) = 1 /\ f # <<>>
         /\ Last(f).code = SubSeq(MainCode, i, Len(MainCode))
         /\ f[1].code = SubSeq(MainCode, i, Len(MainCode)) /\ f[1].sig = "none"
<1>1. PICK code : code = SubSeq(MainCode, i, Len(MainCode))
  OBVIOUS
<1>2. f = <<[sig |-> "none", code |-> code]>>
  BY CodesAre, <1>1, Zenon DEF Frames
<1>3. Len(f) = 1 /\ f[1].code = code /\ f[1].sig = "none"
  BY <1>2
<1>4. f # <<>>
  BY <1>2
<1>5. Last(f) = f[1]
  BY <1>3, Zenon DEF Last
<1> QED  BY <1>1, <1>3, <1>4, <1>5

LEMMA TopOfHandler ==
  ASSUME NEW i \in 1 .. ExitAt, NEW j \in 1 .. HandlerEnd, NEW s, NEW f, f = Frames(i, j, s)
  PROVE  /\ Len(f) = 2 /\ f # <<>>
         /\ Last(f).code = SubSeq(HandlerCode, j, Len(HandlerCode))
         /\ f[1].sig = "none" /\ f[2].sig = s
         /\ f[1].code = SubSeq(MainCode, i, Len(MainCode))
<1>1. PICK code : code = SubSeq(HandlerCode, j, Len(HandlerCode))
  OBVIOUS
<1>2. PICK base : base = [sig |-> "none", code |-> SubSeq(MainCode, i, Len(MainCode))]
  OBVIOUS
<1>3. j # 0
  BY CodesAre
<1>4. f = <<base, [sig |-> s, code |-> code]>>
  BY CodesAre, <1>1, <1>2, <1>3, Zenon DEF Frames
<1>5. Len(f) = 2 /\ f[1] = base /\ f[2].code = code /\ f[2].sig = s
  BY <1>4
<1>6. f # <<>>
  BY <1>4
<1>7. Last(f) = f[2]
  BY <1>5, Zenon DEF Last
<1> QED  BY <1>1, <1>2, <1>5, <1>6, <1>7

-----------------------------------------------------------------------------
\* What is next, when main is at i and j.
LEMMA MainAt ==
  ASSUME NEW i \in 1 .. ExitAt, NEW j \in 0 .. HandlerEnd, NEW s, NEW op,
         Stacked(i, j, s), At("main", op)
  PROVE  /\ j = 0 => Instr(op, Operand("main")) = MainCode[i]
         /\ j # 0 => j < HandlerEnd /\ Instr(op, Operand("main")) = HandlerCode[j]
<1>1. PICK f : f = Frames(i, j, s)
  OBVIOUS
<1>2. stack["main"] = f
  BY <1>1 DEF Stacked, Thread
<1>3. CASE j = 0
  <2>1. Last(f).code = SubSeq(MainCode, i, Len(MainCode))
    BY <1>1, <1>3, TopOfMain
  <2>2. i \in 1 .. Len(MainCode)
    BY CodesAre
  <2>3. Head(Last(f).code) = MainCode[i]
    BY CodesAre, <2>1, <2>2, RestHead
  <2>4. MainCode[i] \in Instruction
    BY CodesAre, <2>2, ElementOfSeq
  <2> QED  BY <1>2, <1>3, <2>3, <2>4 DEF At, Operand, Instr, Instruction
<1>4. CASE j # 0
  <2>1. Last(f).code = SubSeq(HandlerCode, j, Len(HandlerCode)) /\ Last(f).code # <<>>
    <3>1. j \in 1 .. HandlerEnd
      BY CodesAre, <1>4
    <3>2. Last(f).code = SubSeq(HandlerCode, j, Len(HandlerCode))
      BY <1>1, <3>1, TopOfHandler
    <3> QED  BY <1>2, <3>2 DEF At
  <2>2. j # Len(HandlerCode) + 1
    BY CodesAre, <2>1, SubSeqEmpty
  <2>3. j \in 1 .. Len(HandlerCode) /\ j < HandlerEnd
    BY CodesAre, <1>4, <2>2
  <2>4. Head(Last(f).code) = HandlerCode[j]
    BY CodesAre, <2>1, <2>3, RestHead
  <2>5. HandlerCode[j] \in Instruction
    BY CodesAre, <2>3
  <2> QED  BY <1>2, <1>4, <2>3, <2>4, <2>5 DEF At, Operand, Instr, Instruction
<1> QED  BY <1>3, <1>4

LEMMA Advanced ==
  ASSUME NEW i \in 1 .. ExitAt, NEW j \in 0 .. HandlerEnd, NEW s,
         Stacked(i, j, s), NEW n \in Nat, Advance("main", n),
         IF j = 0 THEN i + n <= ExitAt ELSE j + n <= HandlerEnd
  PROVE  IF j = 0 THEN Stacked(i + n, 0, s)' ELSE Stacked(i, j + n, s)'
<1>1. stack["main"] = Frames(i, j, s) /\ "main" \in Thread
  BY DEF Stacked, Thread
<1>2. PICK f : f = Frames(i, j, s)
  OBVIOUS
<1>3. PICK g : g = [f EXCEPT ![Len(f)].code = SubSeq(@, n + 1, Len(@))]
  OBVIOUS
<1>4. stack' = [th \in Thread |-> IF th = "main" THEN g ELSE <<>>]
  BY <1>1, <1>2, <1>3 DEF Stacked, Advance
<1>5. CASE j = 0
  <2>1. PICK code : code = SubSeq(MainCode, i, Len(MainCode))
    OBVIOUS
  <2>2. f = <<[sig |-> "none", code |-> code]>>
    BY CodesAre, <1>2, <1>5, <2>1, Zenon DEF Frames
  <2>3. g = <<[sig |-> "none", code |-> SubSeq(code, n + 1, Len(code))]>>
    <3>1. PICK more : more = SubSeq(code, n + 1, Len(code))
      OBVIOUS
    <3>2. Len(f) = 1 /\ f[1].code = code
      BY <2>2
    <3>3. g = [f EXCEPT ![1].code = more]
      BY <1>3, <3>1, <3>2
    <3>4. g = <<[sig |-> "none", code |-> more]>>
      BY <2>2, <3>3
    <3> QED  BY <3>1, <3>4
  <2>4. i \in 1 .. Len(MainCode) + 1 /\ i + n <= Len(MainCode) + 1
    BY CodesAre, <1>5
  <2>5. SubSeq(code, n + 1, Len(code)) = SubSeq(MainCode, i + n, ExitAt)
    <3>1. SubSeq(code, n + 1, Len(code)) = SubSeq(MainCode, i + n, Len(MainCode))
      BY CodesAre, <2>1, <2>4, RestOfRest
    <3> QED  BY <3>1, CodesAre
  <2>6. g = Frames(i + n, 0, s)
    BY <2>3, <2>5, Zenon DEF Frames
  <2> QED  BY <1>4, <1>5, <2>6 DEF Stacked
<1>6. CASE j # 0
  <2>1. PICK code : code = SubSeq(HandlerCode, j, Len(HandlerCode))
    OBVIOUS
  <2>2. PICK base : base = [sig |-> "none", code |-> SubSeq(MainCode, i, ExitAt)]
    OBVIOUS
  <2>3. f = <<base, [sig |-> s, code |-> code]>>
    BY CodesAre, <1>2, <1>6, <2>1, <2>2, Zenon DEF Frames
  <2>4. g = <<base, [sig |-> s, code |-> SubSeq(code, n + 1, Len(code))]>>
    <3>1. PICK more : more = SubSeq(code, n + 1, Len(code))
      OBVIOUS
    <3>2. Len(f) = 2 /\ f[2].code = code
      BY <2>3
    <3>3. g = [f EXCEPT ![2].code = more]
      BY <1>3, <3>1, <3>2
    <3>4. g = <<base, [sig |-> s, code |-> more]>>
      BY <2>3, <3>3
    <3> QED  BY <3>1, <3>4
  <2>5. j \in 1 .. Len(HandlerCode) + 1 /\ j + n <= Len(HandlerCode) + 1 /\ j + n # 0
    BY CodesAre, <1>6
  <2>6. SubSeq(code, n + 1, Len(code)) = SubSeq(HandlerCode, j + n, HandlerEnd - 1)
    BY CodesAre, <2>1, <2>5, RestOfRest
  <2>7. g = Frames(i, j + n, s)
    BY <2>2, <2>4, <2>5, <2>6, Zenon DEF Frames
  <2> QED  BY <1>4, <1>6, <2>7 DEF Stacked
<1> QED  BY <1>5, <1>6

-----------------------------------------------------------------------------
\* Main is k instructions into one of its prints.
PrintsAt(i, k) ==
  i \in {LoopAt - 3 + k, CloseAt + 1 + k} \/ \E w \in Worker : i = StartOf(w) + 3 + k

LEMMA WhereInMain ==
  ASSUME NEW i \in 1 .. ExitAt, NEW op, NEW w, Instr(op, w) = MainCode[i]
  PROVE  /\ op \in {"create", "arm", "spawn", "disarm", "test", "clear", "join", "free"} => w \in Worker
         /\ op = "create" => i = StartOf(w)
         /\ op = "arm" => i = StartOf(w) + 1
         /\ op = "spawn" => i = StartOf(w) + 2
         /\ op = "disarm" => i = StartOf(w) + 5
         /\ op = "lock" => PrintsAt(i, 0)
         /\ op = "unlock" => PrintsAt(i, 1)
         /\ op = "api" => i = LoopAt - 1
         /\ op = "loop" => i = LoopAt
         /\ op = "test" => i = StopOf(w)
         /\ op = "clear" => i = StopOf(w) + 1
         /\ op = "join" => i = StopOf(w) + 2
         /\ op = "free" => i = StopOf(w) + 3
         /\ op = "disconnect" => i = CloseAt
         /\ op = "exit" => i = ExitAt
         /\ op # "quit"
<1> DEFINE Fits(o, v, at) ==
         /\ o \in {"create", "arm", "spawn", "disarm", "test", "clear", "join", "free"} => v \in Worker
         /\ o = "create" => at = StartOf(v)
         /\ o = "arm" => at = StartOf(v) + 1
         /\ o = "spawn" => at = StartOf(v) + 2
         /\ o = "disarm" => at = StartOf(v) + 5
         /\ o = "lock" => PrintsAt(at, 0)
         /\ o = "unlock" => PrintsAt(at, 1)
         /\ o = "api" => at = LoopAt - 1
         /\ o = "loop" => at = LoopAt
         /\ o = "test" => at = StopOf(v)
         /\ o = "clear" => at = StopOf(v) + 1
         /\ o = "join" => at = StopOf(v) + 2
         /\ o = "free" => at = StopOf(v) + 3
         /\ o = "disconnect" => at = CloseAt
         /\ o = "exit" => at = ExitAt
         /\ o # "quit"
<1>1. ASSUME NEW o, NEW v, MainCode[i] = Instr(o, v), Fits(o, v, i)
      PROVE  Fits(op, w, i)
  <2>1. op = o /\ w = v
    BY <1>1 DEF Instr
  <2> QED  BY <1>1, <2>1
<1>2. ASSUME i \in LoopAt - 3 .. LoopAt \/ i \in CloseAt .. ExitAt
      PROVE  Fits(op, w, i)
  <2>0. \/ i = LoopAt - 3 \/ i = LoopAt - 2 \/ i = LoopAt - 1 \/ i = LoopAt
        \/ i = CloseAt \/ i = CloseAt + 1 \/ i = CloseAt + 2 \/ i = ExitAt
    BY <1>2, Layout
  <2>1. CASE i = LoopAt - 3
    <3>1. PrintsAt(i, 0)
      BY <2>1, Layout DEF PrintsAt
    <3> QED  BY <1>1, <2>1, <3>1, MainCodeIs
  <2>2. CASE i = LoopAt - 2
    <3>1. PrintsAt(i, 1)
      BY <2>2, Layout DEF PrintsAt
    <3> QED  BY <1>1, <2>2, <3>1, MainCodeIs
  <2>3. CASE i = LoopAt - 1
    BY <1>1, <2>3, MainCodeIs
  <2>4. CASE i = LoopAt
    BY <1>1, <2>4, MainCodeIs
  <2>5. CASE i = CloseAt
    BY <1>1, <2>5, MainCodeIs
  <2>6. CASE i = CloseAt + 1
    <3>1. PrintsAt(i, 0)
      BY <2>6, Layout DEF PrintsAt
    <3> QED  BY <1>1, <2>6, <3>1, MainCodeIs
  <2>7. CASE i = CloseAt + 2
    <3>1. PrintsAt(i, 1)
      BY <2>7, Layout DEF PrintsAt
    <3> QED  BY <1>1, <2>7, <3>1, MainCodeIs
  <2>8. CASE i = ExitAt
    BY <1>1, <2>8, MainCodeIs
  <2> QED  BY <2>0, <2>1, <2>2, <2>3, <2>4, <2>5, <2>6, <2>7, <2>8
<1>3. ASSUME NEW v \in Worker, i \in StartOf(v) .. StartOf(v) + 5
      PROVE  Fits(op, w, i)
  <2>1. \/ i = StartOf(v) \/ i = StartOf(v) + 1 \/ i = StartOf(v) + 2
        \/ i = StartOf(v) + 3 \/ i = StartOf(v) + 4 \/ i = StartOf(v) + 5
    BY <1>3, Layout
  <2>2. CASE i = StartOf(v)
    BY <1>1, <2>2, MainCodeIs
  <2>3. CASE i = StartOf(v) + 1
    BY <1>1, <2>3, MainCodeIs
  <2>4. CASE i = StartOf(v) + 2
    BY <1>1, <2>4, MainCodeIs
  <2>5. CASE i = StartOf(v) + 3
    <3>1. PrintsAt(i, 0)
      BY <2>5, Layout DEF PrintsAt
    <3> QED  BY <1>1, <2>5, <3>1, MainCodeIs
  <2>6. CASE i = StartOf(v) + 4
    <3>1. PrintsAt(i, 1)
      BY <2>6, Layout DEF PrintsAt
    <3> QED  BY <1>1, <2>6, <3>1, MainCodeIs
  <2>7. CASE i = StartOf(v) + 5
    BY <1>1, <2>7, MainCodeIs
  <2> QED  BY <2>1, <2>2, <2>3, <2>4, <2>5, <2>6, <2>7
<1>4. ASSUME NEW v \in Worker, i \in StopOf(v) .. StopOf(v) + 3
      PROVE  Fits(op, w, i)
  <2>1. i = StopOf(v) \/ i = StopOf(v) + 1 \/ i = StopOf(v) + 2 \/ i = StopOf(v) + 3
    BY <1>4, Layout
  <2>2. CASE i = StopOf(v)
    BY <1>1, <2>2, MainCodeIs
  <2>3. CASE i = StopOf(v) + 1
    BY <1>1, <2>3, MainCodeIs
  <2>4. CASE i = StopOf(v) + 2
    BY <1>1, <2>4, MainCodeIs
  <2>5. CASE i = StopOf(v) + 3
    BY <1>1, <2>5, MainCodeIs
  <2> QED  BY <2>1, <2>2, <2>3, <2>4, <2>5
<1> HIDE DEF Fits
<1>5. \/ i \in LoopAt - 3 .. LoopAt \/ i \in CloseAt .. ExitAt
      \/ \E v \in Worker : i \in StartOf(v) .. StartOf(v) + 5 \/ i \in StopOf(v) .. StopOf(v) + 3
  BY MainCodeIs, Zenon
<1>6. Fits(op, w, i)
  BY <1>2, <1>3, <1>4, <1>5, Zenon
<1> QED  BY <1>6, Zenon DEF Fits

LEMMA WhereInHandler ==
  ASSUME NEW j \in 1 .. HandlerEnd - 1, NEW op, NEW w, Instr(op, w) = HandlerCode[j]
  PROVE  /\ op = "lock" => j = 1
         /\ op = "unlock" => j = 2
         /\ op = "quit" => j = 3
         /\ op \in {"test", "clear", "join"} => w \in Worker
         /\ op = "test" => j = HandlerStop(w)
         /\ op = "clear" => j = HandlerStop(w) + 1
         /\ op = "join" => j = HandlerStop(w) + 2
         /\ op \in {"lock", "unlock", "quit", "test", "clear", "join"}
<1>1. CASE j \in 1 .. 3
  <2>1. HandlerCode[1] = Instr("lock", "main") /\ HandlerCode[2] = Instr("unlock", "main")
        /\ HandlerCode[3] = Instr("quit", "main")
    BY HandlerCodeIs
  <2>2. \/ j = 1 /\ op = "lock"
        \/ j = 2 /\ op = "unlock"
        \/ j = 3 /\ op = "quit"
    BY <1>1, <2>1 DEF Instr
  <2> QED  BY <2>2
<1>2. ASSUME NEW v \in Worker, j \in HandlerStop(v) .. HandlerStop(v) + 2
      PROVE  /\ w = v
             /\ \/ op = "test" /\ j = HandlerStop(v)
                \/ op = "clear" /\ j = HandlerStop(v) + 1
                \/ op = "join" /\ j = HandlerStop(v) + 2
  <2>1. j = HandlerStop(v) \/ j = HandlerStop(v) + 1 \/ j = HandlerStop(v) + 2
    BY <1>2, Layout
  <2>2. /\ HandlerCode[HandlerStop(v)] = Instr("test", v)
        /\ HandlerCode[HandlerStop(v) + 1] = Instr("clear", v)
        /\ HandlerCode[HandlerStop(v) + 2] = Instr("join", v)
    BY <1>2, HandlerCodeIs, Zenon
  <2>3. CASE j = HandlerStop(v)
    BY <2>2, <2>3 DEF Instr
  <2>4. CASE j = HandlerStop(v) + 1
    BY <2>2, <2>4 DEF Instr
  <2>5. CASE j = HandlerStop(v) + 2
    BY <2>2, <2>5 DEF Instr
  <2> QED  BY <2>1, <2>3, <2>4, <2>5
<1>3. j \in 1 .. 3 \/ j \in 4 .. HandlerEnd - 1
  BY CodesAre
<1> QED  BY <1>1, <1>2, <1>3, HandlerCodeIs

-----------------------------------------------------------------------------
\* What moves main, and what that leaves alone.

\* Main is at i and j, about to do op, which is for w.
LEMMA Where ==
  ASSUME NEW i \in 1 .. ExitAt, NEW j \in 0 .. HandlerEnd, Place(i, j), NEW op, At("main", op),
         NEW w, w = Operand("main")
  PROVE  /\ op = "quit" => j = 3
         /\ op = "lock" => IF j = 0 THEN PrintsAt(i, 0) ELSE j = 1
         /\ op = "unlock" => IF j = 0 THEN PrintsAt(i, 1) ELSE j = 2
         /\ op \in {"create", "arm", "spawn", "disarm", "test", "clear", "join", "free"} => w \in Worker
         /\ op = "create" => j = 0 /\ i = StartOf(w)
         /\ op = "arm" => j = 0 /\ i = StartOf(w) + 1
         /\ op = "spawn" => j = 0 /\ i = StartOf(w) + 2
         /\ op = "disarm" => j = 0 /\ i = StartOf(w) + 5
         /\ op = "api" => j = 0 /\ i = LoopAt - 1
         /\ op = "loop" => j = 0 /\ i = LoopAt
         /\ op = "test" => IF j = 0 THEN i = StopOf(w) ELSE j = HandlerStop(w)
         /\ op = "clear" => IF j = 0 THEN i = StopOf(w) + 1 ELSE j = HandlerStop(w) + 1
         /\ op = "join" => IF j = 0 THEN i = StopOf(w) + 2 ELSE j = HandlerStop(w) + 2
         /\ op = "free" => j = 0 /\ i = StopOf(w) + 3
         /\ op = "disconnect" => j = 0 /\ i = CloseAt
         /\ op = "exit" => j = 0 /\ i = ExitAt
<1>1. PICK s : Stacked(i, j, s)
  BY DEF Place
<1>2. CASE j = 0
  <2>1. Instr(op, w) = MainCode[i]
    BY <1>1, <1>2, MainAt
  <2> QED  BY <1>2, <2>1, WhereInMain
<1>3. CASE j # 0
  <2>1. j < HandlerEnd /\ Instr(op, w) = HandlerCode[j]
    BY <1>1, <1>3, MainAt
  <2>2. j \in 1 .. HandlerEnd - 1
    BY <1>3, <2>1, CodesAre
  <2>3. /\ op = "lock" => j = 1
        /\ op = "unlock" => j = 2
        /\ op = "quit" => j = 3
        /\ op \in {"test", "clear", "join"} => w \in Worker
        /\ op = "test" => j = HandlerStop(w)
        /\ op = "clear" => j = HandlerStop(w) + 1
        /\ op = "join" => j = HandlerStop(w) + 2
        /\ op \in {"lock", "unlock", "quit", "test", "clear", "join"}
    BY <2>1, <2>2, WhereInHandler
  <2> QED  BY <1>3, <2>3
<1> QED  BY <1>2, <1>3

\* Main goes on from i and j to i2 and j2.
Goes(i, j, i2, j2) ==
  /\ i2 \in 1 .. ExitAt /\ j2 \in 0 .. HandlerEnd
  /\ \E n \in Nat :
       /\ Advance("main", n)
       /\ IF j = 0 THEN i2 = i + n /\ j2 = 0 ELSE i2 = i /\ j2 = j + n

\* What remains to show of a step that only moves main.
LEMMA Moved ==
  ASSUME NEW i \in 1 .. ExitAt, NEW j \in 0 .. HandlerEnd, Place(i, j),
         NEW i2, NEW j2, Goes(i, j, i2, j2), UNCHANGED <<process, pending, signals>>,
         ~g_running' => ~g_running \/ j # 0,
         pending # {} => i2 = LoopAt,
         (open' <=> i2 <= CloseAt),
         created' = {w \in Worker : i2 > StartOf(w)},
         freed' = {w \in Worker : i2 > StopOf(w) + 3}
  PROVE  Place(i2, j2)'
<1>1. PICK s \in Sigs \cup {"none"} : Stacked(i, j, s)
  BY DEF Place
<1>2. PICK n \in Nat : /\ Advance("main", n)
                       /\ IF j = 0 THEN i2 = i + n /\ j2 = 0 ELSE i2 = i /\ j2 = j + n
  BY DEF Goes
<1>3. Stacked(i2, j2, s)'
  <2>1. IF j = 0 THEN i + n <= ExitAt ELSE j + n <= HandlerEnd
    BY <1>2, CodesAre DEF Goes
  <2>2. IF j = 0 THEN Stacked(i + n, 0, s)' ELSE Stacked(i, j + n, s)'
    BY <1>1, <1>2, <2>1, Advanced
  <2> QED  BY <1>2, <2>2
<1>4. j2 # 0 <=> j # 0
  BY <1>2
<1>5. j2 # 0 => i2 = LoopAt
  BY <1>2 DEF Place
<1> QED  BY <1>1, <1>3, <1>4, <1>5 DEF Place

\* Main does not come to, or leave, the code that is about w.
Apart(w, i, j, i2, j2) ==
  /\ \/ i <= StartOf(w) /\ i2 <= StartOf(w)
     \/ i > StartOf(w) + 5 /\ i2 > StartOf(w) + 5
  /\ \/ i <= StopOf(w) /\ i2 <= StopOf(w)
     \/ i > StopOf(w) + 2 /\ i2 > StopOf(w) + 2
  /\ \/ j <= HandlerStop(w) /\ j2 <= HandlerStop(w)
     \/ j > HandlerStop(w) + 2 /\ j2 > HandlerStop(w) + 2

LEMMA StaysAsItIs ==
  ASSUME NEW i \in Int, NEW j \in Int, NEW i2 \in Int, NEW j2 \in Int, NEW w \in Worker,
         State(w, i, j), Apart(w, i, j, i2, j2),
         running'[w] = running[w], thr'[w] = thr[w], joiner'[w] = joiner[w]
  PROVE  State(w, i2, j2)'
BY Layout DEF State, Apart, Clearing, Joining, Gone

\* Main goes on in one of the parts that are about w.
Within(w, i, j, i2, j2) ==
  \/ j = 0 /\ j2 = 0 /\ StartOf(w) <= i /\ i < i2 /\ i2 <= StartOf(w) + 6
  \/ /\ j = 0 /\ j2 = 0 /\ StopOf(w) <= i /\ i < i2 /\ i2 <= StopOf(w) + 4
     /\ i2 = StopOf(w) + 4 => i = StopOf(w) + 3
  \/ i = LoopAt /\ i2 = LoopAt /\ HandlerStop(w) <= j /\ j < j2 /\ j2 <= HandlerStop(w) + 3

LEMMA Elsewhere ==
  ASSUME NEW i \in Int, NEW j \in Int, NEW i2 \in Int, NEW j2 \in Int,
         NEW w \in Worker, Within(w, i, j, i2, j2)
  PROVE  /\ \A v \in Worker \ {w} : /\ Apart(v, i, j, i2, j2)
                                    /\ i > StartOf(v) <=> i2 > StartOf(v)
                                    /\ i > StopOf(v) + 3 <=> i2 > StopOf(v) + 3
         /\ i2 > StartOf(w) /\ (i <= StartOf(w) <=> i = StartOf(w))
         /\ i <= StopOf(w) + 3 /\ (i2 > StopOf(w) + 3 <=> i = StopOf(w) + 3)
         /\ i <= CloseAt /\ i2 <= CloseAt
         /\ i = LoopAt => j # 0 /\ i2 = LoopAt
<1>0. /\ LoopAt \in Nat /\ CloseAt \in Nat /\ HandlerEnd \in Nat
      /\ CloseAt >= LoopAt + 5
      /\ \A v \in Worker :
           /\ StartOf(v) \in Nat /\ StopOf(v) \in Nat /\ HandlerStop(v) \in Nat
           /\ 1 <= StartOf(v) /\ StartOf(v) + 9 <= LoopAt
           /\ LoopAt + 1 <= StopOf(v) /\ StopOf(v) + 4 <= CloseAt
           /\ 4 <= HandlerStop(v)
  BY Layout
<1>1. ASSUME NEW v \in Worker \ {w}
      PROVE  /\ Apart(v, i, j, i2, j2)
             /\ i > StartOf(v) <=> i2 > StartOf(v)
             /\ i > StopOf(v) + 3 <=> i2 > StopOf(v) + 3
  <2>1. /\ StartOf(w) + 6 <= StartOf(v) \/ StartOf(v) + 6 <= StartOf(w)
        /\ StopOf(w) + 4 <= StopOf(v) \/ StopOf(v) + 4 <= StopOf(w)
        /\ HandlerStop(w) + 3 <= HandlerStop(v) \/ HandlerStop(v) + 3 <= HandlerStop(w)
    BY <1>1, Layout
  <2>2. CASE j = 0 /\ j2 = 0 /\ StartOf(w) <= i /\ i < i2 /\ i2 <= StartOf(w) + 6
    BY <1>0, <2>1, <2>2 DEF Apart
  <2>3. CASE j = 0 /\ j2 = 0 /\ StopOf(w) <= i /\ i < i2 /\ i2 <= StopOf(w) + 4
    BY <1>0, <2>1, <2>3 DEF Apart
  <2>4. CASE i = LoopAt /\ i2 = LoopAt /\ HandlerStop(w) <= j /\ j < j2 /\ j2 <= HandlerStop(w) + 3
    BY <1>0, <2>1, <2>4 DEF Apart
  <2> QED  BY <2>2, <2>3, <2>4 DEF Within
<1>2. /\ i2 > StartOf(w) /\ (i <= StartOf(w) <=> i = StartOf(w))
      /\ i <= StopOf(w) + 3 /\ (i2 > StopOf(w) + 3 <=> i = StopOf(w) + 3)
      /\ i <= CloseAt /\ i2 <= CloseAt
      /\ i = LoopAt => j # 0 /\ i2 = LoopAt
  BY <1>0 DEF Within
<1> QED  BY <1>1, <1>2

LEMMA GoesWithin ==
  ASSUME NEW i \in 1 .. ExitAt, NEW j \in 0 .. HandlerEnd, Steady(i, j),
         NEW i2, NEW j2, Goes(i, j, i2, j2), NEW w \in Worker, Within(w, i, j, i2, j2),
         UNCHANGED <<process, g_running, open, sig>>, Types',
         created' = IF i = StartOf(w) THEN created \cup {w} ELSE created,
         freed' = IF i = StopOf(w) + 3 THEN freed \cup {w} ELSE freed,
         State(w, i2, j2)',
         \A v \in Worker \ {w} : running'[v] = running[v] /\ thr'[v] = thr[v] /\ joiner'[v] = joiner[v]
  PROVE  \E ii \in 1 .. ExitAt, jj \in 0 .. HandlerEnd : Steady(ii, jj)'
<1>1. /\ i \in Int /\ j \in Int /\ i2 \in Int /\ j2 \in Int
      /\ i2 \in 1 .. ExitAt /\ j2 \in 0 .. HandlerEnd
  BY CodesAre DEF Goes
<1>2. /\ \A v \in Worker \ {w} : /\ Apart(v, i, j, i2, j2)
                                 /\ i > StartOf(v) <=> i2 > StartOf(v)
                                 /\ i > StopOf(v) + 3 <=> i2 > StopOf(v) + 3
      /\ i2 > StartOf(w) /\ (i <= StartOf(w) <=> i = StartOf(w))
      /\ i <= StopOf(w) + 3 /\ (i2 > StopOf(w) + 3 <=> i = StopOf(w) + 3)
      /\ i <= CloseAt /\ i2 <= CloseAt
      /\ i = LoopAt => j # 0 /\ i2 = LoopAt
  BY <1>1, Elsewhere
<1>3. \A v \in Worker : State(v, i2, j2)'
  <2>1. ASSUME NEW v \in Worker \ {w} PROVE State(v, i2, j2)'
    <3>1. Apart(v, i, j, i2, j2) /\ State(v, i, j)
      BY <1>2, <2>1 DEF Steady
    <3>2. running'[v] = running[v] /\ thr'[v] = thr[v] /\ joiner'[v] = joiner[v]
      BY <2>1
    <3> QED  BY <1>1, <3>1, <3>2, StaysAsItIs
  <2> QED  BY <2>1
<1>4. Place(i2, j2)'
  <2>1. created' = {v \in Worker : i2 > StartOf(v)}
    <3>1. created = {v \in Worker : i > StartOf(v)}
      BY DEF Steady, Place
    <3>2. \A v \in Worker \ {w} : i > StartOf(v) <=> i2 > StartOf(v)
      BY <1>2
    <3>3. i > StartOf(w) <=> i # StartOf(w)
      BY <1>1, <1>2, Layout
    <3> QED  BY <1>2, <3>1, <3>2, <3>3
  <2>2. freed' = {v \in Worker : i2 > StopOf(v) + 3}
    <3>1. freed = {v \in Worker : i > StopOf(v) + 3}
      BY DEF Steady, Place
    <3>2. \A v \in Worker \ {w} : i > StopOf(v) + 3 <=> i2 > StopOf(v) + 3
      BY <1>2
    <3>3. ~(i > StopOf(w) + 3)
      BY <1>1, <1>2, Layout
    <3> QED  BY <1>2, <3>1, <3>2, <3>3
  <2>3. open' <=> i2 <= CloseAt
    BY <1>2 DEF Steady, Place
  <2>4. pending # {} => i2 = LoopAt
    BY <1>2 DEF Steady, Place
  <2> QED  BY <2>1, <2>2, <2>3, <2>4, Moved DEF Steady, sig
<1> QED  BY <1>1, <1>3, <1>4 DEF Steady

\* Main goes on outside of them.
LEMMA GoesElsewhere ==
  ASSUME NEW i \in 1 .. ExitAt, NEW j \in 0 .. HandlerEnd, Steady(i, j),
         NEW i2, NEW j2, Goes(i, j, i2, j2),
         UNCHANGED <<process, created, running, thr, joiner, freed, sig>>,
         ~g_running' => ~g_running \/ j # 0, pending # {} => i2 = LoopAt, (open' <=> i2 <= CloseAt),
         \/ i = LoopAt /\ i2 = LoopAt /\ j <= 4 /\ j2 <= 4
         \/ LoopAt - 3 <= i /\ i2 <= LoopAt + 1 /\ j = 0 /\ j2 = 0
         \/ CloseAt <= i /\ j = 0 /\ j2 = 0
  PROVE  \E ii \in 1 .. ExitAt, jj \in 0 .. HandlerEnd : Steady(ii, jj)'
<1>1. /\ i \in Int /\ j \in Int /\ i2 \in Int /\ j2 \in Int
      /\ i2 \in 1 .. ExitAt /\ j2 \in 0 .. HandlerEnd /\ i2 >= i
  BY CodesAre DEF Goes
<1>2. ASSUME NEW v \in Worker
      PROVE  /\ Apart(v, i, j, i2, j2)
             /\ i > StartOf(v) <=> i2 > StartOf(v)
             /\ i > StopOf(v) + 3 <=> i2 > StopOf(v) + 3
  <2>1. /\ LoopAt \in Nat /\ CloseAt \in Nat /\ StartOf(v) \in Nat /\ StopOf(v) \in Nat /\ HandlerStop(v) \in Nat
        /\ StartOf(v) + 9 <= LoopAt
        /\ LoopAt + 1 <= StopOf(v) /\ StopOf(v) + 4 <= CloseAt
        /\ 4 <= HandlerStop(v)
    BY <1>2, Layout
  <2> QED  BY <1>1, <2>1 DEF Apart
<1>3. \A v \in Worker : State(v, i2, j2)'
  BY <1>1, <1>2, StaysAsItIs DEF Steady
<1>4. Place(i2, j2)'
  <2>1. created' = {v \in Worker : i2 > StartOf(v)}
    BY <1>2 DEF Steady, Place
  <2>2. freed' = {v \in Worker : i2 > StopOf(v) + 3}
    BY <1>2 DEF Steady, Place
  <2> QED  BY <2>1, <2>2, Moved DEF Steady, sig
<1> QED  BY <1>1, <1>3, <1>4 DEF Steady, Types

\* Main stays where it is.
LEMMA StaysThere ==
  ASSUME NEW i \in 1 .. ExitAt, NEW j \in 0 .. HandlerEnd, Place(i, j),
         UNCHANGED <<process, stack, g_running, created, freed, open, pending, signals>>
  PROVE  Place(i, j)'
BY DEF Place, Stacked

-----------------------------------------------------------------------------
\* Each step keeps it: what main does with its workers.

\* The places of w, one by one.
LEMMA Places ==
  ASSUME NEW w \in Worker
  PROVE  /\ LoopAt \in Nat /\ CloseAt \in Nat /\ ExitAt = CloseAt + 3 /\ HandlerEnd \in Nat
         /\ StartOf(w) \in Nat /\ StopOf(w) \in Nat /\ HandlerStop(w) \in Nat
         /\ 1 <= StartOf(w) /\ StartOf(w) + 9 <= LoopAt
         /\ LoopAt + 1 <= StopOf(w) /\ StopOf(w) + 4 <= CloseAt
         /\ 4 <= HandlerStop(w) /\ HandlerStop(w) + 3 <= HandlerEnd
BY Layout

LEMMA CreateKeeps ==
  ASSUME NEW i \in 1 .. ExitAt, NEW j \in 0 .. HandlerEnd, Steady(i, j), Create
  PROVE  \E ii \in 1 .. ExitAt, jj \in 0 .. HandlerEnd : Steady(ii, jj)'
<1>1. PICK w : w = Operand("main")
  OBVIOUS
<1>2. w \in Worker /\ j = 0 /\ i = StartOf(w) /\ i # StopOf(w) + 3
  BY <1>1, Where, Places DEF Create, Steady
<1>3. Goes(i, j, i + 1, 0) /\ Within(w, i, j, i + 1, 0)
  BY <1>2, Places DEF Create, Goes, Within
<1>4. created' = created \cup {w} /\ UNCHANGED <<process, g_running, running, thr, joiner, freed, open, sig>>
  BY <1>1 DEF Create, threads
<1>5. State(w, i + 1, 0)'
  BY <1>2, <1>4, Places DEF Steady, State, Clearing, Joining, Gone
<1>6. Types'
  BY <1>4 DEF Steady, Types
<1> QED  BY <1>2, <1>3, <1>4, <1>5, <1>6, GoesWithin

LEMMA DisabledKeeps ==
  ASSUME NEW i \in 1 .. ExitAt, NEW j \in 0 .. HandlerEnd, Steady(i, j), Disabled
  PROVE  \E ii \in 1 .. ExitAt, jj \in 0 .. HandlerEnd : Steady(ii, jj)'
<1>1. PICK w : w = Operand("main")
  OBVIOUS
<1>2. w \in Worker /\ j = 0 /\ i = StartOf(w) + 1 /\ i # StopOf(w) + 3 /\ i # StartOf(w)
  BY <1>1, Where, Places DEF Disabled, Steady
<1>3. Goes(i, j, i + 2, 0) /\ Within(w, i, j, i + 2, 0)
  BY <1>2, Places DEF Disabled, Goes, Within
<1>4. UNCHANGED <<process, g_running, created, running, thr, joiner, freed, open, sig>>
  BY <1>1 DEF Disabled, flags, threads
<1>5. State(w, i + 2, 0)'
  BY <1>2, <1>4, Places DEF Steady, State, Clearing, Joining, Gone
<1>6. Types'
  BY <1>4 DEF Steady, Types
<1> QED  BY <1>2, <1>3, <1>4, <1>5, <1>6, GoesWithin

LEMMA ArmKeeps ==
  ASSUME NEW i \in 1 .. ExitAt, NEW j \in 0 .. HandlerEnd, Steady(i, j), Arm
  PROVE  \E ii \in 1 .. ExitAt, jj \in 0 .. HandlerEnd : Steady(ii, jj)'
<1>1. PICK w : w = Operand("main")
  OBVIOUS
<1>2. w \in Worker /\ j = 0 /\ i = StartOf(w) + 1 /\ i # StopOf(w) + 3 /\ i # StartOf(w)
  BY <1>1, Where, Places DEF Arm, Steady
<1>3. Goes(i, j, i + 1, 0) /\ Within(w, i, j, i + 1, 0)
  BY <1>2, Places DEF Arm, Goes, Within
<1>4. /\ running' = [running EXCEPT ![w] = TRUE]
      /\ UNCHANGED <<process, g_running, created, thr, joiner, freed, open, sig>>
  BY <1>1 DEF Arm, threads
<1>5. State(w, i + 1, 0)'
  BY <1>2, <1>4, Places DEF Steady, Types, State, Clearing, Joining, Gone
<1>6. Types'
  BY <1>4 DEF Steady, Types
<1>7. \A v \in Worker \ {w} : running'[v] = running[v]
  BY <1>4 DEF Steady, Types
<1> QED  BY <1>2, <1>3, <1>4, <1>5, <1>6, <1>7, GoesWithin

LEMMA SpawnKeeps ==
  ASSUME NEW i \in 1 .. ExitAt, NEW j \in 0 .. HandlerEnd, Steady(i, j), Spawn
  PROVE  \E ii \in 1 .. ExitAt, jj \in 0 .. HandlerEnd : Steady(ii, jj)'
<1>1. PICK w : w = Operand("main")
  OBVIOUS
<1>2. w \in Worker /\ j = 0 /\ i = StartOf(w) + 2 /\ i # StopOf(w) + 3 /\ i # StartOf(w)
  BY <1>1, Where, Places DEF Spawn, Steady
<1>3. Goes(i, j, i + 4, 0) /\ Within(w, i, j, i + 4, 0)
  BY <1>2, Places DEF Spawn, Goes, Within
<1>4. /\ thr' = [thr EXCEPT ![w] = "starting"]
      /\ UNCHANGED <<process, g_running, created, running, joiner, freed, open, sig>>
  BY <1>1 DEF Spawn, flags, threads
<1>5. State(w, i + 4, 0)'
  BY <1>2, <1>4, Places DEF Steady, Types, State, Clearing, Joining, Gone, Alive
<1>6. Types'
  BY <1>4 DEF Steady, Types, Alive
<1>7. \A v \in Worker \ {w} : thr'[v] = thr[v]
  BY <1>4 DEF Steady, Types
<1> QED  BY <1>2, <1>3, <1>4, <1>5, <1>6, <1>7, GoesWithin

LEMMA SpawnFailsKeeps ==
  ASSUME NEW i \in 1 .. ExitAt, NEW j \in 0 .. HandlerEnd, Steady(i, j), SpawnFails
  PROVE  \E ii \in 1 .. ExitAt, jj \in 0 .. HandlerEnd : Steady(ii, jj)'
<1>1. PICK w : w = Operand("main")
  OBVIOUS
<1>2. w \in Worker /\ j = 0 /\ i = StartOf(w) + 2 /\ i # StopOf(w) + 3 /\ i # StartOf(w)
  BY <1>1, Where, Places DEF SpawnFails, Steady
<1>3. Goes(i, j, i + 1, 0) /\ Within(w, i, j, i + 1, 0)
  BY <1>2, Places DEF SpawnFails, Goes, Within
<1>4. UNCHANGED <<process, g_running, created, running, thr, joiner, freed, open, sig>>
  BY DEF SpawnFails, flags, threads
<1>5. State(w, i + 1, 0)'
  BY <1>2, <1>4, Places DEF Steady, State, Clearing, Joining, Gone
<1>6. Types'
  BY <1>4 DEF Steady, Types
<1> QED  BY <1>2, <1>3, <1>4, <1>5, <1>6, GoesWithin

LEMMA DisarmKeeps ==
  ASSUME NEW i \in 1 .. ExitAt, NEW j \in 0 .. HandlerEnd, Steady(i, j), Disarm
  PROVE  \E ii \in 1 .. ExitAt, jj \in 0 .. HandlerEnd : Steady(ii, jj)'
<1>1. PICK w : w = Operand("main")
  OBVIOUS
<1>2. w \in Worker /\ j = 0 /\ i = StartOf(w) + 5 /\ i # StopOf(w) + 3 /\ i # StartOf(w)
  BY <1>1, Where, Places DEF Disarm, Steady
<1>3. Goes(i, j, i + 1, 0) /\ Within(w, i, j, i + 1, 0)
  BY <1>2, Places DEF Disarm, Goes, Within
<1>4. /\ running' = [running EXCEPT ![w] = FALSE]
      /\ UNCHANGED <<process, g_running, created, thr, joiner, freed, open, sig>>
  BY <1>1 DEF Disarm, threads
<1>5. State(w, i + 1, 0)'
  BY <1>2, <1>4, Places DEF Steady, Types, State, Clearing, Joining, Gone
<1>6. Types'
  BY <1>4 DEF Steady, Types
<1>7. \A v \in Worker \ {w} : running'[v] = running[v]
  BY <1>4 DEF Steady, Types
<1> QED  BY <1>2, <1>3, <1>4, <1>5, <1>6, <1>7, GoesWithin

LEMMA FreeKeeps ==
  ASSUME NEW i \in 1 .. ExitAt, NEW j \in 0 .. HandlerEnd, Steady(i, j), Free
  PROVE  \E ii \in 1 .. ExitAt, jj \in 0 .. HandlerEnd : Steady(ii, jj)'
<1>1. PICK w : w = Operand("main")
  OBVIOUS
<1>2. w \in Worker /\ j = 0 /\ i = StopOf(w) + 3 /\ i # StartOf(w)
  BY <1>1, Where, Places DEF Free, Steady
<1>3. Goes(i, j, i + 1, 0) /\ Within(w, i, j, i + 1, 0)
  BY <1>2, Places DEF Free, Goes, Within
<1>4. /\ freed' = freed \cup {w}
      /\ UNCHANGED <<process, g_running, created, running, thr, joiner, open, sig>>
  BY <1>1 DEF Free, flags, threads
<1>5. State(w, i + 1, 0)'
  BY <1>2, <1>4, Places DEF Steady, State, Clearing, Joining, Gone
<1>6. Types'
  BY <1>4 DEF Steady, Types
<1> QED  BY <1>2, <1>3, <1>4, <1>5, <1>6, GoesWithin

\* n instructions of a stop are done, in main's own code or in the handler.
LEMMA GoesOnStopping ==
  ASSUME NEW i \in 1 .. ExitAt, NEW j \in 0 .. HandlerEnd, NEW w \in Worker, NEW k \in 0 .. 2,
         IF j = 0 THEN i = StopOf(w) + k ELSE i = LoopAt /\ j = HandlerStop(w) + k,
         NEW n \in 1 .. 3 - k, Advance("main", n)
  PROVE  \E i2 \in 1 .. ExitAt, j2 \in 0 .. HandlerEnd :
           /\ Goes(i, j, i2, j2) /\ Within(w, i, j, i2, j2)
           /\ IF j = 0 THEN i2 = i + n /\ j2 = 0 ELSE i2 = i /\ j2 = j + n
<1>1. CASE j = 0
  <2>1. i + n \in 1 .. ExitAt /\ 0 \in 0 .. HandlerEnd
    BY <1>1, Places
  <2>2. Goes(i, j, i + n, 0)
    BY <1>1, <2>1 DEF Goes
  <2>3. Within(w, i, j, i + n, 0)
    BY <1>1, Places DEF Within
  <2> QED  BY <1>1, <2>1, <2>2, <2>3
<1>2. CASE j # 0
  <2>1. j + n \in 0 .. HandlerEnd
    BY <1>2, Places
  <2>2. Goes(i, j, i, j + n)
    BY <1>2, <2>1 DEF Goes
  <2>3. Within(w, i, j, i, j + n)
    BY <1>2, Places DEF Within
  <2> QED  BY <1>2, <2>1, <2>2, <2>3
<1> QED  BY <1>1, <1>2

LEMMA TestKeeps ==
  ASSUME NEW i \in 1 .. ExitAt, NEW j \in 0 .. HandlerEnd, Steady(i, j), Test("main")
  PROVE  \E ii \in 1 .. ExitAt, jj \in 0 .. HandlerEnd : Steady(ii, jj)'
<1>1. PICK w : w = Operand("main")
  OBVIOUS
<1>2. /\ w \in Worker /\ i # StopOf(w) + 3 /\ i # StartOf(w)
      /\ IF j = 0 THEN i = StopOf(w) ELSE i = LoopAt /\ j = HandlerStop(w)
  BY <1>1, Where, Places DEF Test, Steady, Place
<1>3. Flag(w) = {running[w]} /\ w \in created
  BY <1>2, Places DEF Steady, Place, Flag
<1>4. PICK n \in 1 .. 3 : /\ Advance("main", n)
                         /\ n = IF running[w] THEN 1 ELSE 3
  BY <1>1, <1>3 DEF Test, Steady, Types
<1>5. PICK i2 \in 1 .. ExitAt, j2 \in 0 .. HandlerEnd :
        /\ Goes(i, j, i2, j2) /\ Within(w, i, j, i2, j2)
        /\ IF j = 0 THEN i2 = i + n /\ j2 = 0 ELSE i2 = i /\ j2 = j + n
  <2>1. IF j = 0 THEN i = StopOf(w) + 0 ELSE i = LoopAt /\ j = HandlerStop(w) + 0
    BY <1>2, Places
  <2> QED  BY <1>2, <1>4, <2>1, GoesOnStopping
<1>6. UNCHANGED <<process, g_running, created, running, thr, joiner, freed, open, sig>>
  BY DEF Test, flags, threads
<1>7. State(w, i2, j2)'
  BY <1>2, <1>4, <1>5, <1>6, Places DEF Steady, Types, State, Clearing, Joining, Gone
<1>8. Types'
  BY <1>6 DEF Steady, Types
<1> QED  BY <1>2, <1>5, <1>6, <1>7, <1>8, GoesWithin

LEMMA ClearKeeps ==
  ASSUME NEW i \in 1 .. ExitAt, NEW j \in 0 .. HandlerEnd, Steady(i, j), Clear("main")
  PROVE  \E ii \in 1 .. ExitAt, jj \in 0 .. HandlerEnd : Steady(ii, jj)'
<1>1. PICK w : w = Operand("main")
  OBVIOUS
<1>2. /\ w \in Worker /\ i # StopOf(w) + 3 /\ i # StartOf(w)
      /\ IF j = 0 THEN i = StopOf(w) + 1 ELSE i = LoopAt /\ j = HandlerStop(w) + 1
  BY <1>1, Where, Places DEF Clear, Steady, Place
<1>3. PICK i2 \in 1 .. ExitAt, j2 \in 0 .. HandlerEnd :
        /\ Goes(i, j, i2, j2) /\ Within(w, i, j, i2, j2)
        /\ IF j = 0 THEN i2 = i + 1 /\ j2 = 0 ELSE i2 = i /\ j2 = j + 1
  BY <1>2, GoesOnStopping DEF Clear
<1>4. /\ running' = [running EXCEPT ![w] = FALSE]
      /\ UNCHANGED <<process, g_running, created, thr, joiner, freed, open, sig>>
  BY <1>1 DEF Clear, threads
<1>5. State(w, i2, j2)'
  <2>1. State(w, i, j) /\ running'[w] = FALSE /\ thr'[w] = thr[w] /\ joiner'[w] = joiner[w] /\ i <= StopOf(w) + 2
    BY <1>2, <1>4, Places DEF Steady, Types
  <2>2. i > StartOf(w) + 5 /\ running[w] /\ thr[w] \in Alive
    BY <1>2, <2>1, Places DEF State, Clearing
  <2>3. thr[w] # "none"
    BY <2>2 DEF Alive
  <2> QED  BY <1>2, <1>3, <2>1, <2>2, <2>3, Places DEF State, Clearing, Joining
<1>6. Types'
  BY <1>4 DEF Steady, Types
<1>7. \A v \in Worker \ {w} : running'[v] = running[v]
  BY <1>4 DEF Steady, Types
<1> QED  BY <1>2, <1>3, <1>4, <1>5, <1>6, <1>7, GoesWithin

LEMMA JoinEndsKeeps ==
  ASSUME NEW i \in 1 .. ExitAt, NEW j \in 0 .. HandlerEnd, Steady(i, j), JoinEnds("main")
  PROVE  \E ii \in 1 .. ExitAt, jj \in 0 .. HandlerEnd : Steady(ii, jj)'
<1>1. PICK w : w = Operand("main")
  OBVIOUS
<1>2. /\ w \in Worker /\ i # StopOf(w) + 3 /\ i # StartOf(w)
      /\ IF j = 0 THEN i = StopOf(w) + 2 ELSE i = LoopAt /\ j = HandlerStop(w) + 2
  BY <1>1, Where, Places DEF JoinEnds, Steady, Place
<1>3. PICK i2 \in 1 .. ExitAt, j2 \in 0 .. HandlerEnd :
        /\ Goes(i, j, i2, j2) /\ Within(w, i, j, i2, j2)
        /\ IF j = 0 THEN i2 = i + 1 /\ j2 = 0 ELSE i2 = i /\ j2 = j + 1
  BY <1>2, GoesOnStopping DEF JoinEnds
<1>4. /\ thr[w] = "ended"
      /\ UNCHANGED <<process, g_running, created, running, thr, joiner, freed, open, sig>>
  BY <1>1 DEF JoinEnds, flags, threads
<1>5. State(w, i2, j2)'
  BY <1>2, <1>3, <1>4, Places DEF Steady, State, Clearing, Joining, Gone
<1>6. Types'
  BY <1>4 DEF Steady, Types
<1> QED  BY <1>2, <1>3, <1>4, <1>5, <1>6, GoesWithin

LEMMA JoinBeginsKeeps ==
  ASSUME NEW i \in 1 .. ExitAt, NEW j \in 0 .. HandlerEnd, Steady(i, j), JoinBegins("main")
  PROVE  Steady(i, j)'
<1>1. PICK w : w = Operand("main")
  OBVIOUS
<1>2. w \in Worker
  BY <1>1, Where DEF JoinBegins, Steady
<1>3. /\ joiner' = [joiner EXCEPT ![w] = "main"]
      /\ UNCHANGED <<process, stack, g_running, created, running, thr, freed, open, pending, signals>>
  BY <1>1 DEF JoinBegins, flags, threads, sig
<1>4. Place(i, j)'
  BY <1>3, StaysThere DEF Steady
<1>5. Types'
  BY <1>2, <1>3 DEF Steady, Types, Thread
<1>6. \A v \in Worker : State(v, i, j)'
  BY <1>2, <1>3 DEF Steady, Types, State, Clearing, Joining, Gone
<1> QED  BY <1>4, <1>5, <1>6 DEF Steady

\* A join finds the thread, and nobody else that waits for it.
LEMMA JoinIsSound ==
  ASSUME NEW i \in 1 .. ExitAt, NEW j \in 0 .. HandlerEnd, Steady(i, j),
         JoinRefused("main") \/ JoinNothing("main")
  PROVE  FALSE
<1>1. PICK w : w = Operand("main")
  OBVIOUS
<1>2. At("main", "join")
  BY DEF JoinRefused, JoinNothing
<1>3. /\ w \in Worker
      /\ IF j = 0 THEN i = StopOf(w) + 2 ELSE i = LoopAt /\ j = HandlerStop(w) + 2
  BY <1>1, <1>2, Where DEF Steady, Place
<1>4. w \notin freed /\ thr[w] # "none" /\ joiner[w] \in {"nobody", "main"}
  BY <1>3, Places DEF Steady, Place, State, Joining
<1>5. w # "main" /\ "main" \notin Worker
  BY <1>3, Layout
<1> QED  BY <1>1, <1>4, <1>5 DEF JoinRefused, JoinNothing

-----------------------------------------------------------------------------
\* The rest of what main does.

LEMMA QuitKeeps ==
  ASSUME NEW i \in 1 .. ExitAt, NEW j \in 0 .. HandlerEnd, Steady(i, j), Quit("main")
  PROVE  \E ii \in 1 .. ExitAt, jj \in 0 .. HandlerEnd : Steady(ii, jj)'
<1>1. j = 3 /\ i = LoopAt
  BY Where DEF Quit, Steady, Place
<1>2. Goes(i, j, i, 4)
  BY <1>1, Layout DEF Quit, Goes
<1>3. /\ UNCHANGED <<process, created, running, thr, joiner, freed, sig>>
      /\ (open' <=> i <= CloseAt)
  BY DEF Quit, threads, Steady, Place
<1> QED  BY <1>1, <1>2, <1>3, GoesElsewhere

LEMMA PrintKeeps ==
  ASSUME NEW i \in 1 .. ExitAt, NEW j \in 0 .. HandlerEnd, Steady(i, j), Lock("main") \/ Unlock("main")
  PROVE  \E ii \in 1 .. ExitAt, jj \in 0 .. HandlerEnd : Steady(ii, jj)'
<1>1. UNCHANGED <<process, g_running, created, running, thr, joiner, freed, open, sig>> /\ Advance("main", 1)
  BY DEF Lock, Unlock, flags, threads
<1>2. PICK k \in 0 .. 1 : IF j = 0 THEN PrintsAt(i, k) ELSE j = 1 + k
  <2>1. CASE Lock("main")
    <3>1. IF j = 0 THEN PrintsAt(i, 0) ELSE j = 1 + 0
      BY <2>1, Where DEF Lock, Steady
    <3> QED  BY <3>1
  <2>2. CASE Unlock("main")
    <3>1. IF j = 0 THEN PrintsAt(i, 1) ELSE j = 1 + 1
      BY <2>2, Where DEF Unlock, Steady
    <3> QED  BY <3>1
  <2> QED  BY <2>1, <2>2
<1>3. CASE j # 0
  <2>1. i = LoopAt /\ j + 1 <= 4 /\ i <= CloseAt
    BY <1>2, <1>3, Layout DEF Steady, Place
  <2>2. Goes(i, j, i, j + 1)
    BY <1>1, <1>2, <1>3, Layout DEF Goes
  <2>3. open' <=> i <= CloseAt
    BY <1>1 DEF Steady, Place
  <2> QED  BY <1>1, <2>1, <2>2, <2>3, GoesElsewhere
<1>4. CASE j = 0 /\ \E w \in Worker : i = StartOf(w) + 3 + k
  <2>1. PICK w \in Worker : i = StartOf(w) + 3 + k
    BY <1>4
  <2>2. Goes(i, j, i + 1, 0) /\ Within(w, i, j, i + 1, 0) /\ i # StopOf(w) + 3 /\ i # StartOf(w)
    BY <1>1, <1>4, <2>1, Places DEF Goes, Within
  <2>3. State(w, i + 1, 0)'
    BY <1>1, <1>4, <2>1, Places DEF Steady, State, Clearing, Joining, Gone
  <2>4. Types'
    BY <1>1 DEF Steady, Types
  <2> QED  BY <1>1, <2>1, <2>2, <2>3, <2>4, GoesWithin
<1>5. CASE j = 0 /\ i \in {LoopAt - 3 + k, CloseAt + 1 + k}
  <2>1. Goes(i, j, i + 1, 0) /\ i # LoopAt /\ (i <= CloseAt <=> i + 1 <= CloseAt)
    BY <1>1, <1>5, Layout DEF Goes
  <2>2. pending = {} /\ (open' <=> i + 1 <= CloseAt)
    BY <1>1, <2>1 DEF Steady, Place
  <2>3. (LoopAt - 3 <= i /\ i + 1 <= LoopAt + 1) \/ CloseAt <= i
    BY <1>5, Layout
  <2> QED  BY <1>1, <1>5, <2>1, <2>2, <2>3, GoesElsewhere
<1> QED  BY <1>2, <1>3, <1>4, <1>5 DEF PrintsAt

LEMMA ApiKeeps ==
  ASSUME NEW i \in 1 .. ExitAt, NEW j \in 0 .. HandlerEnd, Steady(i, j), Api
  PROVE  \E ii \in 1 .. ExitAt, jj \in 0 .. HandlerEnd : Steady(ii, jj)'
<1>1. j = 0 /\ i = LoopAt - 1
  BY Where DEF Api, Steady
<1>2. PICK n \in 1 .. 2 : Advance("main", n)
  BY DEF Api
<1>3. Goes(i, j, i + n, 0)
  BY <1>1, <1>2, Layout DEF Goes
<1>4. UNCHANGED <<process, g_running, created, running, thr, joiner, freed, open, sig>>
  BY DEF Api, flags, threads
<1>5. /\ i + n <= LoopAt + 1 /\ i + n <= CloseAt /\ LoopAt - 3 <= i
      /\ i <= CloseAt /\ i # LoopAt
  BY <1>1, Layout
<1>6. pending = {} /\ (open' <=> i + n <= CloseAt)
  BY <1>4, <1>5 DEF Steady, Place
<1> QED  BY <1>1, <1>3, <1>4, <1>5, <1>6, GoesElsewhere

LEMMA LoopKeeps ==
  ASSUME NEW i \in 1 .. ExitAt, NEW j \in 0 .. HandlerEnd, Steady(i, j), Loop
  PROVE  \E ii \in 1 .. ExitAt, jj \in 0 .. HandlerEnd : Steady(ii, jj)'
<1>1. j = 0 /\ i = LoopAt
  BY Where DEF Loop, Steady
<1>2. Goes(i, j, i + 1, 0)
  BY <1>1, Layout DEF Loop, Goes
<1>3. UNCHANGED <<process, g_running, created, running, thr, joiner, freed, open, sig>> /\ ~g_running
  BY DEF Loop, flags, threads
<1>4. i + 1 <= LoopAt + 1 /\ i + 1 <= CloseAt /\ LoopAt - 3 <= i /\ i <= CloseAt
  BY <1>1, Layout
<1>5. pending = {} /\ (open' <=> i + 1 <= CloseAt)
  BY <1>3, <1>4 DEF Steady, Place
<1> QED  BY <1>1, <1>2, <1>3, <1>4, <1>5, GoesElsewhere

LEMMA DisconnectKeeps ==
  ASSUME NEW i \in 1 .. ExitAt, NEW j \in 0 .. HandlerEnd, Steady(i, j), Disconnect
  PROVE  \E ii \in 1 .. ExitAt, jj \in 0 .. HandlerEnd : Steady(ii, jj)'
<1>1. j = 0 /\ i = CloseAt
  BY Where DEF Disconnect, Steady
<1>2. Goes(i, j, i + 1, 0)
  BY <1>1, Layout DEF Disconnect, Goes
<1>3. /\ UNCHANGED <<process, g_running, created, running, thr, joiner, freed, sig>>
      /\ pending = {} /\ open' = FALSE
  BY <1>1, Layout DEF Disconnect, flags, threads, Steady, Place
<1>4. CloseAt <= i /\ ~(i + 1 <= CloseAt)
  BY <1>1, Layout
<1>5. open' <=> i + 1 <= CloseAt
  BY <1>3, <1>4
<1> QED  BY <1>1, <1>2, <1>3, <1>4, <1>5, GoesElsewhere

LEMMA ExitKeeps ==
  ASSUME NEW i \in 1 .. ExitAt, NEW j \in 0 .. HandlerEnd, Steady(i, j), Exit
  PROVE  Steady(i, j)'
<1>1. /\ process' = "exited"
      /\ UNCHANGED <<stack, g_running, created, running, thr, joiner, freed, open, pending, signals>>
  BY DEF Exit, flags, threads, sig
<1>2. Place(i, j)'
  BY <1>1 DEF Steady, Place, Stacked
<1>3. Types' /\ \A v \in Worker : State(v, i, j)'
  BY <1>1 DEF Steady, Types, State, Clearing, Joining, Gone
<1> QED  BY <1>2, <1>3 DEF Steady

LEMMA ReturnKeeps ==
  ASSUME NEW i \in 1 .. ExitAt, NEW j \in 0 .. HandlerEnd, Steady(i, j), Return("main")
  PROVE  \E ii \in 1 .. ExitAt, jj \in 0 .. HandlerEnd : Steady(ii, jj)'
<1>1. PICK s \in Sigs \cup {"none"} : Stacked(i, j, s)
  BY DEF Steady, Place
<1>2. PICK f : f = Frames(i, j, s)
  OBVIOUS
<1>3. stack["main"] = f /\ "main" \in Thread
  BY <1>1, <1>2 DEF Stacked, Thread
<1>4. Last(f).code = <<>>
  BY <1>3 DEF Return
<1>5. j \in 1 .. HandlerEnd
  <2>1. CASE j = 0
    <3>1. Last(f).code = SubSeq(MainCode, i, Len(MainCode))
      BY <1>2, <2>1, TopOfMain
    <3>2. i \in 1 .. Len(MainCode) + 1 /\ i <= Len(MainCode)
      BY CodesAre
    <3>3. Len(Last(f).code) = Len(MainCode) - i + 1
      BY <3>1, <3>2, CodesAre, Rest
    <3> QED  BY <1>4, <3>2, <3>3, CodesAre
  <2> QED  BY <2>1, CodesAre
<1>6. j = HandlerEnd
  <2>1. Last(f).code = SubSeq(HandlerCode, j, Len(HandlerCode))
    BY <1>2, <1>5, TopOfHandler
  <2>2. j \in 1 .. Len(HandlerCode) + 1
    BY <1>5, CodesAre
  <2>3. Len(Last(f).code) = Len(HandlerCode) - j + 1
    BY <2>1, <2>2, CodesAre, Rest
  <2> QED  BY <1>4, <2>2, <2>3, CodesAre
<1>7. Front(f) = Frames(i, 0, s)
  <2>1. PICK base : base = [sig |-> "none", code |-> SubSeq(MainCode, i, ExitAt)]
    OBVIOUS
  <2>2. PICK top : top = [sig |-> s, code |-> SubSeq(HandlerCode, j, HandlerEnd - 1)]
    OBVIOUS
  <2>3. j # 0
    BY <1>5, CodesAre
  <2>4. f = <<base, top>>
    BY <1>2, <2>1, <2>2, <2>3, Zenon DEF Frames
  <2>5. Front(f) = <<base>>
    <3>1. f \in Seq({base, top}) /\ Len(f) = 2 /\ f[1] = base
      BY <2>4
    <3>2. Front(f) \in Seq({base, top}) /\ Len(Front(f)) = 1 /\ Front(f)[1] = base
      BY <3>1 DEF Front
    <3> QED  BY <3>2
  <2> QED  BY <2>1, <2>5, Zenon DEF Frames
<1>8. Stacked(i, 0, s)'
  BY <1>1, <1>3, <1>7 DEF Return, Stacked
<1>9. /\ UNCHANGED <<process, g_running, created, running, thr, joiner, freed, open, pending, signals>>
      /\ 0 \in 0 .. HandlerEnd
  BY Layout DEF Return, flags, threads, sig
<1>10. Place(i, 0)'
  BY <1>5, <1>8, <1>9 DEF Steady, Place
<1>11. ASSUME NEW w \in Worker PROVE State(w, i, 0)'
  <2>1. State(w, i, j) /\ i = LoopAt
    BY <1>5 DEF Steady, Place
  <2> QED  BY <1>6, <1>9, <2>1, Places DEF State, Clearing, Joining, Gone
<1>12. Types'
  BY <1>9 DEF Steady, Types
<1> QED  BY <1>9, <1>10, <1>11, <1>12 DEF Steady

-----------------------------------------------------------------------------
\* What the workers do by themselves, and the signals.

\* A worker does not run through a struct that is gone.
LEMMA AwakeIsSound ==
  ASSUME NEW i \in 1 .. ExitAt, NEW j \in 0 .. HandlerEnd, Steady(i, j),
         NEW w \in Worker, ~Gone(w)
  PROVE  /\ Flag(w) = {running[w]} /\ i > StartOf(w) + 5 /\ i <= StopOf(w) + 2
         /\ ~running[w] => Joining(w, i, j)
<1>1. State(w, i, j) /\ freed = {v \in Worker : i > StopOf(v) + 3} /\ (j # 0 => i = LoopAt)
      /\ running[w] \in BOOLEAN
  BY DEF Steady, Place, Types
<1>2. i > StartOf(w) + 5
  BY <1>1, Places DEF State, Gone
<1>3. ~running[w] => Joining(w, i, j)
  BY <1>1, <1>2 DEF State, Gone
<1>4. i <= StopOf(w) + 2
  BY <1>1, <1>3, Places DEF State, Joining
<1> QED  BY <1>1, <1>2, <1>3, <1>4, Places DEF Flag

LEMMA WorkerKeeps ==
  ASSUME NEW i \in 1 .. ExitAt, NEW j \in 0 .. HandlerEnd, Steady(i, j),
         NEW w \in Worker, PrintBegins(w) \/ WorkerStep(w) \/ Worked(w)
  PROVE  Steady(i, j)'
<1>1. CASE PrintBegins(w)
  <2>1. UNCHANGED <<process, stack, g_running, created, running, thr, joiner, freed, open, pending, signals>>
    BY <1>1 DEF PrintBegins, flags, sig
  <2>2. Place(i, j)'
    BY <2>1, StaysThere DEF Steady
  <2>3. Types' /\ \A v \in Worker : State(v, i, j)'
    BY <2>1 DEF Steady, Types, State, Clearing, Joining, Gone
  <2> QED  BY <2>2, <2>3 DEF Steady
<1>2. ASSUME WorkerStep(w) \/ Worked(w)
      PROVE  Steady(i, j)'
  <2>1. PICK what \in Alive \cup {"ended"} :
          /\ thr' = [thr EXCEPT ![w] = what]
          /\ what = "stopping" => FALSE \in Flag(w)
          /\ what = "ended" => thr[w] = "stopping"
    BY <1>2 DEF WorkerStep, PrintEnds, Work, Worked, Leaves, Awake, Alive
  <2>2. thr[w] \in Alive
    BY <1>2 DEF WorkerStep, PrintEnds, Work, Worked, Leaves, Awake, Alive, Prints
  <2>3. UNCHANGED <<process, stack, g_running, created, running, joiner, freed, open, pending, signals>>
    BY <1>2 DEF WorkerStep, PrintEnds, Work, Worked, Leaves, flags, sig
  <2>4. Place(i, j)'
    BY <2>3, StaysThere DEF Steady
  <2>5. Types'
    BY <2>1, <2>3 DEF Steady, Types
  <2>6. State(w, i, j)'
    <3>1. /\ Flag(w) = {running[w]} /\ i > StartOf(w) + 5
          /\ ~running[w] => Joining(w, i, j)
      BY <2>2, AwakeIsSound DEF Gone, Alive
    <3>2. State(w, i, j) /\ running[w] \in BOOLEAN /\ thr'[w] = what
      BY <2>1 DEF Steady, Types
    <3>3. what \in {"stopping", "ended"} => ~running[w]
      BY <2>1, <3>1, <3>2 DEF State
    <3>4. what # "none"
      BY DEF Alive
    <3> QED  BY <2>3, <3>1, <3>2, <3>3, <3>4, Places DEF State, Clearing, Joining, Gone
  <2>7. ASSUME NEW v \in Worker \ {w} PROVE State(v, i, j)'
    <3>1. State(v, i, j) /\ thr'[v] = thr[v]
      BY <2>1, <2>7 DEF Steady, Types
    <3> QED  BY <2>3, <3>1 DEF State, Clearing, Joining, Gone
  <2> QED  BY <2>4, <2>5, <2>6, <2>7 DEF Steady
<1> QED  BY <1>1, <1>2

LEMMA SendKeeps ==
  ASSUME NEW i \in 1 .. ExitAt, NEW j \in 0 .. HandlerEnd, Steady(i, j),
         NEW s \in Sigs, Send(s), Calm'
  PROVE  Steady(i, j)'
<1>1. /\ pending' = pending \cup {s} /\ signals' = signals + 1 /\ process = "up"
      /\ UNCHANGED <<process, stack, g_running, created, running, thr, joiner, freed, open>>
  BY DEF Send, flags, threads
<1>2. Head(stack["main"][1].code).op = "loop"
  BY DEF Send, Calm
<1>3. signals = 0
  BY <1>1 DEF Calm, Steady, Place
<1>4. j = 0 /\ g_running /\ pending = {}
  BY <1>3 DEF Steady, Place
<1>5. i = LoopAt
  <2>1. PICK t : Stacked(i, 0, t)
    BY <1>4 DEF Steady, Place
  <2>2. PICK f : f = Frames(i, 0, t)
    OBVIOUS
  <2>3. stack["main"] = f
    BY <2>1, <2>2 DEF Stacked, Thread
  <2>4. /\ f # <<>> /\ Last(f).code = SubSeq(MainCode, i, Len(MainCode))
        /\ f[1].code = SubSeq(MainCode, i, Len(MainCode))
    BY <2>2, TopOfMain
  <2>5. i \in 1 .. Len(MainCode) + 1 /\ i <= Len(MainCode)
    BY CodesAre
  <2>6. Len(SubSeq(MainCode, i, Len(MainCode))) = Len(MainCode) - i + 1
    BY <2>5, CodesAre, Rest
  <2>7. Last(f).code # <<>>
    <3>1. Len(Last(f).code) = Len(MainCode) - i + 1 /\ Len(MainCode) \in Nat /\ i \in Nat
      BY <2>4, <2>5, <2>6, CodesAre
    <3>2. Len(Last(f).code) # 0
      BY <2>5, <3>1
    <3> QED  BY <3>2
  <2>8. At("main", "loop")
    BY <1>1, <1>2, <2>3, <2>4, <2>7 DEF At
  <2> QED  BY <2>8, Where DEF Steady
<1>6. Place(i, j)'
  BY <1>1, <1>3, <1>4, <1>5 DEF Steady, Place, Stacked
<1>7. Types' /\ \A v \in Worker : State(v, i, j)'
  BY <1>1 DEF Steady, Types, State, Clearing, Joining, Gone
<1> QED  BY <1>6, <1>7 DEF Steady

\* The signal comes to main, which is in its loop.
LEMMA DeliverKeeps ==
  ASSUME NEW i \in 1 .. ExitAt, NEW j \in 0 .. HandlerEnd, Steady(i, j),
         NEW s \in Sigs, NEW th \in Thread, Deliver(s, th)
  PROVE  \E ii \in 1 .. ExitAt, jj \in 0 .. HandlerEnd : Steady(ii, jj)'
<1>1. /\ s \in pending /\ pending' = pending \ {s}
      /\ stack' = [stack EXCEPT ![th] = Append(@, [sig |-> s, code |-> HandlerCode])]
      /\ UNCHANGED <<process, g_running, created, running, thr, joiner, freed, open, signals>>
      /\ th # "main" => ~Takes("main", s)
  BY DEF Deliver, flags, threads
<1>2. i = LoopAt /\ j = 0 /\ signals = 1 /\ pending' = {} /\ g_running
  BY <1>1 DEF Steady, Place
<1>3. PICK t : Stacked(i, 0, t)
  BY <1>2 DEF Steady, Place
<1>4. PICK base : base = [sig |-> "none", code |-> SubSeq(MainCode, i, ExitAt)]
  OBVIOUS
<1>5. stack["main"] = <<base>> /\ "main" \in Thread
  <2>1. Frames(i, 0, t) = <<base>>
    BY <1>4, Zenon DEF Frames
  <2> QED  BY <1>3, <2>1 DEF Stacked, Thread
<1>6. th = "main"
  <2>1. base.sig # s
    BY <1>4, WorkersAssumption
  <2>2. \A k \in DOMAIN stack["main"] : stack["main"][k].sig # s
    BY <1>5, <2>1
  <2> QED  BY <1>1, <2>2 DEF Takes
<1>7. Stacked(i, 1, s)'
  <2>1. PICK top : top = [sig |-> s, code |-> HandlerCode]
    OBVIOUS
  <2>2. SubSeq(HandlerCode, 1, HandlerEnd - 1) = HandlerCode
    BY CodesAre, SubSeqFull
  <2>3. Frames(i, 1, s) = <<base, top>>
    <3>1. 1 # 0
      OBVIOUS
    <3> QED  BY <1>4, <2>1, <2>2, <3>1, Zenon DEF Frames
  <2>4. Append(stack["main"], top) = <<base, top>>
    <3>1. <<base>> \in Seq({base, top}) /\ Len(<<base>>) = 1 /\ <<base>>[1] = base
      OBVIOUS
    <3>2. PICK a : a = Append(<<base>>, top)
      OBVIOUS
    <3>3. a \in Seq({base, top}) /\ Len(a) = 2 /\ a[1] = base /\ a[2] = top
      BY <3>1, <3>2, AppendProperties
    <3>4. a = <<base, top>>
      BY <3>3
    <3> QED  BY <1>5, <3>2, <3>4, Zenon
  <2>5. stack' = [u \in Thread |-> IF u = "main" THEN <<base, top>> ELSE <<>>]
    BY <1>1, <1>3, <1>5, <1>6, <2>1, <2>4 DEF Stacked
  <2> QED  BY <2>3, <2>5 DEF Stacked
<1>8. Place(i, 1)'
  BY <1>1, <1>2, <1>7 DEF Steady, Place
<1>9. 1 \in 0 .. HandlerEnd
  BY Layout
<1>10. ASSUME NEW w \in Worker PROVE State(w, i, 1)'
  <2>1. State(w, i, j)
    BY DEF Steady
  <2> QED  BY <1>1, <1>2, <2>1, Places DEF State, Clearing, Joining, Gone
<1>11. Types'
  BY <1>1 DEF Steady, Types
<1> QED  BY <1>8, <1>9, <1>10, <1>11 DEF Steady

\* Only main runs its code.
LEMMA OnlyMain ==
  ASSUME NEW i \in 1 .. ExitAt, NEW j \in 0 .. HandlerEnd, Steady(i, j),
         NEW th \in Thread, ThreadStep(th) \/ Lock(th)
  PROVE  th = "main"
<1>1. stack[th] # <<>>
  BY DEF ThreadStep, Lock, Unlock, Quit, Test, Clear, JoinBegins, JoinEnds, JoinRefused, JoinNothing, Return, At
<1> QED  BY <1>1 DEF Steady, Place, Stacked

-----------------------------------------------------------------------------
LEMMA InitIsSteady ==
  ASSUME Init
  PROVE  IInv
<1>1. Frames(1, 0, "none") = <<[sig |-> "none", code |-> MainCode]>>
  <2>1. SubSeq(MainCode, 1, ExitAt) = MainCode
    BY CodesAre, SubSeqFull
  <2> QED  BY <2>1, Zenon DEF Frames
<1>2. Stacked(1, 0, "none")
  BY <1>1 DEF Init, Stacked
<1>3. 1 \in 1 .. ExitAt /\ 0 \in 0 .. HandlerEnd /\ 1 <= CloseAt
  BY Layout
<1>4. created = {w \in Worker : 1 > StartOf(w)} /\ freed = {w \in Worker : 1 > StopOf(w) + 3}
  <2>1. \A w \in Worker : ~(1 > StartOf(w)) /\ ~(1 > StopOf(w) + 3)
    BY Places
  <2> QED  BY <2>1 DEF Init
<1>5. Place(1, 0)
  <2>1. open <=> 1 <= CloseAt
    BY <1>3, Zenon DEF Init
  <2> QED  BY <1>2, <1>4, <2>1 DEF Init, Place
<1>6. ASSUME NEW w \in Worker PROVE State(w, 1, 0)
  BY <1>6, Places DEF Init, State, Clearing, Joining, Gone
<1>7. Types
  BY DEF Init, Types
<1> QED  BY <1>3, <1>5, <1>6, <1>7 DEF Init, IInv, Steady

LEMMA NextKeeps ==
  ASSUME IInv, [Next]_vars
  PROVE  IInv'
<1>1. signals' \in Nat /\ outside' \in BOOLEAN /\ (Calm' => Calm)
  <2>1. CASE UNCHANGED <<signals, outside>>
    BY <2>1 DEF IInv, Calm
  <2>2. CASE \E s \in Sigs : Send(s)
    BY <2>2 DEF IInv, Calm, Send
  <2>3. UNCHANGED <<signals, outside>> \/ \E s \in Sigs : Send(s)
    BY DEF Next, Step, TakesStderr, vars, sig, MainStep, Create, Disabled, Arm, Spawn, SpawnFails, Disarm,
           Api, Loop, Free, Disconnect, Exit, ThreadStep, Lock, Unlock, Quit, Test, Clear, JoinBegins,
           JoinEnds, JoinRefused, JoinNothing, Return, WorkerStep, PrintBegins, PrintEnds, Work, Worked,
           Leaves, Deliver
  <2> QED  BY <2>1, <2>2, <2>3
<1>2. ASSUME Calm' PROVE \E ii \in 1 .. ExitAt, jj \in 0 .. HandlerEnd : Steady(ii, jj)'
  <2>1. PICK i \in 1 .. ExitAt, j \in 0 .. HandlerEnd : Steady(i, j)
    BY <1>1, <1>2 DEF IInv
  <2>2. CASE MainStep
    BY <2>1, <2>2, CreateKeeps, DisabledKeeps, ArmKeeps, SpawnKeeps, SpawnFailsKeeps, DisarmKeeps,
       ApiKeeps, LoopKeeps,
       FreeKeeps, DisconnectKeeps, ExitKeeps DEF MainStep
  <2>3. ASSUME NEW th \in Thread, ThreadStep(th) \/ Lock(th)
        PROVE  \E ii \in 1 .. ExitAt, jj \in 0 .. HandlerEnd : Steady(ii, jj)'
    <3>1. ThreadStep("main") \/ Lock("main")
      BY <2>1, <2>3, OnlyMain
    <3> QED  BY <2>1, <3>1, PrintKeeps, QuitKeeps, TestKeeps, ClearKeeps, JoinBeginsKeeps, JoinEndsKeeps, JoinIsSound,
                ReturnKeeps DEF ThreadStep
  <2>4. CASE \E w \in Worker : PrintBegins(w) \/ WorkerStep(w) \/ Worked(w)
    BY <2>1, <2>4, WorkerKeeps
  <2>5. CASE \E s \in Sigs : Send(s)
    BY <1>2, <2>1, <2>5, SendKeeps
  <2>6. CASE \E s \in Sigs, th \in Thread : Deliver(s, th)
    BY <2>1, <2>6, DeliverKeeps
  <2>7. CASE UNCHANGED vars
    <3>1. Place(i, j)'
      BY <2>1, <2>7, StaysThere DEF vars, flags, threads, sig, Steady
    <3>2. Types' /\ \A v \in Worker : State(v, i, j)'
      BY <2>1, <2>7 DEF vars, flags, threads, Steady, Types, State, Clearing, Joining, Gone
    <3> QED  BY <2>1, <3>1, <3>2 DEF Steady
  <2> QED  BY <2>2, <2>3, <2>4, <2>5, <2>6, <2>7 DEF Next, Step, TakesStderr
<1> QED  BY <1>1, <1>2 DEF IInv

\* However the steps of main, of the workers and of the kernel interleave.
THEOREM Invariance == Spec => []IInv
<1>1. Init => IInv
  BY InitIsSteady
<1>2. IInv /\ [Next]_vars => IInv'
  BY NextKeeps
<1> QED  BY <1>1, <1>2, PTL DEF Spec

\* jiggler.h and typer.h, "Stop the ... thread and wait for it to exit." and
\* "Must be stopped first.": when at most one signal comes, and finds main in
\* its loop, a worker's struct is freed, and the transport closed, only once
\* its thread is gone.
THEOREM TornDownInOrderHolds == Spec => []TornDownInOrder
<1>1. IInv => TornDownInOrder
  <2> SUFFICES ASSUME IInv, Calm PROVE StoppedBeforeFreed /\ DisconnectIsLast
    BY DEF TornDownInOrder
  <2>1. PICK i \in 1 .. ExitAt, j \in 0 .. HandlerEnd : Steady(i, j)
    BY DEF IInv
  <2>2. \A w \in Worker : ~Gone(w) => i <= StopOf(w) + 2
    BY <2>1, AwakeIsSound
  <2>3. StoppedBeforeFreed
    BY <2>1, <2>2, Places DEF StoppedBeforeFreed, Steady, Place
  <2>4. DisconnectIsLast
    <3>1. ASSUME ~open, NEW w \in Worker PROVE Gone(w)
      <4>1. ~(i <= CloseAt)
        BY <2>1, <3>1 DEF Steady, Place
      <4> QED  BY <2>2, <4>1, Places
    <3> QED  BY <3>1 DEF DisconnectIsLast
  <2> QED  BY <2>3, <2>4
<1> QED  BY <1>1, Invariance, PTL

\* Nor is a thread joined that was never created, or through a struct that is
\* gone.
THEOREM NoStrayJoinHolds == Spec => []NoStrayJoin
<1>1. IInv => NoStrayJoin
  BY DEF IInv, NoStrayJoin, Steady, Place
<1> QED  BY <1>1, Invariance, PTL

-----------------------------------------------------------------------------
\* The configuration.

\* What is written as a key, and what a scalar may be.
Name == Key \cup Section \cup {"unknown"}
Token == Name \cup Value \cup {"default"}

Collection ==
  [of : Section \cup {"document", "tls", "prompts", "think_pause_secs", "sequence", "mapping"},
   key : Name \cup {NoKey}, used : SUBSET Name, items : Nat]

\* Of the nodes of the document only the outermost is the document itself.
Nested ==
  /\ nodes \in Seq(Collection) /\ Len(nodes) >= 1
  /\ \A i \in 1 .. Len(nodes) : nodes[i].of = "document" <=> i = 1
  /\ \A i \in 1 .. Len(nodes) : nodes[i].key # NoKey => nodes[i].key \in nodes[i].used

Lists == prompts \in Seq(Token) /\ listed \in Seq(Token) /\ idx <= events

\* The collection the parser takes itself to be in, and what it holds, when
\* the innermost one is a section, and when it is in one.
InSection ==
  /\ nodes[1].key \in Section /\ nodes[2].of = nodes[1].key
  /\ Len(nodes) = 2 => state = nodes[1].key /\ current_key = nodes[2].key

InPrompts ==
  /\ nodes[1].key = "llm" /\ nodes[2].key = "prompts" /\ nodes[3].of = "prompts"
  /\ state = "prompts" /\ current_key = NoKey

InPause ==
  /\ nodes[1].key = "typer" /\ nodes[2].key = "think_pause_secs" /\ nodes[3].of = "think_pause_secs"
  /\ state = "pause" /\ current_key = NoKey /\ idx = nodes[3].items

\* The parser comes to the mapping with its first key, which it takes for the
\* value of tls.
InTls ==
  /\ nodes[1].key = "api" /\ nodes[2].key = "tls" /\ nodes[3].of = "tls"
  /\ IF nodes[3].used = {} THEN state = "api" /\ current_key = "tls" ELSE state = "tls"

\* Where the document is says where the parser is.
InStep ==
  /\ Len(nodes) <= 3
  /\ Len(nodes) = 1 => /\ nodes[1].key \in Section \cup {NoKey} /\ current_key = NoKey
                       /\ state = IF nodes[1].key = NoKey THEN "root" ELSE nodes[1].key
  /\ Len(nodes) >= 2 => InSection
  /\ Len(nodes) = 3 => InPrompts \/ InPause \/ InTls

\* The array is emptied once, where its sequence begins.
ResetOnce ==
  prompts_reset =>
    /\ "llm" \in nodes[1].used
    /\ Len(nodes) = 1 => nodes[1].key # "llm"
    /\ Len(nodes) >= 2 /\ nodes[1].key = "llm" =>
         /\ "prompts" \in nodes[2].used
         /\ nodes[2].key = "prompts" => Len(nodes) = 3

AsWritten == InStep /\ ResetOnce /\ FieldsAsWritten /\ PromptsAsWritten

ConfigInv == ConfigTypeOK /\ Nested /\ Lists /\ (strange = {} => AsWritten)

-----------------------------------------------------------------------------
LEMMA NamesApart ==
  /\ {"typer", "llm", "api"} \subseteq Section /\ NoKey \notin Key \cup Section
  /\ Section \cap {"root", "tls", "prompts", "pause", "unknown", "document", "sequence", "mapping",
                   "think_pause_secs"} = {}
  /\ {"prompts", "think_pause_secs", "tls"} \subseteq Key
  /\ \A f \in Field : f[2] \notin {NoKey, "prompts", "think_pause_secs", "tls"}
  /\ Pause[1] \in Field /\ Pause[2] \in Field /\ NoKey \notin Name
<1>1. /\ {"typer", "llm", "api"} \subseteq Section /\ NoKey \notin Key \cup Section
      /\ Section \cap {"root", "tls", "prompts", "pause", "unknown", "document", "sequence", "mapping",
                       "think_pause_secs"} = {}
      /\ {"prompts", "think_pause_secs", "tls"} \subseteq Key
  BY ConfigAssumption
<1> DEFINE Keyed == UNION {{s} \X Handled[s] : s \in Section \cup {"tls"}}
<1>0. Field = Keyed \cup Range(Pause)
  BY DEF Field
<1>2. Pause[1] \in Field /\ Pause[2] \in Field
        /\ \A f \in Range(Pause) : f[2] \in {"pause_min", "pause_max"}
  <2>1. DOMAIN Pause = {1, 2} /\ Pause[1] = <<"typer", "pause_min">> /\ Pause[2] = <<"typer", "pause_max">>
    BY DEF Pause
  <2>2. Range(Pause) = {Pause[1], Pause[2]}
    BY <2>1 DEF Range
  <2> QED
    <3> HIDE DEF Keyed
    <3> QED
      BY <1>0, <2>1, <2>2
<1>3. ASSUME NEW f \in Field
      PROVE f[2] \notin {NoKey, "prompts", "think_pause_secs", "tls"}
  <2>1. CASE f \in Range(Pause)
    <3>1. NoKey \notin {"pause_min", "pause_max"}
      BY Zenon DEF NoKey
    <3> QED
      BY <1>2, <2>1, <3>1
  <2>2. CASE \E s \in Section \cup {"tls"} : f \in {s} \X Handled[s]
    <3>1. PICK s \in Section \cup {"tls"} : f[2] \in Handled[s]
      BY <2>2
    <3>2. Handled[s] \in Range(Handled) /\ Handled[s] \subseteq Key
      BY ConfigAssumption DEF Range
    <3> QED
      BY <3>1, <3>2, ConfigAssumption
  <2> QED
    <3>1. ASSUME f \in Keyed
          PROVE  \E s \in Section \cup {"tls"} : f \in {s} \X Handled[s]
      BY <3>1, Zenon
    <3> HIDE DEF Keyed
    <3> QED
      BY <1>0, <2>1, <2>2, <3>1
<1>4. NoKey \notin Name
  <2>1. NoKey # "unknown"
    BY Zenon DEF NoKey
  <2> QED
    BY <1>1, <2>1 DEF Name
<1> QED
  BY <1>1, <1>2, <1>3, <1>4

\* Where the innermost collection is, and what its three ways to change leave.

LEMMA InnerIs ==
  ASSUME Nested
  PROVE /\ Inner = nodes[Len(nodes)] /\ Inner \in Collection
        /\ Inner.of = "document" <=> Len(nodes) = 1
        /\ Inner.key # NoKey => Inner.key \in Inner.used
        /\ Len(nodes) \in Nat
<1>1. Inner = nodes[Len(nodes)] /\ Len(nodes) \in Nat /\ Len(nodes) \in 1 .. Len(nodes)
  BY DEF Nested, Inner, Last
<1>2. Inner \in Collection
  BY <1>1 DEF Nested
<1> QED
  BY <1>1, <1>2 DEF Nested

\* A key or an item is written: the innermost collection changes in its place.
LEMMA Rewritten ==
  ASSUME Nested, NEW n \in Collection, n.of = Inner.of, n.key # NoKey => n.key \in n.used,
         nodes' = WithInner(n)
  PROVE /\ Nested' /\ Len(nodes') = Len(nodes) /\ nodes'[Len(nodes)] = n
        /\ \A i \in 1 .. Len(nodes) - 1 : nodes'[i] = nodes[i]
<1>1. Inner = nodes[Len(nodes)] /\ Len(nodes) \in Nat
  BY InnerIs
<1>2. nodes' = [nodes EXCEPT ![Len(nodes)] = n]
  BY DEF WithInner
<1>3. /\ nodes' \in Seq(Collection) /\ Len(nodes') = Len(nodes) /\ nodes'[Len(nodes)] = n
      /\ \A i \in 1 .. Len(nodes) - 1 : nodes'[i] = nodes[i]
  BY <1>1, <1>2 DEF Nested
<1>4. \A i \in 1 .. Len(nodes) : i = Len(nodes) \/ i \in 1 .. Len(nodes) - 1
  BY <1>1
<1>5. Nested'
  BY <1>1, <1>3, <1>4 DEF Nested
<1> QED
  BY <1>3, <1>5

\* A collection begins.
LEMMA Begun ==
  ASSUME Nested, NEW n \in Collection, n.of # "document", n.key = NoKey, nodes' = Append(nodes, n)
  PROVE /\ Nested' /\ Len(nodes') = Len(nodes) + 1 /\ nodes'[Len(nodes) + 1] = n
        /\ \A i \in 1 .. Len(nodes) : nodes'[i] = nodes[i]
<1>1. /\ nodes' \in Seq(Collection) /\ Len(nodes') = Len(nodes) + 1 /\ nodes'[Len(nodes) + 1] = n
      /\ \A i \in 1 .. Len(nodes) : nodes'[i] = nodes[i]
  BY DEF Nested
<1>2. \A i \in 1 .. Len(nodes) + 1 : i = Len(nodes) + 1 \/ i \in 1 .. Len(nodes)
  BY DEF Nested
<1>3. Nested'
  BY <1>1, <1>2 DEF Nested
<1> QED
  BY <1>1, <1>3

\* A collection ends, and with it the value of the outer one's key.
LEMMA Ended ==
  ASSUME Nested, Len(nodes) > 1, nodes' = Closed
  PROVE /\ Nested' /\ Len(nodes') = Len(nodes) - 1
        /\ nodes'[Len(nodes) - 1].key = NoKey /\ nodes'[Len(nodes) - 1].used = nodes[Len(nodes) - 1].used
        /\ nodes'[Len(nodes) - 1].of = nodes[Len(nodes) - 1].of
        /\ nodes'[Len(nodes) - 1].items = nodes[Len(nodes) - 1].items
        /\ \A i \in 1 .. Len(nodes) - 2 : nodes'[i] = nodes[i]
<1> DEFINE m == Len(nodes) - 1
<1>1. m \in Nat /\ m >= 1
  BY DEF Nested
<1>2. /\ Front(nodes) \in Seq(Collection) /\ Len(Front(nodes)) = m
      /\ \A i \in 1 .. m : Front(nodes)[i] = nodes[i]
  BY <1>1, SubSeqProperties DEF Front, Nested
<1>3. nodes' = [Front(nodes) EXCEPT ![m].key = NoKey]
  BY <1>2 DEF Closed
<1>4. nodes[m] \in Collection /\ [nodes[m] EXCEPT !.key = NoKey] \in Collection
  <2>1. nodes[m] \in Collection
    BY <1>1 DEF Nested
  <2>2. PICK n : n = nodes[m]
    OBVIOUS
  <2>3. [n EXCEPT !.key = NoKey] \in Collection
    BY <2>1, <2>2 DEF Collection
  <2> QED
    BY <2>1, <2>2, <2>3
<1> HIDE DEF m
<1>5. /\ nodes' \in Seq(Collection) /\ Len(nodes') = m /\ nodes'[m] = [nodes[m] EXCEPT !.key = NoKey]
      /\ \A i \in 1 .. m - 1 : nodes'[i] = nodes[i]
  BY <1>1, <1>2, <1>3, <1>4
<1>6. /\ nodes'[m].key = NoKey /\ nodes'[m].used = nodes[m].used
      /\ nodes'[m].of = nodes[m].of /\ nodes'[m].items = nodes[m].items
  <2>1. PICK n : n = nodes[m]
    OBVIOUS
  <2>2. [n EXCEPT !.key = NoKey].key = NoKey /\ [n EXCEPT !.key = NoKey].used = n.used
        /\ [n EXCEPT !.key = NoKey].of = n.of /\ [n EXCEPT !.key = NoKey].items = n.items
    BY <1>4, <2>1 DEF Collection
  <2> QED
    BY <1>5, <2>1, <2>2
<1>7. /\ \A i \in 1 .. m : i = m \/ i \in 1 .. m - 1
      /\ \A i \in 1 .. m : i \in 1 .. Len(nodes)
  BY <1>1 DEF m, Nested
<1>8. ASSUME NEW i \in 1 .. m
      PROVE  /\ nodes'[i].of = "document" <=> i = 1
             /\ nodes'[i].key # NoKey => nodes'[i].key \in nodes'[i].used
  <2>1. /\ nodes[i].of = "document" <=> i = 1
        /\ nodes[i].key # NoKey => nodes[i].key \in nodes[i].used
    BY <1>7 DEF Nested
  <2>2. CASE i = m
    BY <1>6, <2>1, <2>2
  <2>3. CASE i \in 1 .. m - 1
    BY <1>5, <2>1, <2>3
  <2> QED
    BY <1>7, <2>2, <2>3
<1>9. Nested'
  BY <1>1, <1>5, <1>8 DEF Nested
<1> QED
  BY <1>1, <1>5, <1>6, <1>9 DEF m

\* What a key, its value, an item and a new collection are in the nodes.
LEMMA KeyWritten ==
  ASSUME Nested, NEW k \in Name, k # NoKey,
         nodes' = WithInner([Inner EXCEPT !.key = k, !.used = @ \cup {k}])
  PROVE /\ Nested' /\ Len(nodes') = Len(nodes)
        /\ nodes'[Len(nodes)].key = k /\ nodes'[Len(nodes)].used = Inner.used \cup {k}
        /\ nodes'[Len(nodes)].of = Inner.of /\ nodes'[Len(nodes)].items = Inner.items
        /\ \A i \in 1 .. Len(nodes) - 1 : nodes'[i] = nodes[i]
<1>1. PICK c \in Collection : c = Inner
  BY InnerIs
<1>2. PICK n : n = [c EXCEPT !.key = k, !.used = @ \cup {k}]
  OBVIOUS
<1>3. n \in Collection /\ n.key = k /\ n.used = c.used \cup {k} /\ n.of = c.of /\ n.items = c.items
  BY <1>1, <1>2 DEF Collection
<1>4. nodes' = WithInner(n)
  BY <1>1, <1>2, Zenon
<1>5. n.of = Inner.of /\ (n.key # NoKey => n.key \in n.used)
  BY <1>1, <1>3
<1>6. /\ Nested' /\ Len(nodes') = Len(nodes) /\ nodes'[Len(nodes)] = n
      /\ \A i \in 1 .. Len(nodes) - 1 : nodes'[i] = nodes[i]
  BY <1>3, <1>4, <1>5, Rewritten
<1> QED
  BY <1>1, <1>3, <1>6

LEMMA ValueWritten ==
  ASSUME Nested, nodes' = WithInner([Inner EXCEPT !.key = NoKey])
  PROVE /\ Nested' /\ Len(nodes') = Len(nodes)
        /\ nodes'[Len(nodes)].key = NoKey /\ nodes'[Len(nodes)].used = Inner.used
        /\ nodes'[Len(nodes)].of = Inner.of /\ nodes'[Len(nodes)].items = Inner.items
        /\ \A i \in 1 .. Len(nodes) - 1 : nodes'[i] = nodes[i]
<1>1. PICK c \in Collection : c = Inner
  BY InnerIs
<1>2. PICK n : n = [c EXCEPT !.key = NoKey]
  OBVIOUS
<1>3. n \in Collection /\ n.key = NoKey /\ n.used = c.used /\ n.of = c.of /\ n.items = c.items
  BY <1>1, <1>2 DEF Collection
<1>4. nodes' = WithInner(n)
  BY <1>1, <1>2, Zenon
<1>5. n.of = Inner.of /\ (n.key # NoKey => n.key \in n.used)
  BY <1>1, <1>3
<1>6. /\ Nested' /\ Len(nodes') = Len(nodes) /\ nodes'[Len(nodes)] = n
      /\ \A i \in 1 .. Len(nodes) - 1 : nodes'[i] = nodes[i]
  BY <1>3, <1>4, <1>5, Rewritten
<1> QED
  BY <1>1, <1>3, <1>6

LEMMA ItemWritten ==
  ASSUME Nested, nodes' = WithInner([Inner EXCEPT !.items = @ + 1])
  PROVE /\ Nested' /\ Len(nodes') = Len(nodes)
        /\ nodes'[Len(nodes)].key = Inner.key /\ nodes'[Len(nodes)].used = Inner.used
        /\ nodes'[Len(nodes)].of = Inner.of /\ nodes'[Len(nodes)].items = Inner.items + 1
        /\ \A i \in 1 .. Len(nodes) - 1 : nodes'[i] = nodes[i]
<1>1. PICK c \in Collection : c = Inner
  BY InnerIs
<1>2. PICK n : n = [c EXCEPT !.items = @ + 1]
  OBVIOUS
<1>3. n \in Collection /\ n.key = c.key /\ n.used = c.used /\ n.of = c.of /\ n.items = c.items + 1
  BY <1>1, <1>2 DEF Collection
<1>4. nodes' = WithInner(n)
  BY <1>1, <1>2, Zenon
<1>5. n.of = Inner.of /\ (n.key # NoKey => n.key \in n.used)
  BY <1>1, <1>3, InnerIs
<1>6. /\ Nested' /\ Len(nodes') = Len(nodes) /\ nodes'[Len(nodes)] = n
      /\ \A i \in 1 .. Len(nodes) - 1 : nodes'[i] = nodes[i]
  BY <1>3, <1>4, <1>5, Rewritten
<1> QED
  BY <1>1, <1>3, <1>6

LEMMA NodeBegun ==
  ASSUME Nested, NEW o \in Section \cup {"tls", "prompts", "think_pause_secs", "sequence", "mapping"},
         nodes' = Append(nodes, Node(o))
  PROVE /\ Nested' /\ Len(nodes') = Len(nodes) + 1
        /\ nodes'[Len(nodes) + 1].key = NoKey /\ nodes'[Len(nodes) + 1].used = {}
        /\ nodes'[Len(nodes) + 1].of = o /\ nodes'[Len(nodes) + 1].items = 0
        /\ \A i \in 1 .. Len(nodes) : nodes'[i] = nodes[i]
<1>1. PICK n : n = Node(o)
  OBVIOUS
<1>2. n \in Collection /\ n.key = NoKey /\ n.used = {} /\ n.of = o /\ n.items = 0
  BY <1>1 DEF Node, Collection
<1>3. n.of # "document"
  BY <1>2, NamesApart
<1>4. /\ Nested' /\ Len(nodes') = Len(nodes) + 1 /\ nodes'[Len(nodes) + 1] = n
      /\ \A i \in 1 .. Len(nodes) : nodes'[i] = nodes[i]
  BY <1>1, <1>2, <1>3, Begun
<1> QED
  BY <1>2, <1>4

-----------------------------------------------------------------------------
\* The parser keeps its types, whatever scalar it is given and wherever.

ParserTypes ==
  /\ state \in Section \cup {"root", "tls", "prompts", "pause"}
  /\ current_key \in Key \cup Section \cup Value \cup {NoKey, "unknown"}
  /\ cfg \in [Field -> Key \cup Section \cup Value \cup {"default", "unknown"}]
  /\ Len(prompts) <= MaxPrompts \/ prompts = <<"default">>
  /\ prompts_reset \in BOOLEAN /\ prompts \in Seq(Token) /\ idx \in Nat

LEMMA ScalarTypes ==
  ASSUME ParserTypes, NEW v \in Name \cup Value, Scalar(v)
  PROVE ParserTypes' /\ idx' <= idx + 1
<1> USE NamesApart
<1>1. CASE state = "root" /\ TopScalar(v)
  BY <1>1 DEF TopScalar, ParserTypes, Name
<1>2. CASE state = "prompts" /\ Prompt(v)
  <2>1. v \in Token /\ MaxPrompts \in Nat \ {0}
    BY ConfigAssumption DEF Token
  <2> QED
    BY <1>2, <2>1 DEF Prompt, ParserTypes
<1>3. CASE state = "pause" /\ PauseItem(v)
  <2>1. idx < 2 => Pause[idx + 1] \in Field
    BY DEF ParserTypes
  <2> QED
    BY <1>3, <2>1 DEF PauseItem, ParserTypes, Name
<1>4. CASE /\ state \in Section \cup {"tls"}
           /\ IF current_key # NoKey THEN Assign(v)
              ELSE current_key' = v /\ UNCHANGED <<state, cfg, prompts, prompts_reset, idx>>
  <2>1. ASSUME current_key # NoKey, Assign(v)
        PROVE  ParserTypes' /\ idx' = idx
    <3>1. state' \in Section \cup {"tls"} /\ current_key' = NoKey
      BY <1>4, <2>1 DEF Assign
    <3>2. cfg' \in [Field -> Key \cup Section \cup Value \cup {"default", "unknown"}]
      BY <2>1 DEF Assign, ParserTypes, Name
    <3> QED
      BY <2>1, <3>1, <3>2 DEF Assign, ParserTypes
  <2>2. ASSUME current_key' = v, UNCHANGED <<state, cfg, prompts, prompts_reset, idx>>
        PROVE  ParserTypes' /\ idx' = idx
    BY <2>2 DEF ParserTypes, Name
  <2> QED
    BY <1>4, <2>1, <2>2 DEF ParserTypes
<1> QED
  BY <1>1, <1>2, <1>3, <1>4 DEF Scalar

LEMMA SequenceTypes ==
  ASSUME ParserTypes, SequenceStart \/ SequenceEnd
  PROVE ParserTypes' /\ idx' <= idx
<1> USE NamesApart
<1>1. CASE SequenceStart
  <2>1. <<>> \in Seq(Token) /\ Len(<<>>) <= MaxPrompts
    BY ConfigAssumption
  <2> QED
    BY <1>1, <2>1 DEF SequenceStart, ParserTypes
<1>2. CASE SequenceEnd
  BY <1>2 DEF SequenceEnd, ParserTypes
<1> QED
  BY <1>1, <1>2

LEMMA MappingTypes ==
  ASSUME ParserTypes, MappingEnd
  PROVE ParserTypes' /\ idx' = idx
BY NamesApart DEF MappingEnd, ParserTypes

\* What is to be shown of a step besides.
DocumentTypes ==
  /\ meant \in [Field -> Value \cup {"default"}] /\ listed \in Seq(Token)
  /\ strange \subseteq {"section", "empty", "origins", "sequence", "mapping"}

LEMMA StepTypes ==
  ASSUME ConfigTypeOK, Nested, Lists, ConfigNext
  PROVE ConfigTypeOK' /\ Nested' /\ Lists'
<1> USE NamesApart
<1>1. /\ ParserTypes /\ DocumentTypes /\ idx <= events /\ events \in Nat /\ MaxEvents \in Nat
      /\ Inner.key \in Name \cup {NoKey} /\ Inner.items \in Nat
  BY InnerIs, ConfigAssumption DEF ConfigTypeOK, Lists, ParserTypes, DocumentTypes, Collection
<1>2. SUFFICES OneMore /\ Nested' /\ ParserTypes' /\ DocumentTypes' /\ idx' <= idx + 1
  <2>1. events' \in 0 .. MaxEvents /\ idx' \in 0 .. MaxEvents /\ idx' <= events'
    BY <1>1, <1>2 DEF OneMore, ParserTypes
  <2> QED
    BY <1>2, <2>1 DEF ParserTypes, DocumentTypes, ConfigTypeOK, Lists
<1>3. ASSUME NEW k \in Name, WriteKey(k)
      PROVE  OneMore /\ Nested' /\ ParserTypes' /\ DocumentTypes' /\ idx' <= idx + 1
  <2>1. Nested'
    BY <1>3, KeyWritten DEF WriteKey
  <2>2. ParserTypes' /\ idx' <= idx + 1
    BY <1>1, <1>3, ScalarTypes DEF WriteKey
  <2>3. DocumentTypes'
    BY <1>1, <1>3 DEF WriteKey, DocumentTypes
  <2> QED
    BY <1>3, <2>1, <2>2, <2>3 DEF WriteKey
<1>4. ASSUME NEW v \in Value, WriteValue(v)
      PROVE  OneMore /\ Nested' /\ ParserTypes' /\ DocumentTypes' /\ idx' <= idx + 1
  <2>1. Nested'
    BY <1>4, ValueWritten DEF WriteValue
  <2>2. ParserTypes' /\ idx' <= idx + 1
    BY <1>1, <1>4, ScalarTypes DEF WriteValue
  <2>3. DocumentTypes'
    BY <1>1, <1>4 DEF WriteValue, DocumentTypes
  <2> QED
    BY <1>4, <2>1, <2>2, <2>3 DEF WriteValue
<1>5. ASSUME NEW v \in Value, WriteItem(v)
      PROVE  OneMore /\ Nested' /\ ParserTypes' /\ DocumentTypes' /\ idx' <= idx + 1
  <2>1. Nested'
    BY <1>5, ItemWritten DEF WriteItem
  <2>2. ParserTypes' /\ idx' <= idx + 1
    BY <1>1, <1>5, ScalarTypes DEF WriteItem
  <2>3. v \in Token /\ (Inner.items < 2 => Pause[Inner.items + 1] \in Field)
    BY <1>1 DEF Token
  <2>4. DocumentTypes'
    BY <1>1, <1>5, <2>3 DEF WriteItem, DocumentTypes
  <2> QED
    BY <1>5, <2>1, <2>2, <2>4 DEF WriteItem
<1>6. CASE BeginSequence
  <2>1. PICK o \in {"prompts", "think_pause_secs", "sequence"} : nodes' = Append(nodes, Node(o))
    BY <1>6, Zenon DEF BeginSequence, Under
  <2>2. Nested'
    BY <2>1, NodeBegun
  <2>3. ParserTypes' /\ idx' <= idx
    BY <1>1, <1>6, SequenceTypes DEF BeginSequence
  <2>4. DocumentTypes'
    BY <1>1, <1>6 DEF BeginSequence, DocumentTypes
  <2> QED
    BY <1>1, <1>6, <2>2, <2>3, <2>4 DEF BeginSequence, ParserTypes
<1>7. CASE EndSequence
  <2>1. Len(nodes) > 1
    BY <1>7, InnerIs DEF EndSequence, InSequence, Nested
  <2>2. Nested'
    BY <1>7, <2>1, Ended DEF EndSequence
  <2>3. ParserTypes' /\ idx' <= idx
    BY <1>1, <1>7, SequenceTypes DEF EndSequence
  <2>4. DocumentTypes'
    BY <1>1, <1>7 DEF EndSequence, DocumentTypes
  <2> QED
    BY <1>1, <1>7, <2>2, <2>3, <2>4 DEF EndSequence, ParserTypes
<1>8. CASE BeginMapping
  <2>1. PICK o \in Section \cup {"tls", "mapping"} : nodes' = Append(nodes, Node(o))
    BY <1>8, Zenon DEF BeginMapping, Under
  <2>2. Nested'
    BY <2>1, NodeBegun
  <2>3. ParserTypes' /\ idx' = idx
    BY <1>1, <1>8 DEF BeginMapping, parser, ParserTypes
  <2>4. DocumentTypes'
    BY <1>1, <1>8 DEF BeginMapping, DocumentTypes
  <2> QED
    BY <1>8, <2>2, <2>3, <2>4 DEF BeginMapping, ParserTypes
<1>9. CASE EndMapping
  <2>1. Nested'
    BY <1>9, Ended DEF EndMapping
  <2>2. ParserTypes' /\ idx' = idx
    BY <1>1, <1>9, MappingTypes DEF EndMapping
  <2>3. DocumentTypes'
    BY <1>1, <1>9 DEF EndMapping, DocumentTypes
  <2> QED
    BY <1>9, <2>1, <2>2, <2>3 DEF EndMapping, ParserTypes
<1> QED
  BY <1>3, <1>4, <1>5, <1>6, <1>7, <1>8, <1>9 DEF ConfigNext, Name

-----------------------------------------------------------------------------
\* The parser stays in step, action by action.

\* The beginning of a sequence is known by its length and its places.
LEMMA FirstPlaces ==
  ASSUME NEW p \in Seq(Token), NEW l \in Seq(Token), NEW m \in Nat,
         m = IF Len(l) < MaxPrompts THEN Len(l) ELSE MaxPrompts
  PROVE p = SubSeq(l, 1, IF Len(l) < MaxPrompts THEN Len(l) ELSE MaxPrompts)
        <=> /\ Len(p) = m
            /\ \A i \in 1 .. m : p[i] = l[i]
<1>1. m <= Len(l) /\ MaxPrompts \in Nat /\ Len(l) \in Nat
  BY ConfigAssumption
<1>2. PICK q : q = SubSeq(l, 1, m)
  OBVIOUS
<1>3. q \in Seq(Token) /\ Len(q) = m /\ \A i \in 1 .. m : q[i] = l[i]
  BY <1>1, <1>2, SubSeqProperties
<1>4. q = SubSeq(l, 1, IF Len(l) < MaxPrompts THEN Len(l) ELSE MaxPrompts)
  BY <1>2, Zenon
<1>5. ASSUME Len(p) = m, \A i \in 1 .. m : p[i] = l[i]
      PROVE  p = q
  BY <1>3, <1>5, SeqEqual
<1> QED
  BY <1>3, <1>4, <1>5

\* That the array holds the first prompts of the document, place by place.
LEMMA PromptsByPlace ==
  ASSUME prompts \in Seq(Token), listed \in Seq(Token),
         NEW m \in Nat, m = IF Len(listed) < MaxPrompts THEN Len(listed) ELSE MaxPrompts
  PROVE PromptsAsWritten <=> /\ Len(prompts) = m
                             /\ \A i \in 1 .. m : prompts[i] = listed[i]
BY FirstPlaces, Zenon DEF PromptsAsWritten

\* What is to be shown of the prompts, when none is written.
LEMMA PromptsStay ==
  ASSUME PromptsAsWritten, UNCHANGED <<prompts, listed>>
  PROVE PromptsAsWritten'
BY DEF PromptsAsWritten

\* The same value for the same field.
LEMMA FieldSet ==
  ASSUME FieldsAsWritten, cfg \in [Field -> Token], meant \in [Field -> Token], NEW f, NEW v,
         cfg' = IF f \in Field THEN [cfg EXCEPT ![f] = v] ELSE cfg,
         meant' = IF f \in Field THEN [meant EXCEPT ![f] = v] ELSE meant
  PROVE FieldsAsWritten'
BY DEF FieldsAsWritten

\* A field of tls counts for nothing.
LEMMA TlsFieldSet ==
  ASSUME FieldsAsWritten, cfg \in [Field -> Token], meant \in [Field -> Token],
         NEW c, NEW v, NEW d, NEW w,
         cfg' = cfg \/ cfg' = [cfg EXCEPT ![<<"tls", c>>] = v],
         meant' = meant \/ meant' = [meant EXCEPT ![<<"tls", d>>] = w]
  PROVE FieldsAsWritten'
BY DEF FieldsAsWritten

\* The parser is in step and the document where it can be then.
KnownPlace ==
  /\ Nested /\ AsWritten /\ Len(nodes) \in {1, 2, 3}
  /\ cfg \in [Field -> Token] /\ meant \in [Field -> Token]
  /\ prompts \in Seq(Token) /\ listed \in Seq(Token) /\ prompts_reset \in BOOLEAN
  /\ Inner = nodes[Len(nodes)] /\ (Inner.of = "document" <=> Len(nodes) = 1)
  /\ Inner.key # NoKey => Inner.key \in Inner.used

LEMMA KnownPlaceHolds ==
  ASSUME ConfigInv, strange = {}
  PROVE KnownPlace
<1>1. Nested /\ AsWritten /\ Len(nodes) \in {1, 2, 3}
  <2>1. Nested /\ AsWritten /\ Len(nodes) >= 1 /\ Len(nodes) \in Nat /\ Len(nodes) <= 3
    BY InnerIs DEF ConfigInv, AsWritten, InStep, Nested
  <2>2. PICK n \in Nat : n = Len(nodes)
    BY <2>1
  <2>3. n \in {1, 2, 3}
    BY <2>1, <2>2
  <2> QED
    BY <2>1, <2>2, <2>3
<1>2. /\ cfg \in [Field -> Token] /\ meant \in [Field -> Token]
      /\ prompts \in Seq(Token) /\ listed \in Seq(Token) /\ prompts_reset \in BOOLEAN
  BY DEF ConfigInv, ConfigTypeOK, Lists, Token, Name
<1> QED
  BY <1>1, <1>2, InnerIs DEF KnownPlace

\* What the parser does with a scalar is said by its state alone.
LEMMA ScalarAt ==
  ASSUME NEW v, Scalar(v)
  PROVE /\ state = "root" => TopScalar(v)
        /\ state = "prompts" => Prompt(v)
        /\ state = "pause" => PauseItem(v)
        /\ state \in Section \cup {"tls"} =>
             /\ current_key # NoKey => Assign(v)
             /\ current_key = NoKey =>
                  current_key' = v /\ UNCHANGED <<state, cfg, prompts, prompts_reset, idx>>
BY NamesApart DEF Scalar

\* A key.
LEMMA KeyInStep ==
  ASSUME KnownPlace, NEW k \in Name, WriteKey(k), strange = {}, strange' = {}
  PROVE AsWritten'
<1> USE NamesApart
<1>1. /\ k # "unknown" /\ k # NoKey /\ Inner.key = NoKey /\ k \notin Inner.used /\ ~InSequence
      /\ Scalar(k) /\ UNCHANGED <<meant, listed>>
  BY DEF WriteKey
<1>2. /\ Len(nodes') = Len(nodes)
      /\ nodes'[Len(nodes)].key = k /\ nodes'[Len(nodes)].used = Inner.used \cup {k}
      /\ nodes'[Len(nodes)].of = Inner.of /\ nodes'[Len(nodes)].items = Inner.items
      /\ \A i \in 1 .. Len(nodes) - 1 : nodes'[i] = nodes[i]
  BY <1>1, KeyWritten DEF WriteKey, KnownPlace
<1>3. InStep /\ ResetOnce /\ FieldsAsWritten /\ PromptsAsWritten
  BY DEF KnownPlace, AsWritten
<1>4. CASE Len(nodes) = 1
  <2>1. Inner = nodes[1] /\ Inner.of = "document" /\ k \in Section
    BY <1>1, <1>4 DEF KnownPlace, WriteKey
  <2>2. TopScalar(k) /\ state = "root" /\ current_key = NoKey
    BY <1>1, <1>3, <1>4, <2>1, ScalarAt DEF InStep
  <2>3. InStep'
    BY <1>2, <1>4, <2>1, <2>2 DEF TopScalar, InStep
  <2>4. ResetOnce'
    BY <1>1, <1>2, <1>3, <1>4, <2>1, <2>2 DEF TopScalar, ResetOnce
  <2>5. FieldsAsWritten' /\ PromptsAsWritten'
    BY <1>1, <1>3, <2>2 DEF TopScalar, FieldsAsWritten, PromptsAsWritten
  <2> QED
    BY <2>3, <2>4, <2>5 DEF AsWritten
<1>5. CASE Len(nodes) = 2
  <2>1. Inner = nodes[2] /\ InSection /\ nodes'[1] = nodes[1]
    BY <1>2, <1>3, <1>5 DEF KnownPlace, InStep
  <2>2. state = nodes[1].key /\ state \in Section /\ current_key = NoKey
    BY <1>1, <1>5, <2>1 DEF InSection
  <2>3. current_key' = k /\ UNCHANGED <<state, cfg, prompts, prompts_reset, idx>>
    BY <1>1, <2>2, ScalarAt
  <2>4. InStep'
    BY <1>2, <1>5, <2>1, <2>2, <2>3 DEF InStep, InSection
  <2>5. ResetOnce'
    BY <1>1, <1>2, <1>3, <1>5, <2>1, <2>3 DEF ResetOnce
  <2>6. FieldsAsWritten' /\ PromptsAsWritten'
    BY <1>1, <1>3, <2>3 DEF FieldsAsWritten, PromptsAsWritten
  <2> QED
    BY <2>4, <2>5, <2>6 DEF AsWritten
<1>6. CASE Len(nodes) = 3
  <2>1. /\ Inner = nodes[3] /\ InSection /\ InTls /\ nodes'[1] = nodes[1] /\ nodes'[2] = nodes[2]
    BY <1>1, <1>2, <1>3, <1>6 DEF KnownPlace, InStep, InSequence, InPrompts, InPause
  <2>2. /\ state' = "tls" /\ UNCHANGED <<prompts, prompts_reset, idx>>
        /\ cfg' = cfg \/ cfg' = [cfg EXCEPT ![<<"tls", current_key>>] = k]
    <3>1. CASE nodes[3].used = {}
      <4>1. state = "api" /\ current_key = "tls" /\ <<"api", "tls">> \notin Field
        BY <2>1, <3>1 DEF InTls
      <4> QED
        BY <1>1, <4>1, ScalarAt DEF Assign
    <3>2. CASE nodes[3].used # {}
      <4>1. state = "tls"
        BY <2>1, <3>2 DEF InTls
      <4> QED
        BY <1>1, <4>1, ScalarAt DEF Assign
    <3> QED
      BY <3>1, <3>2
  <2>3. InStep'
    BY <1>2, <1>6, <2>1, <2>2 DEF InStep, InSection, InTls
  <2>4. ResetOnce'
    BY <1>2, <1>3, <1>6, <2>1, <2>2 DEF ResetOnce
  <2>5. FieldsAsWritten'
    BY <1>1, <1>3, <2>2, TlsFieldSet DEF KnownPlace
  <2>6. PromptsAsWritten'
    BY <1>1, <1>3, <2>2 DEF PromptsAsWritten
  <2> QED
    BY <2>3, <2>4, <2>5, <2>6 DEF AsWritten
<1> QED
  BY <1>4, <1>5, <1>6 DEF KnownPlace

\* A value.
LEMMA ValueInStep ==
  ASSUME KnownPlace, NEW v \in Value, WriteValue(v), strange = {}, strange' = {}
  PROVE AsWritten'
<1> USE NamesApart
<1>1. /\ Inner.key # NoKey /\ ~InSequence /\ Scalar(v) /\ UNCHANGED listed
      /\ Inner.of = "document" => Inner.key = "unknown"
      /\ ~(Inner.of = "api" /\ Inner.key = "tls")
      /\ meant' = IF <<Inner.of, Inner.key>> \in Field
                  THEN [meant EXCEPT ![<<Inner.of, Inner.key>>] = v] ELSE meant
  BY DEF WriteValue, Under
<1>2. /\ Len(nodes') = Len(nodes)
      /\ nodes'[Len(nodes)].key = NoKey /\ nodes'[Len(nodes)].used = Inner.used
      /\ nodes'[Len(nodes)].of = Inner.of /\ nodes'[Len(nodes)].items = Inner.items
      /\ \A i \in 1 .. Len(nodes) - 1 : nodes'[i] = nodes[i]
  BY ValueWritten DEF WriteValue, KnownPlace
<1>3. InStep /\ ResetOnce /\ FieldsAsWritten /\ PromptsAsWritten
  BY DEF KnownPlace, AsWritten
<1>4. CASE Len(nodes) = 1
  <2>1. Inner = nodes[1] /\ Inner.of = "document" /\ Inner.key \in Section
    BY <1>1, <1>3, <1>4 DEF KnownPlace, InStep
  <2> QED
    BY <1>1, <2>1
<1>5. CASE Len(nodes) = 2
  <2>1. Inner = nodes[2] /\ InSection /\ nodes'[1] = nodes[1]
    BY <1>2, <1>3, <1>5 DEF KnownPlace, InStep
  <2>2. /\ state = nodes[1].key /\ state \in Section /\ current_key = Inner.key /\ Inner.of = state
    BY <1>5, <2>1 DEF InSection
  <2>3. Assign(v)
    BY <1>1, <2>2, ScalarAt
  <2>4. current_key' = NoKey /\ UNCHANGED <<state, prompts, prompts_reset, idx>>
    BY <1>1, <2>2, <2>3 DEF Assign
  <2>5. InStep'
    BY <1>2, <1>5, <2>1, <2>2, <2>4 DEF InStep, InSection
  <2>6. ResetOnce'
    BY <1>2, <1>3, <1>5, <2>1, <2>4 DEF ResetOnce
  <2>7. FieldsAsWritten'
    <3>1. PICK f : f = <<state, current_key>>
      OBVIOUS
    <3>2. /\ cfg' = IF f \in Field THEN [cfg EXCEPT ![f] = v] ELSE cfg
          /\ meant' = IF f \in Field THEN [meant EXCEPT ![f] = v] ELSE meant
      BY <1>1, <2>2, <2>3, <3>1, Zenon DEF Assign
    <3> QED
      BY <1>3, <3>2, FieldSet DEF KnownPlace
  <2>8. PromptsAsWritten'
    BY <1>1, <1>3, <2>4 DEF PromptsAsWritten
  <2> QED
    BY <2>5, <2>6, <2>7, <2>8 DEF AsWritten
<1>6. CASE Len(nodes) = 3
  <2>1. /\ Inner = nodes[3] /\ InSection /\ InTls /\ nodes'[1] = nodes[1] /\ nodes'[2] = nodes[2]
    BY <1>1, <1>2, <1>3, <1>6 DEF KnownPlace, InStep, InSequence, InPrompts, InPause
  <2>2. nodes[3].used # {} /\ state = "tls" /\ nodes[3].of = "tls"
    BY <1>1, <2>1 DEF InTls, KnownPlace
  <2>3. /\ state' = "tls" /\ UNCHANGED <<prompts, prompts_reset, idx>>
        /\ cfg' = cfg \/ cfg' = [cfg EXCEPT ![<<"tls", current_key>>] = v]
    BY <1>1, <2>2, ScalarAt DEF Assign
  <2>4. InStep'
    BY <1>2, <1>6, <2>1, <2>2, <2>3 DEF InStep, InSection, InTls
  <2>5. ResetOnce'
    BY <1>2, <1>3, <1>6, <2>1, <2>3 DEF ResetOnce
  <2>6. meant' = meant \/ meant' = [meant EXCEPT ![<<"tls", Inner.key>>] = v]
    BY <1>1, <2>1, <2>2, Zenon
  <2>7. FieldsAsWritten'
    BY <1>3, <2>3, <2>6 DEF KnownPlace, FieldsAsWritten
  <2>8. PromptsAsWritten'
    BY <1>1, <1>3, <2>3 DEF PromptsAsWritten
  <2> QED
    BY <2>4, <2>5, <2>7, <2>8 DEF AsWritten
<1> QED
  BY <1>4, <1>5, <1>6 DEF KnownPlace

\* The beginning of a sequence that is known, an item, and its end.
LEMMA SequenceInStep ==
  ASSUME KnownPlace, BeginSequence, strange = {}, strange' = {}
  PROVE AsWritten'
<1> USE NamesApart
<1>1. /\ Under("llm", "prompts") \/ Under("typer", "think_pause_secs")
      /\ SequenceStart /\ nodes' = Append(nodes, Node(Inner.key))
      /\ listed' = (IF Under("llm", "prompts") THEN <<>> ELSE listed) /\ UNCHANGED meant
  BY DEF BeginSequence
<1>2. Inner.key \in {"prompts", "think_pause_secs"} /\ Inner.of \in {"llm", "typer"}
  BY <1>1 DEF Under
<1>3. /\ Len(nodes') = Len(nodes) + 1
      /\ nodes'[Len(nodes) + 1].key = NoKey /\ nodes'[Len(nodes) + 1].used = {}
      /\ nodes'[Len(nodes) + 1].of = Inner.key /\ nodes'[Len(nodes) + 1].items = 0
      /\ \A i \in 1 .. Len(nodes) : nodes'[i] = nodes[i]
  BY <1>1, <1>2, NodeBegun DEF KnownPlace
<1>4. InStep /\ ResetOnce /\ FieldsAsWritten /\ PromptsAsWritten
  BY DEF KnownPlace, AsWritten
<1>5. Len(nodes) = 2
  BY <1>2, <1>4 DEF KnownPlace, InStep, InPrompts, InPause, InTls
<1>6. /\ Inner = nodes[2] /\ InSection /\ nodes'[1] = nodes[1] /\ nodes'[2] = nodes[2]
      /\ nodes[1].key \in Section /\ state = nodes[1].key /\ Inner.of = state /\ current_key = Inner.key
      /\ nodes[1].key \in nodes[1].used /\ nodes[2].key \in nodes[2].used
  <2>1. /\ Inner = nodes[2] /\ InSection /\ nodes'[1] = nodes[1] /\ nodes'[2] = nodes[2]
    BY <1>3, <1>4, <1>5 DEF KnownPlace, InStep
  <2>2. /\ nodes[1].key \in Section /\ state = nodes[1].key /\ Inner.of = state /\ current_key = Inner.key
    BY <1>5, <2>1 DEF InSection
  <2>3. \A i \in 1 .. 2 : nodes[i].key # NoKey => nodes[i].key \in nodes[i].used
    BY <1>5 DEF KnownPlace, Nested
  <2> QED
    BY <1>2, <2>1, <2>2, <2>3
<1>7. FieldsAsWritten'
  BY <1>1, <1>4 DEF FieldsAsWritten, SequenceStart
<1>8. CASE Under("llm", "prompts")
  <2>1. state = "llm" /\ current_key = "prompts" /\ ~prompts_reset
    BY <1>4, <1>5, <1>6, <1>8 DEF Under, ResetOnce
  <2>2. /\ state' = "prompts" /\ current_key' = NoKey /\ prompts' = <<>> /\ listed' = <<>>
    BY <1>1, <1>8, <2>1 DEF SequenceStart
  <2>3. InStep'
    BY <1>3, <1>5, <1>6, <2>1, <2>2 DEF InStep, InSection, InPrompts
  <2>4. ResetOnce'
    BY <1>3, <1>5, <1>6, <2>1 DEF ResetOnce
  <2>5. PromptsAsWritten'
    <3>1. SubSeq(<<>>, 1, 0) = <<>>
      OBVIOUS
    <3>2. (IF Len(<<>>) < MaxPrompts THEN Len(<<>>) ELSE MaxPrompts) = 0
      BY ConfigAssumption
    <3> QED
      BY <2>2, <3>1, <3>2 DEF PromptsAsWritten
  <2> QED
    BY <1>7, <2>3, <2>4, <2>5 DEF AsWritten
<1>9. CASE ~Under("llm", "prompts")
  <2>1. state = "typer" /\ current_key = "think_pause_secs"
    BY <1>1, <1>6, <1>9 DEF Under
  <2>2. /\ state' = "pause" /\ current_key' = NoKey /\ idx' = 0
        /\ UNCHANGED <<prompts, prompts_reset, listed>>
    <3> DEFINE to == CASE <<state, current_key>> = <<"llm", "prompts">> -> "prompts"
                       [] <<state, current_key>> = <<"typer", "think_pause_secs">> -> "pause"
                       [] OTHER -> state
    <3>1. to = "pause"
      BY <2>1
    <3>2. /\ state' = to
          /\ current_key' = IF to = state THEN current_key ELSE NoKey
          /\ prompts' = IF to = "prompts" /\ ~prompts_reset THEN <<>> ELSE prompts
          /\ prompts_reset' = (prompts_reset \/ to = "prompts")
          /\ idx' = IF to = "pause" THEN 0 ELSE idx
      BY <1>1, Zenon DEF SequenceStart
    <3>3. listed' = listed
      BY <1>1, <1>9
    <3> HIDE DEF to
    <3>4. prompts_reset' = (prompts_reset \/ FALSE)
      BY <3>1, <3>2
    <3>5. prompts_reset' = prompts_reset
      BY <3>4 DEF KnownPlace
    <3> QED
      BY <2>1, <3>1, <3>2, <3>3, <3>5
  <2>3. InStep'
    BY <1>3, <1>5, <1>6, <2>1, <2>2 DEF InStep, InSection, InPause
  <2>4. ResetOnce'
    BY <1>3, <1>4, <1>5, <1>6, <2>1, <2>2 DEF ResetOnce
  <2>5. PromptsAsWritten'
    BY <1>4, <2>2 DEF PromptsAsWritten
  <2> QED
    BY <1>7, <2>3, <2>4, <2>5 DEF AsWritten
<1> QED
  BY <1>8, <1>9

LEMMA ItemInStep ==
  ASSUME KnownPlace, NEW v \in Value, WriteItem(v), idx \in Nat, strange = {}, strange' = {}
  PROVE AsWritten'
<1> USE NamesApart
<1>1. /\ InSequence /\ Scalar(v)
      /\ listed' = IF Inner.of = "prompts" THEN Append(listed, v) ELSE listed
      /\ meant' = IF Inner.of = "think_pause_secs" /\ Inner.items < 2
                  THEN [meant EXCEPT ![Pause[Inner.items + 1]] = v] ELSE meant
  BY DEF WriteItem
<1>2. /\ Len(nodes') = Len(nodes)
      /\ nodes'[Len(nodes)].key = Inner.key /\ nodes'[Len(nodes)].used = Inner.used
      /\ nodes'[Len(nodes)].of = Inner.of /\ nodes'[Len(nodes)].items = Inner.items + 1
      /\ \A i \in 1 .. Len(nodes) - 1 : nodes'[i] = nodes[i]
  BY ItemWritten DEF WriteItem, KnownPlace
<1>3. InStep /\ ResetOnce /\ FieldsAsWritten /\ PromptsAsWritten
  BY DEF KnownPlace, AsWritten
<1>4. Len(nodes) = 3
  <2>1. Len(nodes) # 1
    BY <1>1 DEF KnownPlace, InSequence
  <2>2. Len(nodes) = 2 => Inner.of \in Section
    BY <1>3 DEF KnownPlace, InStep, InSection
  <2> QED
    BY <1>1, <2>1, <2>2 DEF KnownPlace, InSequence
<1>5. /\ Inner = nodes[3] /\ InSection /\ nodes'[1] = nodes[1] /\ nodes'[2] = nodes[2]
      /\ InPrompts \/ InPause
  BY <1>1, <1>2, <1>3, <1>4 DEF KnownPlace, InStep, InSequence, InTls
<1>6. CASE InPrompts
  <2>1. Inner.of = "prompts" /\ state = "prompts"
    BY <1>5, <1>6 DEF InPrompts
  <2>2. Prompt(v) /\ listed' = Append(listed, v) /\ meant' = meant
    BY <1>1, <2>1, ScalarAt
  <2>3. InStep'
    BY <1>2, <1>4, <1>5, <1>6, <2>2 DEF InStep, InSection, InPrompts, Prompt
  <2>4. ResetOnce'
    BY <1>2, <1>3, <1>4, <1>5, <2>2 DEF ResetOnce, Prompt
  <2>5. FieldsAsWritten'
    BY <1>3, <2>2 DEF FieldsAsWritten, Prompt
  <2>6. PromptsAsWritten'
    <3>1. PICK m \in Nat : m = IF Len(listed) < MaxPrompts THEN Len(listed) ELSE MaxPrompts
      BY ConfigAssumption DEF KnownPlace
    <3>2. Len(prompts) = m /\ \A i \in 1 .. m : prompts[i] = listed[i]
      BY <1>3, <3>1, PromptsByPlace DEF KnownPlace
    <3>3. v \in Token /\ MaxPrompts \in Nat /\ Len(listed) \in Nat
      BY ConfigAssumption DEF Token, KnownPlace
    <3>4. /\ listed' \in Seq(Token) /\ Len(listed') = Len(listed) + 1 /\ listed'[Len(listed) + 1] = v
          /\ \A i \in 1 .. Len(listed) : listed'[i] = listed[i]
      BY <2>2, <3>3 DEF KnownPlace
    <3>5. CASE Len(listed) < MaxPrompts
      <4>1. /\ prompts' \in Seq(Token) /\ Len(prompts') = m + 1 /\ prompts'[m + 1] = v
            /\ \A i \in 1 .. m : prompts'[i] = prompts[i]
        BY <2>2, <3>1, <3>2, <3>3, <3>5 DEF Prompt, KnownPlace
      <4>2. m + 1 \in Nat /\ m + 1 = IF Len(listed') < MaxPrompts THEN Len(listed') ELSE MaxPrompts
        BY <3>1, <3>3, <3>4, <3>5
      <4>3. \A i \in 1 .. m + 1 : prompts'[i] = listed'[i]
        BY <3>1, <3>2, <3>3, <3>4, <3>5, <4>1
      <4> QED
        BY <3>4, <4>1, <4>2, <4>3, FirstPlaces DEF PromptsAsWritten
    <3>6. CASE ~(Len(listed) < MaxPrompts)
      <4>1. prompts' = prompts /\ m = MaxPrompts
        BY <2>2, <3>1, <3>2, <3>3, <3>6 DEF Prompt
      <4>2. m = IF Len(listed') < MaxPrompts THEN Len(listed') ELSE MaxPrompts
        BY <3>1, <3>3, <3>4, <3>6, <4>1
      <4>3. prompts' \in Seq(Token) /\ Len(prompts') = m /\ \A i \in 1 .. m : prompts'[i] = listed'[i]
        BY <3>1, <3>2, <3>3, <3>4, <3>6, <4>1 DEF KnownPlace
      <4> QED
        BY <3>4, <4>2, <4>3, FirstPlaces DEF PromptsAsWritten
    <3> QED
      BY <3>5, <3>6
  <2> QED
    BY <2>3, <2>4, <2>5, <2>6 DEF AsWritten
<1>7. CASE InPause
  <2>1. Inner.of = "think_pause_secs" /\ state = "pause" /\ idx = Inner.items
    BY <1>5, <1>7 DEF InPause
  <2>2. /\ PauseItem(v) /\ listed' = listed
        /\ meant' = IF idx < 2 THEN [meant EXCEPT ![Pause[idx + 1]] = v] ELSE meant
    BY <1>1, <2>1, ScalarAt
  <2>3. InStep'
    BY <1>2, <1>4, <1>5, <1>7, <2>1, <2>2 DEF InStep, InSection, InPause, PauseItem
  <2>4. ResetOnce'
    BY <1>2, <1>3, <1>4, <1>5, <2>2 DEF ResetOnce, PauseItem
  <2>5. FieldsAsWritten'
    <3>1. PICK f : f = Pause[idx + 1]
      OBVIOUS
    <3>2. CASE idx < 2
      <4>1. f \in Field
        BY <3>1, <3>2
      <4>2. cfg' = [cfg EXCEPT ![f] = v] /\ meant' = [meant EXCEPT ![f] = v]
        BY <2>2, <3>1, <3>2 DEF PauseItem
      <4> QED
        BY <1>3, <4>1, <4>2 DEF FieldsAsWritten, KnownPlace
    <3>3. CASE ~(idx < 2)
      BY <1>3, <2>2, <3>3 DEF FieldsAsWritten, PauseItem
    <3> QED
      BY <3>2, <3>3
  <2>6. PromptsAsWritten'
    BY <1>3, <2>2 DEF PromptsAsWritten, PauseItem
  <2> QED
    BY <2>3, <2>4, <2>5, <2>6 DEF AsWritten
<1> QED
  BY <1>5, <1>6, <1>7

LEMMA SequenceEndInStep ==
  ASSUME KnownPlace, EndSequence, strange = {}, strange' = {}
  PROVE AsWritten'
<1> USE NamesApart
<1>1. /\ InSequence /\ SequenceEnd /\ nodes' = Closed /\ UNCHANGED <<meant, listed>>
  BY DEF EndSequence
<1>2. InStep /\ ResetOnce /\ FieldsAsWritten /\ PromptsAsWritten
  BY DEF KnownPlace, AsWritten
<1>3. Len(nodes) = 3
  <2>1. Len(nodes) # 1
    BY <1>1 DEF KnownPlace, InSequence
  <2>2. Len(nodes) = 2 => Inner.of \in Section
    BY <1>2 DEF KnownPlace, InStep, InSection
  <2> QED
    BY <1>1, <2>1, <2>2 DEF KnownPlace, InSequence
<1>4. /\ Len(nodes') = 2 /\ nodes'[1] = nodes[1]
      /\ nodes'[2].key = NoKey /\ nodes'[2].used = nodes[2].used /\ nodes'[2].of = nodes[2].of
  <2>1. /\ Len(nodes') = Len(nodes) - 1 /\ nodes'[Len(nodes) - 1].key = NoKey
        /\ nodes'[Len(nodes) - 1].used = nodes[Len(nodes) - 1].used
        /\ nodes'[Len(nodes) - 1].of = nodes[Len(nodes) - 1].of
        /\ \A i \in 1 .. Len(nodes) - 2 : nodes'[i] = nodes[i]
    BY <1>1, <1>3, Ended DEF KnownPlace
  <2> QED
    BY <1>3, <2>1
<1>5. Inner = nodes[3] /\ InSection /\ (InPrompts \/ InPause)
  BY <1>1, <1>2, <1>3 DEF KnownPlace, InStep, InSequence, InTls
<1>6. current_key' = NoKey /\ state' = nodes[1].key /\ UNCHANGED <<cfg, prompts, prompts_reset>>
  BY <1>1, <1>5 DEF SequenceEnd, InPrompts, InPause
<1>7. InStep'
  BY <1>3, <1>4, <1>5, <1>6 DEF InStep, InSection
<1>8. ResetOnce'
  BY <1>2, <1>3, <1>4, <1>6 DEF ResetOnce
<1>9. FieldsAsWritten' /\ PromptsAsWritten'
  BY <1>1, <1>2, <1>6 DEF FieldsAsWritten, PromptsAsWritten
<1> QED
  BY <1>7, <1>8, <1>9 DEF AsWritten

\* The beginning of a section or of tls, and the end.
LEMMA MappingInStep ==
  ASSUME KnownPlace, BeginMapping, strange = {}, strange' = {}
  PROVE AsWritten'
<1> USE NamesApart
<1>1. /\ (Inner.of = "document" /\ Inner.key \in Section) \/ Under("api", "tls")
      /\ nodes' = Append(nodes, Node(Inner.key)) /\ UNCHANGED <<parser, meant, listed>>
  BY DEF BeginMapping
<1>2. Inner.key \in Section \cup {"tls"}
  BY <1>1 DEF Under
<1>3. /\ Len(nodes') = Len(nodes) + 1
      /\ nodes'[Len(nodes) + 1].key = NoKey /\ nodes'[Len(nodes) + 1].used = {}
      /\ nodes'[Len(nodes) + 1].of = Inner.key
      /\ \A i \in 1 .. Len(nodes) : nodes'[i] = nodes[i]
  BY <1>1, <1>2, NodeBegun DEF KnownPlace
<1>4. InStep /\ ResetOnce /\ FieldsAsWritten /\ PromptsAsWritten
  BY DEF KnownPlace, AsWritten
<1>5. UNCHANGED <<state, current_key, cfg, prompts, prompts_reset, idx>>
  BY <1>1 DEF parser
<1>6. FieldsAsWritten' /\ PromptsAsWritten'
  BY <1>1, <1>4, <1>5 DEF FieldsAsWritten, PromptsAsWritten
<1>7. CASE Len(nodes) = 1
  <2>1. Inner = nodes[1] /\ Inner.of = "document" /\ Inner.key \in Section /\ nodes'[1] = nodes[1]
    BY <1>1, <1>3, <1>7 DEF KnownPlace, Under
  <2>2. InStep'
    BY <1>3, <1>4, <1>5, <1>7, <2>1 DEF InStep, InSection
  <2>3. ResetOnce'
    BY <1>3, <1>4, <1>5, <1>7, <2>1 DEF ResetOnce
  <2> QED
    BY <1>6, <2>2, <2>3 DEF AsWritten
<1>8. CASE Len(nodes) # 1
  <2>1. Len(nodes) = 2
    <3>1. Len(nodes) < 3
      BY DEF BeginMapping
    <3>2. PICK n \in {1, 2, 3} : n = Len(nodes)
      BY DEF KnownPlace
    <3>3. n = 2
      BY <1>8, <3>1, <3>2
    <3> QED
      BY <3>2, <3>3
  <2>2. /\ Inner = nodes[2] /\ InSection /\ Inner.of = "api" /\ Inner.key = "tls"
        /\ nodes'[1] = nodes[1] /\ nodes'[2] = nodes[2]
    BY <1>1, <1>3, <1>4, <2>1 DEF KnownPlace, InStep, Under
  <2>3. InStep'
    BY <1>3, <1>5, <2>1, <2>2 DEF InStep, InSection, InTls
  <2>4. ResetOnce'
    BY <1>3, <1>4, <1>5, <2>1, <2>2 DEF ResetOnce, InSection
  <2> QED
    BY <1>6, <2>3, <2>4 DEF AsWritten
<1> QED
  BY <1>7, <1>8

LEMMA MappingEndInStep ==
  ASSUME KnownPlace, EndMapping, strange = {}, strange' = {}
  PROVE AsWritten'
<1> USE NamesApart
<1>1. /\ ~InSequence /\ Len(nodes) > 1 /\ MappingEnd /\ nodes' = Closed
      /\ ~(Inner.of = "tls" /\ Inner.used = {}) /\ UNCHANGED <<meant, listed>>
  BY DEF EndMapping
<1>2. InStep /\ ResetOnce /\ FieldsAsWritten /\ PromptsAsWritten
  BY DEF KnownPlace, AsWritten
<1>3. /\ Len(nodes') = Len(nodes) - 1 /\ nodes'[Len(nodes) - 1].key = NoKey
      /\ nodes'[Len(nodes) - 1].used = nodes[Len(nodes) - 1].used
      /\ nodes'[Len(nodes) - 1].of = nodes[Len(nodes) - 1].of
      /\ \A i \in 1 .. Len(nodes) - 2 : nodes'[i] = nodes[i]
  BY <1>1, Ended DEF KnownPlace
<1>4. /\ state' = IF state = "tls" THEN "api"
                  ELSE IF state \in {"prompts", "root"} THEN state ELSE "root"
      /\ current_key' = IF state \in {"prompts", "root"} THEN current_key ELSE NoKey
      /\ UNCHANGED <<cfg, prompts, prompts_reset, idx>>
  BY <1>1 DEF MappingEnd
<1>5. FieldsAsWritten' /\ PromptsAsWritten'
  BY <1>1, <1>2, <1>4 DEF FieldsAsWritten, PromptsAsWritten
<1>6. CASE Len(nodes) = 2
  <2>1. state \in Section
    BY <1>2, <1>6 DEF InStep, InSection
  <2>2. state' = "root" /\ current_key' = NoKey
    BY <1>4, <2>1
  <2>3. Len(nodes') = 1 /\ nodes'[1].key = NoKey /\ nodes'[1].used = nodes[1].used
    BY <1>3, <1>6
  <2>4. InStep'
    BY <2>2, <2>3 DEF InStep
  <2>5. ResetOnce'
    BY <1>2, <1>4, <2>3 DEF ResetOnce
  <2> QED
    BY <1>5, <2>4, <2>5 DEF AsWritten
<1>7. CASE Len(nodes) = 3
  <2>1. Inner = nodes[3] /\ InSection /\ InTls
    BY <1>1, <1>2, <1>7 DEF KnownPlace, InStep, InSequence, InPrompts, InPause
  <2>2. state = "tls" /\ nodes[1].key = "api"
    BY <1>1, <2>1 DEF InTls
  <2>3. state' = "api" /\ current_key' = NoKey
    BY <1>4, <2>2
  <2>4. /\ Len(nodes') = 2 /\ nodes'[1] = nodes[1]
        /\ nodes'[2].key = NoKey /\ nodes'[2].used = nodes[2].used /\ nodes'[2].of = nodes[2].of
    BY <1>3, <1>7
  <2>5. InStep'
    BY <2>1, <2>2, <2>3, <2>4 DEF InStep, InSection
  <2>6. ResetOnce'
    BY <1>2, <1>4, <1>7, <2>4 DEF ResetOnce
  <2> QED
    BY <1>5, <2>5, <2>6 DEF AsWritten
<1> QED
  BY <1>1, <1>6, <1>7 DEF KnownPlace

-----------------------------------------------------------------------------
LEMMA InitConfig ==
  ASSUME ConfigInit
  PROVE ConfigInv
<1> USE NamesApart
<1>1. PICK n : n = Node("document")
  OBVIOUS
<1>2. n \in Collection /\ n.key = NoKey /\ n.used = {} /\ n.of = "document"
  BY <1>1 DEF Node, Collection
<1>3. nodes = <<n>> /\ Len(nodes) = 1 /\ nodes[1] = n /\ nodes \in Seq(Collection)
  BY <1>1, <1>2 DEF ConfigInit
<1>4. Nested
  BY <1>2, <1>3 DEF Nested
<1>5. /\ prompts = <<"default">> /\ listed = <<"default">>
      /\ prompts \in Seq(Token) /\ listed \in Seq(Token)
  BY DEF ConfigInit, Token
<1>6. Unset \in [Field -> {"default"}] /\ cfg = Unset /\ meant = Unset
  BY DEF Unset, ConfigInit
<1>7. Lists
  BY <1>5 DEF Lists, ConfigInit
<1>8. ConfigTypeOK
  <2>1. /\ cfg \in [Field -> Key \cup Section \cup Value \cup {"default", "unknown"}]
        /\ meant \in [Field -> Value \cup {"default"}]
    BY <1>6
  <2>2. /\ state \in Section \cup {"root", "tls", "prompts", "pause"}
        /\ current_key \in Key \cup Section \cup Value \cup {NoKey, "unknown"}
        /\ prompts_reset \in BOOLEAN
        /\ strange \subseteq {"section", "empty", "origins", "sequence", "mapping"}
    BY DEF ConfigInit
  <2>3. idx \in 0 .. MaxEvents /\ events \in 0 .. MaxEvents
    BY ConfigAssumption DEF ConfigInit
  <2> QED
    BY <1>5, <2>1, <2>2, <2>3 DEF ConfigTypeOK
<1>9. InStep /\ ResetOnce
  BY <1>2, <1>3 DEF ConfigInit, InStep, ResetOnce
<1>10. FieldsAsWritten
  BY <1>6 DEF FieldsAsWritten
<1>11. PromptsAsWritten
  <2>1. /\ MaxPrompts \in Nat /\ MaxPrompts >= 1 /\ Len(listed) = 1 /\ Len(prompts) = 1
        /\ prompts[1] = listed[1]
    BY <1>5, ConfigAssumption
  <2>2. 1 = IF Len(listed) < MaxPrompts THEN Len(listed) ELSE MaxPrompts
    BY <2>1
  <2>3. \A i \in 1 .. 1 : prompts[i] = listed[i]
    BY <2>1
  <2> QED
    BY <1>5, <2>1, <2>2, <2>3, PromptsByPlace
<1> QED
  BY <1>4, <1>7, <1>8, <1>9, <1>10, <1>11 DEF ConfigInv, AsWritten

LEMMA StepConfig ==
  ASSUME ConfigInv, [ConfigNext]_config
  PROVE ConfigInv'
<1>1. CASE UNCHANGED config
  BY <1>1 DEF config, parser, ConfigInv, ConfigTypeOK, Nested, Lists, AsWritten, InStep, InSection,
              InPrompts, InPause, InTls, ResetOnce, FieldsAsWritten, PromptsAsWritten
<1>2. CASE ConfigNext
  <2>1. ConfigTypeOK' /\ Nested' /\ Lists'
    BY <1>2, StepTypes DEF ConfigInv
  <2>2. ASSUME strange' = {}
        PROVE  AsWritten'
    <3>1. strange = {}
      BY <1>2, <2>2 DEF ConfigNext, WriteKey, WriteValue, WriteItem, BeginSequence, EndSequence,
                        BeginMapping, EndMapping
    <3>2. KnownPlace /\ idx \in Nat
      BY <3>1, KnownPlaceHolds DEF ConfigInv, ConfigTypeOK
    <3>3. CASE \E k \in Name : WriteKey(k)
      BY <2>2, <3>1, <3>2, <3>3, KeyInStep
    <3>4. CASE \E v \in Value : WriteValue(v)
      BY <2>2, <3>1, <3>2, <3>4, ValueInStep
    <3>5. CASE \E v \in Value : WriteItem(v)
      BY <2>2, <3>1, <3>2, <3>5, ItemInStep
    <3>6. CASE BeginSequence
      BY <2>2, <3>1, <3>2, <3>6, SequenceInStep
    <3>7. CASE EndSequence
      BY <2>2, <3>1, <3>2, <3>7, SequenceEndInStep
    <3>8. CASE BeginMapping
      BY <2>2, <3>1, <3>2, <3>8, MappingInStep
    <3>9. CASE EndMapping
      BY <2>2, <3>1, <3>2, <3>9, MappingEndInStep
    <3> QED
      BY <1>2, <3>3, <3>4, <3>5, <3>6, <3>7, <3>8, <3>9 DEF ConfigNext, Name
  <2> QED
    BY <2>1, <2>2 DEF ConfigInv
<1> QED
  BY <1>1, <1>2

\* The parser is where the document is, at every event.
THEOREM ConfigInvariance == ConfigSpec => []ConfigInv
BY InitConfig, StepConfig, PTL DEF ConfigSpec

\* The variables of the parser and of the document keep their types, and the
\* prompts fit their array, for any sections, keys, values and sizes.
THEOREM ConfigTypeCorrect == ConfigSpec => []ConfigTypeOK
<1>1. ConfigInv => ConfigTypeOK
  BY DEF ConfigInv
<1> QED
  BY <1>1, ConfigInvariance, PTL

\* However long the document and in whatever order its keys: parse_config, which
\* has no stack, reads each field and the prompts as they are written, as long as
\* the document has no form it does not know.
THEOREM ReadAsWrittenHolds == ConfigSpec => []ReadAsWritten
<1>1. ConfigInv => ReadAsWritten
  BY DEF ConfigInv, AsWritten, ReadAsWritten
<1> QED
  BY <1>1, ConfigInvariance, PTL
=============================================================================
