------------------------------ MODULE CApiProofs ------------------------------
(***************************************************************************)
(* For every set of connections, bodies and bounds, and in whatever order  *)
(* the calls of handler come: the REST API of the C port keeps the bounds  *)
(* of its limiter (FixedWindowBound, RefusalIsEarned), accounts for every  *)
(* body (BodiesAccounted), and changes its state only as a complete and    *)
(* authorized body says (StateFollowsRequests).                            *)
(*                                                                         *)
(* The limiter comes first (GateInv), for every set of addresses, limit,   *)
(* table and length of a second, and however the clock is set.  A window   *)
(* begins at a later second of the clock than the one before it, and a     *)
(* request counted in a window does not see a later second than its        *)
(* beginning.  So the windows that the requests since some time can fall   *)
(* into are those between the earliest second the clock can have shown     *)
(* then (Spent) and the beginning of the one that is open; and no window   *)
(* takes more than the allowance.  The other way round, what is counted in *)
(* the open window was let through after it began (Counted).               *)
(*                                                                         *)
(* Then the API around it (ApiInv).  StateFollowsRequests needs to know    *)
(* that the buffer holds the beginning of the body, even when the rest had *)
(* no room (Buffered), and that a request is let through only once (the    *)
(* ids in History).                                                        *)
(***************************************************************************)
EXTENDS CApi, FiniteSetTheorems, SequenceTheorems, TLAPS

\* Whole seconds of real time.
RealSecond(t) == t \div TicksPerSecond

\* The least and the most the clock has been ahead of real time.
Least == MaxSteps - back
Most == MaxSteps + steps - back

Clock ==
  /\ ticks \in 0 .. MaxTime
  /\ steps \in 0 .. MaxSteps /\ back \in 0 .. steps
  /\ skew = MaxSteps + steps - 2 * back

Table ==
  /\ DOMAIN entries \subseteq Addr
  /\ IsFiniteSet(DOMAIN entries) /\ Cardinality(DOMAIN entries) <= TableSize
  /\ \A a \in DOMAIN entries :
       /\ entries[a] \in [count : Nat, start : Int]
       /\ entries[a].count \in 1 .. Allowance
       /\ entries[a].start >= 0 /\ entries[a].start <= RealSecond(ticks) + Most

History ==
  /\ calls \in Nat
  /\ IsFiniteSet(admitted)
  /\ \A h \in admitted : h.id \in Nat /\ h.id < calls /\ h.at \in 0 .. ticks
  /\ Cardinality(DOMAIN entries) < TableSize =>
       \A h \in admitted : h.key \in DOMAIN entries

\* Requests of a key since a second of real time, and in one of the clock.
Since(a, q) == {h \in admitted : h.key = a /\ RealSecond(h.at) >= q}
Within(a, s) == {h \in admitted : h.key = a /\ h.sec = s}

Spent ==
  \A a \in DOMAIN entries, q \in Int :
    Cardinality(Since(a, q)) <=
      IF entries[a].start >= q + Least
      THEN Allowance * (entries[a].start - q - Least) + entries[a].count
      ELSE 0

Counted ==
  \A a \in DOMAIN entries :
    Cardinality(Since(a, entries[a].start - Most)) >= entries[a].count

\* As long as nobody sets the clock, no window begins in the future, and the
\* requests of a second are those of its window.
Calendar ==
  steps = 0 =>
    \A a \in DOMAIN entries :
      /\ entries[a].start <= Second
      /\ \A s \in Int :
           Cardinality(Within(a, s)) <= IF s > entries[a].start THEN 0
                                        ELSE IF s = entries[a].start THEN entries[a].count
                                        ELSE Allowance

GateInv == Clock /\ Table /\ History /\ Spent /\ Counted /\ Calendar

-----------------------------------------------------------------------------
\* Arithmetic.

LEMMA AllowanceType ==
  /\ Allowance \in Nat \ {0} /\ Allowance >= MaxRequests
  /\ \A n \in Nat : n < MaxRequests => n + 1 <= Allowance
BY CGateAssumption DEF Allowance

LEMMA TimesMonotone ==
  ASSUME NEW k \in Nat, NEW m \in Int, NEW n \in Int, m <= n
  PROVE  k * m <= k * n /\ k * m \in Int /\ k * (m + 1) = k * m + k
<1>1. k * (n - m) >= 0
  BY SMT
<1>2. k * n = k * m + k * (n - m)
  BY SMT
<1> QED  BY <1>1, <1>2

\* Looking further back, there is room for more windows.
LEMMA MoreWindows ==
  ASSUME NEW k \in Nat, NEW n \in Nat, NEW count \in Nat, NEW start \in Int, NEW q \in Int,
         NEW l \in Int, NEW m \in Int, m <= l,
         n <= IF start >= q + l THEN k * (start - q - l) + count ELSE 0
  PROVE  n <= IF start >= q + m THEN k * (start - q - m) + count ELSE 0
<1>1. k * (start - q - l) <= k * (start - q - m) /\ k * (start - q - l) \in Int
      /\ k * (start - q - m) \in Int
  BY TimesMonotone
<1>2. start >= q + m => k * (start - q - m) >= 0
  <2>1. start >= q + m => k * 0 <= k * (start - q - m)
    BY TimesMonotone
  <2> QED  BY <2>1
<1>3. start >= q + l => start >= q + m
  OBVIOUS
<1> QED  BY <1>1, <1>2, <1>3

\* What the windows so far and the new count allow.
LEMMA OneMoreFits ==
  ASSUME NEW k \in Nat, NEW n \in Nat, NEW count \in 0 .. k, NEW start \in Int, NEW q \in Int,
         NEW l \in Int, NEW c \in Nat, NEW s \in Int,
         n <= IF start >= q + l THEN k * (start - q - l) + count ELSE 0,
         (s > start /\ c = 1) \/ (s = start /\ c = count + 1)
  PROVE  /\ n <= IF s >= q + l THEN k * (s - q - l) + c ELSE 0
         /\ s >= q + l => n + 1 <= k * (s - q - l) + c
<1>1. /\ k * (start - q - l) \in Int /\ k * (s - q - l) \in Int
      /\ s >= q + l => k * (s - q - l) >= 0
  <2>1. s >= q + l => k * 0 <= k * (s - q - l)
    BY TimesMonotone
  <2> QED  BY <2>1, TimesMonotone
<1>2. CASE s = start /\ c = count + 1
  BY <1>1, <1>2
<1>3. CASE s > start /\ c = 1
  <2>1. k * (start - q - l) + k <= k * (s - q - l)
    <3>1. k * (start - q - l + 1) <= k * (s - q - l)
      BY <1>3, TimesMonotone
    <3>2. k * (start - q - l + 1) = k * (start - q - l) + k
      BY TimesMonotone
    <3> QED  BY <3>1, <3>2
  <2> QED  BY <1>1, <1>3, <2>1
<1> QED  BY <1>2, <1>3

\* Real time does not run backwards.
LEMMA SecondsGrow ==
  ASSUME NEW t \in Nat, NEW u \in Nat, t <= u
  PROVE  RealSecond(t) \in Nat /\ RealSecond(t) <= RealSecond(u)
BY CGateAssumption DEF RealSecond

\* Less than n seconds of ticks are at most n whole seconds.
LEMMA SecondsApart ==
  ASSUME NEW t \in Nat, NEW u \in Nat, NEW n \in Nat
  PROVE  /\ t > u - n * TicksPerSecond => RealSecond(t) >= RealSecond(u) - n
         /\ RealSecond(u) - n <= RealSecond(t) => t > u - (n + 1) * TicksPerSecond
BY CGateAssumption DEF RealSecond

\* One more element, and one that is new.
LEMMA OneMore ==
  ASSUME NEW S, IsFiniteSet(S), NEW x
  PROVE  /\ IsFiniteSet(S \cup {x})
         /\ Cardinality(S) \in Nat /\ Cardinality(S \cup {x}) \in Nat
         /\ Cardinality(S \cup {x}) <= Cardinality(S) + 1
         /\ x \notin S => Cardinality(S \cup {x}) = Cardinality(S) + 1
<1>1. IsFiniteSet(S \cup {x}) /\ Cardinality(S) \in Nat /\ Cardinality(S \cup {x}) \in Nat
  BY FS_AddElement, FS_CardinalityType, Zenon
<1>2. Cardinality(S \cup {x}) = IF x \in S THEN Cardinality(S) ELSE Cardinality(S) + 1
  BY FS_AddElement, Zenon
<1> QED  BY <1>1, <1>2

\* The requests of a key are finitely many.
LEMMA HitsFinite ==
  ASSUME History, NEW a, NEW q
  PROVE  /\ IsFiniteSet(Since(a, q)) /\ Cardinality(Since(a, q)) \in Nat
         /\ IsFiniteSet(Within(a, q)) /\ Cardinality(Within(a, q)) \in Nat
<1>1. Since(a, q) \subseteq admitted /\ Within(a, q) \subseteq admitted
  BY DEF Since, Within
<1>2. IsFiniteSet(Since(a, q)) /\ IsFiniteSet(Within(a, q))
  BY <1>1, FS_Subset DEF History
<1> QED  BY <1>2, FS_CardinalityType

\* The request that is let through now.
Hit(a) == [id |-> calls, key |-> a, at |-> ticks, sec |-> Second]

\* It is counted where it belongs, and nowhere else.
LEMMA HitCounts ==
  ASSUME History, NEW a, admitted' = admitted \cup {Hit(a)}, UNCHANGED clock
  PROVE  /\ IsFiniteSet(admitted')
         /\ \A b, q : b # a => Since(b, q)' = Since(b, q) /\ Within(b, q)' = Within(b, q)
         /\ \A q : ~(RealSecond(ticks) >= q) => Since(a, q)' = Since(a, q)
         /\ \A q : RealSecond(ticks) >= q =>
              Cardinality(Since(a, q)') = Cardinality(Since(a, q)) + 1
         /\ \A s : s # Second => Within(a, s)' = Within(a, s)
         /\ \A s : s = Second => Cardinality(Within(a, s)') = Cardinality(Within(a, s)) + 1
<1>1. /\ Hit(a).key = a /\ Hit(a).at = ticks /\ Hit(a).sec = Second /\ Hit(a).id = calls
      /\ ticks' = ticks
  BY DEF Hit, clock
<1>2. Hit(a) \notin admitted
  <2>1. ~(calls < calls)
    BY DEF History
  <2> QED  BY <1>1, <2>1 DEF History
<1> DEFINE hit == Hit(a)
<1> HIDE DEF hit
<1>3. hit.key = a /\ hit.at = ticks /\ hit.sec = Second /\ hit \notin admitted
  BY <1>1, <1>2 DEF hit
<1>4. admitted' = admitted \cup {hit}
  BY DEF hit
<1>5. IsFiniteSet(admitted')
  BY <1>4, OneMore, Zenon DEF History
<1>6. \A b, q : b # a => Since(b, q)' = Since(b, q) /\ Within(b, q)' = Within(b, q)
  BY <1>3, <1>4 DEF Since, Within
<1>7. \A q : ~(RealSecond(ticks) >= q) => Since(a, q)' = Since(a, q)
  BY <1>3, <1>4 DEF Since
<1>8. ASSUME NEW q, RealSecond(ticks) >= q
      PROVE  Cardinality(Since(a, q)') = Cardinality(Since(a, q)) + 1
  <2>1. Since(a, q)' = Since(a, q) \cup {hit}
    BY <1>3, <1>4, <1>8 DEF Since
  <2>2. hit \notin Since(a, q)
    BY <1>3 DEF Since
  <2> QED  BY <2>1, <2>2, HitsFinite, OneMore, Zenon
<1>9. \A s : s # Second => Within(a, s)' = Within(a, s)
  BY <1>3, <1>4 DEF Within
<1>10. ASSUME NEW s, s = Second
       PROVE  Cardinality(Within(a, s)') = Cardinality(Within(a, s)) + 1
  <2>1. Within(a, s)' = Within(a, s) \cup {hit}
    BY <1>3, <1>4, <1>10 DEF Within
  <2>2. hit \notin Within(a, s)
    BY <1>3 DEF Within
  <2> QED  BY <2>1, <2>2, HitsFinite, OneMore, Zenon
<1> QED  BY <1>5, <1>6, <1>7, <1>8, <1>9, <1>10

\* What the clock shows.
LEMMA SecondShown ==
  ASSUME Clock
  PROVE  /\ RealSecond(ticks) \in Nat /\ Least \in Int /\ Most \in Int /\ Least >= 0
         /\ Second \in Nat /\ Least <= Most
         /\ Second >= RealSecond(ticks) + Least /\ Second <= RealSecond(ticks) + Most
         /\ steps = 0 => Second = RealSecond(ticks) + MaxSteps
<1>1. ticks \in Nat /\ steps \in Nat /\ back \in Nat /\ back <= steps /\ steps <= MaxSteps
  BY CGateAssumption DEF Clock
<1>2. RealSecond(ticks) \in Nat
  BY <1>1, SecondsGrow
<1>3. Second = RealSecond(ticks) + skew
  BY DEF Second, RealSecond
<1> QED  BY <1>1, <1>2, <1>3, CGateAssumption DEF Clock, Least, Most

LEMMA InitGateInv == GateInit => GateInv
<1> SUFFICES ASSUME GateInit PROVE GateInv
  OBVIOUS
<1>1. DOMAIN entries = {} /\ admitted = {}
  BY DEF GateInit
<1>2. Clock
  BY CGateAssumption DEF GateInit, Clock
<1>3. Table
  BY <1>1, FS_EmptySet, CGateAssumption DEF Table
<1>4. History
  BY <1>1, FS_EmptySet DEF GateInit, History
<1> QED  BY <1>1, <1>2, <1>3, <1>4 DEF GateInv, Spent, Counted, Calendar

\* Time, and setting the clock.
LEMMA TickGateInv == ASSUME GateInv, Tick PROVE GateInv'
<1> USE DEF GateInv
<1>1. ticks' = ticks + 1 /\ ticks < MaxTime /\ UNCHANGED <<skew, steps, back, entries, calls, admitted>>
  BY DEF Tick
<1>2. Clock'
  BY <1>1, CGateAssumption DEF Clock
<1>3. RealSecond(ticks) <= RealSecond(ticks') /\ RealSecond(ticks) \in Nat /\ RealSecond(ticks') \in Nat
  BY <1>1, SecondsGrow DEF Clock
<1>4. Most' = Most /\ Least' = Least /\ Most \in Int
  BY <1>1, SecondShown DEF Most, Least
<1>5. Table'
  <2>1. \A a \in DOMAIN entries : entries[a].start \in Int
    BY DEF Table
  <2> QED  BY <1>1, <1>3, <1>4, <2>1 DEF Table
<1>6. History'
  BY <1>1 DEF History, Clock
<1>7. Spent' /\ Counted'
  BY <1>1, <1>4 DEF Spent, Counted, Since
<1>8. Calendar'
  <2> SUFFICES ASSUME steps = 0 PROVE Calendar'
    BY <1>1 DEF Calendar
  <2>1. skew = MaxSteps
    BY CGateAssumption DEF Clock
  <2>2. Second = RealSecond(ticks) + MaxSteps /\ Second' = RealSecond(ticks') + MaxSteps
    BY <1>1, <2>1 DEF Second, RealSecond
  <2>3. Second' >= Second /\ Second \in Nat /\ Second' \in Nat
    BY <1>3, <2>2, CGateAssumption
  <2>4. \A a \in DOMAIN entries : entries[a].start \in Int
    BY DEF Table
  <2> QED  BY <1>1, <2>3, <2>4 DEF Calendar, Within
<1> QED  BY <1>2, <1>5, <1>6, <1>7, <1>8

LEMMA StepClockGateInv ==
  ASSUME GateInv, NEW d \in {-1, 1}, StepClock(d) PROVE GateInv'
<1> USE DEF GateInv
<1>1. /\ steps < MaxSteps /\ steps' = steps + 1 /\ skew' = skew + d
      /\ UNCHANGED <<ticks, entries, calls, admitted>>
      /\ \/ d = -1 /\ back' = back + 1
         \/ d = 1 /\ back' = back
  BY DEF StepClock
<1>2. Clock'
  BY <1>1, CGateAssumption DEF Clock
<1>3. /\ Least \in Int /\ Least' \in Int /\ Least' <= Least
      /\ Most \in Int /\ Most' \in Int /\ Most' >= Most
  BY <1>1, CGateAssumption DEF Clock, Least, Most
<1>4. RealSecond(ticks)' = RealSecond(ticks) /\ RealSecond(ticks) \in Nat
  BY <1>1, SecondShown DEF RealSecond
<1>5. Table'
  <2>1. \A a \in DOMAIN entries : entries[a].start \in Int
    BY DEF Table
  <2> QED  BY <1>1, <1>3, <1>4, <2>1 DEF Table
<1>6. History'
  BY <1>1 DEF History
<1>7. Spent'
  <2> SUFFICES ASSUME NEW a \in DOMAIN entries, NEW q \in Int
               PROVE  Cardinality(Since(a, q)) <=
                        IF entries[a].start >= q + Least'
                        THEN Allowance * (entries[a].start - q - Least') + entries[a].count
                        ELSE 0
    BY <1>1 DEF Spent, Since, RealSecond
  <2>1. /\ Cardinality(Since(a, q)) \in Nat
        /\ entries[a].start \in Int /\ entries[a].count \in Nat
    BY HitsFinite DEF Table
  <2>2. Cardinality(Since(a, q)) <=
          IF entries[a].start >= q + Least
          THEN Allowance * (entries[a].start - q - Least) + entries[a].count
          ELSE 0
    BY DEF Spent
  <2> QED  BY <1>3, <2>1, <2>2, AllowanceType, MoreWindows
<1>8. Counted'
  <2> SUFFICES ASSUME NEW a \in DOMAIN entries
               PROVE  Cardinality(Since(a, entries[a].start - Most')) >= entries[a].count
    BY <1>1 DEF Counted, Since, RealSecond
  <2>1. entries[a].start \in Int /\ entries[a].count \in Nat
    BY DEF Table
  <2>2. \A h \in admitted : RealSecond(h.at) \in Nat
    BY SecondsGrow DEF History, Clock
  <2>3. Since(a, entries[a].start - Most) \subseteq Since(a, entries[a].start - Most')
    BY <1>3, <2>1, <2>2 DEF Since
  <2>4. Cardinality(Since(a, entries[a].start - Most)) <= Cardinality(Since(a, entries[a].start - Most'))
    BY <2>3, HitsFinite, FS_Subset
  <2> QED  BY <2>1, <2>4, HitsFinite DEF Counted
<1>9. Calendar'
  BY <1>1 DEF Calendar, Clock
<1> QED  BY <1>2, <1>5, <1>6, <1>7, <1>8, <1>9

\* A request is let through and counted: in a new window, in the one that is
\* open, or as the first of a client.
CountedAs(a, c, s) ==
  \/ Known(a) /\ s > entries[a].start /\ c = 1
  \/ Known(a) /\ s = entries[a].start /\ c = entries[a].count + 1
  \/ ~Known(a) /\ Cardinality(DOMAIN entries) < TableSize /\ c = 1

LEMMA CountGateInv ==
  ASSUME GateInv, NEW a \in Addr, NEW c \in 1 .. Allowance, NEW s \in Int,
         CountedAs(a, c, s), s >= Second, s <= RealSecond(ticks) + Most,
         SetEntry(a, [count |-> c, start |-> s]),
         admitted' = admitted \cup {Hit(a)}, calls' = calls + 1, UNCHANGED clock
  PROVE  GateInv'
<1> USE DEF GateInv
<1>1. UNCHANGED <<ticks, skew, steps, back>>
  BY DEF clock
<1>2. /\ Clock' /\ Least' = Least /\ Most' = Most /\ Second' = Second
      /\ RealSecond(ticks)' = RealSecond(ticks)
  BY <1>1 DEF Clock, Least, Most, Second, RealSecond
<1>3. /\ RealSecond(ticks) \in Nat /\ Least \in Int /\ Most \in Int /\ Second \in Nat
      /\ Second >= RealSecond(ticks) + Least /\ s \in Nat
      /\ Allowance \in Nat
  BY SecondShown, AllowanceType
<1>4. /\ DOMAIN entries' = DOMAIN entries \cup {a}
      /\ entries'[a] = [count |-> c, start |-> s]
      /\ \A b \in DOMAIN entries \ {a} : entries'[b] = entries[b]
  BY DEF SetEntry
<1>5. /\ entries'[a].count = c /\ entries'[a].start = s
  BY <1>4
<1>6. Table'
  <2>1. IsFiniteSet(DOMAIN entries') /\ Cardinality(DOMAIN entries') <= TableSize
    <3>1. IsFiniteSet(DOMAIN entries) /\ Cardinality(DOMAIN entries) <= TableSize
      BY DEF Table
    <3>2. CASE Known(a)
      <4>1. DOMAIN entries' = DOMAIN entries
        BY <1>4, <3>2 DEF Known
      <4> QED  BY <3>1, <4>1
    <3>3. CASE ~Known(a)
      <4>1. Cardinality(DOMAIN entries) < TableSize
        BY <3>3 DEF CountedAs
      <4>2. /\ IsFiniteSet(DOMAIN entries \cup {a}) /\ Cardinality(DOMAIN entries) \in Nat
            /\ Cardinality(DOMAIN entries \cup {a}) \in Nat
            /\ Cardinality(DOMAIN entries \cup {a}) <= Cardinality(DOMAIN entries) + 1
        BY <3>1, OneMore, Zenon
      <4> QED  BY <1>4, <4>1, <4>2, CGateAssumption
    <3> QED  BY <3>2, <3>3
  <2>2. \A b \in DOMAIN entries' :
          /\ entries'[b] \in [count : Nat, start : Int]
          /\ entries'[b].count \in 1 .. Allowance
          /\ entries'[b].start >= 0 /\ entries'[b].start <= RealSecond(ticks) + Most
    BY <1>3, <1>4, <1>5 DEF Table
  <2>3. DOMAIN entries' \subseteq Addr
    BY <1>4 DEF Table
  <2>4. Allowance' = Allowance
    OBVIOUS
  <2> QED  BY <1>2, <2>1, <2>2, <2>3, <2>4 DEF Table
<1>7. /\ IsFiniteSet(admitted')
      /\ \A b, q : b # a => Since(b, q)' = Since(b, q) /\ Within(b, q)' = Within(b, q)
      /\ \A q : ~(RealSecond(ticks) >= q) => Since(a, q)' = Since(a, q)
      /\ \A q : RealSecond(ticks) >= q =>
           Cardinality(Since(a, q)') = Cardinality(Since(a, q)) + 1
      /\ \A x : x # Second => Within(a, x)' = Within(a, x)
      /\ \A x : x = Second => Cardinality(Within(a, x)') = Cardinality(Within(a, x)) + 1
  BY HitCounts
<1>8. History'
  <2>1. Hit(a).id = calls /\ Hit(a).at = ticks /\ Hit(a).key = a
    BY DEF Hit
  <2>2. \A h \in admitted' : h.id \in Nat /\ h.id < calls' /\ h.at \in 0 .. ticks'
    BY <1>1, <2>1 DEF History, Clock
  <2>3. Cardinality(DOMAIN entries') < TableSize => \A h \in admitted' : h.key \in DOMAIN entries'
    <3>1. Cardinality(DOMAIN entries) <= Cardinality(DOMAIN entries')
      BY <1>4, <1>6, FS_Subset DEF Table
    <3>2. Cardinality(DOMAIN entries) \in Nat /\ Cardinality(DOMAIN entries') \in Nat
      BY <1>6, FS_CardinalityType DEF Table
    <3>3. Cardinality(DOMAIN entries') < TableSize => Cardinality(DOMAIN entries) < TableSize
      BY <3>1, <3>2, CGateAssumption
    <3> QED  BY <1>4, <2>1, <3>3 DEF History
  <2> QED  BY <1>7, <2>2, <2>3 DEF History
<1>9. ~Known(a) => \A q : Since(a, q) = {} /\ Within(a, q) = {}
  BY DEF Known, CountedAs, History, Since, Within
<1>10. \A q : Cardinality(Since(a, q)) \in Nat /\ Cardinality(Within(a, q)) \in Nat
  BY HitsFinite
<1>11. Spent'
  <2>1. ASSUME NEW q \in Int
        PROVE  Cardinality(Since(a, q)') <= IF s >= q + Least THEN Allowance * (s - q - Least) + c ELSE 0
    <3> DEFINE n == Cardinality(Since(a, q))
    <3>1. /\ n <= IF s >= q + Least THEN Allowance * (s - q - Least) + c ELSE 0
          /\ s >= q + Least => n + 1 <= Allowance * (s - q - Least) + c
      <4>1. n \in Nat
        BY <1>10
      <4>2. CASE Known(a)
        <5>1. /\ entries[a].count \in 0 .. Allowance /\ entries[a].start \in Int
          BY <1>3, <4>2 DEF Known, Table
        <5>2. n <= IF entries[a].start >= q + Least
                   THEN Allowance * (entries[a].start - q - Least) + entries[a].count ELSE 0
          BY <4>2 DEF Known, Spent
        <5>3. \/ s > entries[a].start /\ c = 1
              \/ s = entries[a].start /\ c = entries[a].count + 1
          BY <4>2 DEF CountedAs
        <5> HIDE DEF n
        <5> QED  BY <1>3, <4>1, <5>1, <5>2, <5>3, OneMoreFits
      <4>3. CASE ~Known(a)
        <5>1. n = 0 /\ c = 1
          BY <1>9, <4>3, FS_EmptySet DEF CountedAs
        <5>2. s >= q + Least => Allowance * (s - q - Least) >= 0
          <6>1. s >= q + Least => Allowance * 0 <= Allowance * (s - q - Least)
            BY <1>3, TimesMonotone
          <6> QED  BY <1>3, <6>1
        <5>3. Allowance * (s - q - Least) \in Int
          BY <1>3, TimesMonotone
        <5> QED  BY <5>1, <5>2, <5>3
      <4> QED  BY <4>2, <4>3
    <3>2. CASE RealSecond(ticks) >= q
      <4>1. Cardinality(Since(a, q)') = n + 1
        BY <1>7, <3>2
      <4>2. s >= q + Least
        BY <1>3, <3>2
      <4> HIDE DEF n
      <4> QED  BY <3>1, <4>1, <4>2
    <3>3. CASE ~(RealSecond(ticks) >= q)
      <4>1. Since(a, q)' = Since(a, q)
        BY <1>7, <3>3
      <4> QED  BY <3>1, <4>1
    <3> QED  BY <3>2, <3>3
  <2>2. ASSUME NEW b \in DOMAIN entries', NEW q \in Int
        PROVE  Cardinality(Since(b, q)') <=
                 IF entries'[b].start >= q + Least
                 THEN Allowance * (entries'[b].start - q - Least) + entries'[b].count
                 ELSE 0
    <3>1. CASE b = a
      BY <1>5, <2>1, <3>1
    <3>2. CASE b # a
      <4>1. b \in DOMAIN entries /\ entries'[b] = entries[b] /\ Since(b, q)' = Since(b, q)
        BY <1>4, <1>7, <3>2
      <4> QED  BY <4>1 DEF Spent
    <3> QED  BY <3>1, <3>2
  <2> QED  BY <1>2, <2>2 DEF Spent
<1>12. Counted'
  <2>1. ASSUME NEW q \in Int, q = s - Most
        PROVE  Cardinality(Since(a, q)') >= c
    <3>1. RealSecond(ticks) >= q
      BY <1>3, <2>1
    <3>2. Cardinality(Since(a, q)') = Cardinality(Since(a, q)) + 1
      BY <1>7, <3>1
    <3>3. c = 1 \/ Cardinality(Since(a, q)) >= c - 1
      <4>1. CASE Known(a) /\ s = entries[a].start /\ c = entries[a].count + 1
        BY <2>1, <4>1 DEF Known, Counted, Table
      <4> QED  BY <4>1 DEF CountedAs
    <3> QED  BY <1>10, <3>2, <3>3
  <2>2. ASSUME NEW b \in DOMAIN entries', NEW q \in Int, q = entries'[b].start - Most
        PROVE  Cardinality(Since(b, q)') >= entries'[b].count
    <3>1. CASE b = a
      BY <1>5, <2>1, <2>2, <3>1
    <3>2. CASE b # a
      <4>1. b \in DOMAIN entries /\ entries'[b] = entries[b] /\ Since(b, q)' = Since(b, q)
        BY <1>4, <1>7, <3>2
      <4> QED  BY <2>2, <4>1 DEF Counted
    <3> QED  BY <3>1, <3>2
  <2>3. \A b \in DOMAIN entries' : entries'[b].start - Most \in Int
    BY <1>3, <1>6 DEF Table
  <2> QED  BY <1>2, <2>2, <2>3 DEF Counted, Since
<1>13. Calendar'
  <2> SUFFICES ASSUME steps = 0 PROVE Calendar'
    BY <1>1 DEF Calendar
  <2>1. s = Second
    <3>1. Most = MaxSteps
      BY CGateAssumption DEF Most, Clock
    <3> QED  BY <3>1, SecondShown, <1>3
  <2>2. ASSUME NEW x \in Int
        PROVE  Cardinality(Within(a, x)') <= IF x > s THEN 0 ELSE IF x = s THEN c ELSE Allowance
    <3> DEFINE n == Cardinality(Within(a, x))
    <3>1. n \in Nat
      BY <1>10
    <3>2. CASE Known(a)
      <4>1. n <= IF x > entries[a].start THEN 0
                 ELSE IF x = entries[a].start THEN entries[a].count ELSE Allowance
        BY <3>2 DEF Known, Calendar
      <4>2. entries[a].start \in Int /\ entries[a].count \in 1 .. Allowance
        BY <3>2 DEF Known, Table
      <4>3. CASE x = s
        <5>1. Cardinality(Within(a, x)') = n + 1
          BY <1>7, <2>1, <4>3
        <5>2. n + 1 <= c
          <6>1. \/ s > entries[a].start /\ c = 1
                \/ s = entries[a].start /\ c = entries[a].count + 1
            BY <3>2 DEF CountedAs
          <6> HIDE DEF n
          <6> QED  BY <3>1, <4>1, <4>2, <4>3, <6>1
        <5> HIDE DEF n
        <5> QED  BY <4>3, <5>1, <5>2
      <4>4. CASE x # s
        <5>1. Cardinality(Within(a, x)') = n
          BY <1>7, <2>1, <4>4
        <5>2. n <= IF x > s THEN 0 ELSE Allowance
          <6>1. s >= entries[a].start
            BY <3>2, <4>2 DEF CountedAs
          <6> HIDE DEF n
          <6> QED  BY <1>3, <3>1, <4>1, <4>2, <6>1
        <5> QED  BY <4>4, <5>1, <5>2
      <4> QED  BY <4>3, <4>4
    <3>3. CASE ~Known(a)
      <4>1. n = 0 /\ c = 1
        BY <1>9, <3>3, FS_EmptySet DEF CountedAs
      <4>2. Cardinality(Within(a, x)') = IF x = s THEN n + 1 ELSE n
        BY <1>7, <2>1
      <4> HIDE DEF n
      <4> QED  BY <1>3, <4>1, <4>2
    <3> QED  BY <3>2, <3>3
  <2>3. ASSUME NEW b \in DOMAIN entries'
        PROVE  /\ entries'[b].start <= Second
               /\ \A x \in Int :
                    Cardinality(Within(b, x)') <= IF x > entries'[b].start THEN 0
                                                  ELSE IF x = entries'[b].start THEN entries'[b].count
                                                  ELSE Allowance
    <3>1. CASE b = a
      BY <1>3, <1>5, <2>1, <2>2, <3>1
    <3>2. CASE b # a
      <4>1. b \in DOMAIN entries /\ entries'[b] = entries[b]
        BY <1>4, <3>2
      <4>2. \A x : Within(b, x)' = Within(b, x)
        BY <1>7, <3>2
      <4> QED  BY <4>1, <4>2 DEF Calendar
    <3> QED  BY <3>1, <3>2
  <2> QED  BY <1>2, <2>3 DEF Calendar
<1> QED  BY <1>2, <1>6, <1>8, <1>11, <1>12, <1>13

LEMMA AdmitGateInv == ASSUME GateInv, NEW a \in Addr, Admit(a) PROVE GateInv'
<1> USE DEF GateInv
<1>1. /\ admitted' = admitted \cup {Hit(a)} /\ calls' = calls + 1 /\ UNCHANGED clock
  BY DEF Admit, Hit
<1>2. /\ Second \in Nat /\ Second <= RealSecond(ticks) + Most
      /\ Allowance \in Nat \ {0} /\ 1 \in 1 .. Allowance
  BY SecondShown, AllowanceType
<1>3. CASE NewWindow(a)
  <2>1. Second > entries[a].start /\ Known(a)
    BY <1>2, <1>3 DEF NewWindow, WindowOver, Known, Table
  <2>2. SetEntry(a, [count |-> 1, start |-> Second])
    BY <1>3 DEF NewWindow
  <2>3. CountedAs(a, 1, Second)
    BY <2>1 DEF CountedAs
  <2> QED  BY <1>1, <1>2, <2>2, <2>3, CountGateInv
<1>4. CASE CountUp(a)
  <2> DEFINE c == entries[a].count + 1
             s == entries[a].start
  <2>1. /\ Known(a) /\ s >= Second /\ s \in Int /\ s <= RealSecond(ticks) + Most
        /\ entries[a] \in [count : Nat, start : Int]
    BY <1>2, <1>4 DEF CountUp, WindowOver, Known, Table
  <2>2. c \in 1 .. Allowance
    BY <1>2, <1>4, <2>1, AllowanceType DEF CountUp, UnderLimit
  <2>3. [entries[a] EXCEPT !.count = @ + 1] = [count |-> c, start |-> s]
    BY <2>1
  <2>4. SetEntry(a, [count |-> c, start |-> s])
    BY <1>4, <2>3 DEF CountUp
  <2>5. CountedAs(a, c, s)
    BY <2>1 DEF CountedAs
  <2> HIDE DEF c, s
  <2> QED  BY <1>1, <2>1, <2>2, <2>4, <2>5, CountGateInv
<1>5. CASE NewClient(a)
  <2>1. CountedAs(a, 1, Second) /\ SetEntry(a, [count |-> 1, start |-> Second])
    BY <1>5 DEF CountedAs, NewClient
  <2> QED  BY <1>1, <1>2, <2>1, CountGateInv
<1>6. CASE NoEntryLeft(a)
  <2>1. entries' = entries /\ a \notin DOMAIN entries /\ Cardinality(DOMAIN entries) >= TableSize
    BY <1>6 DEF NoEntryLeft, Known
  <2>2. /\ UNCHANGED <<ticks, skew, steps, back>> /\ Least' = Least /\ Most' = Most
        /\ Second' = Second
    BY <1>1 DEF clock, Least, Most, Second
  <2>3. Clock' /\ Table'
    BY <2>1, <2>2 DEF Clock, Table
  <2>4. /\ IsFiniteSet(admitted')
        /\ \A b, q : b # a => Since(b, q)' = Since(b, q) /\ Within(b, q)' = Within(b, q)
    BY <1>1, HitCounts
  <2>5. History'
    <3>1. Hit(a).id = calls /\ Hit(a).at = ticks
      BY DEF Hit
    <3>2. \A h \in admitted' : h.id \in Nat /\ h.id < calls' /\ h.at \in 0 .. ticks'
      BY <1>1, <2>2, <3>1 DEF History, Clock
    <3>3. ~(Cardinality(DOMAIN entries') < TableSize)
      BY <2>1, FS_CardinalityType, CGateAssumption DEF Table
    <3> QED  BY <1>1, <2>4, <3>2, <3>3 DEF History
  <2>6. \A b \in DOMAIN entries : b # a
    BY <2>1
  <2>7. Spent'
    BY <2>1, <2>2, <2>4, <2>6 DEF Spent
  <2>8. Counted'
    <3>1. ASSUME NEW b \in DOMAIN entries, NEW q \in Int, q = entries[b].start - Most
          PROVE  Cardinality(Since(b, q)') >= entries[b].count
      BY <2>4, <2>6, <3>1 DEF Counted
    <3>2. \A b \in DOMAIN entries : entries[b].start - Most \in Int
      BY SecondShown DEF Table
    <3> QED  BY <2>1, <2>2, <3>1, <3>2 DEF Counted, Since
  <2>9. Calendar'
    BY <2>1, <2>2, <2>4, <2>6 DEF Calendar
  <2> QED  BY <2>3, <2>5, <2>7, <2>8, <2>9
<1> QED  BY <1>3, <1>4, <1>5, <1>6 DEF Admit

\* What the limiter is not asked, and what it refuses.
LEMMA RefuseGateInv ==
  ASSUME GateInv, calls' \in {calls, calls + 1}, UNCHANGED <<clock, entries, admitted>>
  PROVE  GateInv'
<1> USE DEF GateInv
<1>1. UNCHANGED <<ticks, skew, steps, back, entries, admitted>>
  BY DEF clock
<1>2. Clock' /\ Table'
  BY <1>1 DEF Clock, Table, Most
<1>3. History'
  <2>1. ASSUME NEW h \in admitted PROVE h.id \in Nat /\ h.id < calls'
    BY DEF History
  <2> QED  BY <1>1, <2>1 DEF History
<1>4. Spent' /\ Counted' /\ Calendar'
  BY <1>1 DEF Spent, Counted, Calendar, Since, Within, Least, Most, Second
<1> QED  BY <1>2, <1>3, <1>4

-----------------------------------------------------------------------------
\* A second of the clock has one window, and a span of one second two, and
\* one more for every time the clock was set.
LEMMA WindowsBounded == GateInv => FixedWindowBound
<1> SUFFICES ASSUME GateInv PROVE FixedWindowBound
  OBVIOUS
<1> USE DEF GateInv
<1>1. ASSUME steps = 0 PROVE CalendarBound
  <2> SUFFICES ASSUME NEW a \in DOMAIN entries, NEW s \in 0 .. Second
               PROVE  Cardinality(Within(a, s)) <= Allowance
    BY DEF CalendarBound, Within
  <2>1. /\ entries[a].start \in Int /\ entries[a].count \in 1 .. Allowance
        /\ Cardinality(Within(a, s)) \in Nat /\ Allowance \in Nat /\ s \in Int
    BY HitsFinite, AllowanceType, SecondShown DEF Table
  <2>2. Cardinality(Within(a, s)) <= IF s > entries[a].start THEN 0
                                     ELSE IF s = entries[a].start THEN entries[a].count
                                     ELSE Allowance
    BY <1>1, <2>1 DEF Calendar
  <2> QED  BY <2>1, <2>2
<1>2. SpanBound
  <2> SUFFICES ASSUME NEW a \in DOMAIN entries
               PROVE  Cardinality(KeyHitsSince(a, ticks - TicksPerSecond)) <= (2 + steps) * Allowance
    BY DEF SpanBound
  <2> DEFINE q == RealSecond(ticks) - 1
             start == entries[a].start
             count == entries[a].count
  <2>1. /\ q \in Int /\ start \in Int /\ count \in 1 .. Allowance /\ Allowance \in Nat
        /\ start <= RealSecond(ticks) + Most
        /\ RealSecond(ticks) \in Nat /\ Least \in Int /\ Most \in Int
        /\ steps \in Nat /\ ticks \in Nat
    BY SecondShown, AllowanceType DEF Table, Clock
  <2>2. KeyHitsSince(a, ticks - TicksPerSecond) \subseteq Since(a, q)
    <3>1. ASSUME NEW h \in admitted, h.at > ticks - TicksPerSecond
          PROVE  RealSecond(h.at) >= q
      <4>1. h.at \in Nat
        BY DEF History, Clock
      <4>2. h.at > ticks - 1 * TicksPerSecond
        BY <3>1, CGateAssumption
      <4> QED  BY <2>1, <4>1, <4>2, SecondsApart
    <3> QED  BY <3>1 DEF KeyHitsSince, Since
  <2>3. Cardinality(KeyHitsSince(a, ticks - TicksPerSecond)) <= Cardinality(Since(a, q))
    BY <2>2, HitsFinite, FS_Subset
  <2>4. Cardinality(Since(a, q)) <=
          IF start >= q + Least THEN Allowance * (start - q - Least) + count ELSE 0
    BY <2>1 DEF Spent
  <2>5. /\ Cardinality(KeyHitsSince(a, ticks - TicksPerSecond)) \in Nat
        /\ Cardinality(Since(a, q)) \in Nat
    BY <2>2, HitsFinite, FS_Subset, FS_CardinalityType
  <2>6. Allowance * (start - q - Least) + count <= (2 + steps) * Allowance
    <3>1. start - q - Least <= steps + 1
      BY <2>1, CGateAssumption DEF Most, Least, Clock
    <3> HIDE DEF q, start, count
    <3>2. Allowance * (start - q - Least) <= Allowance * (steps + 1)
      BY <2>1, <3>1, TimesMonotone
    <3>3. Allowance * (steps + 1 + 1) = Allowance * (steps + 1) + Allowance
      BY <2>1, TimesMonotone
    <3>4. Allowance * (steps + 1 + 1) = (2 + steps) * Allowance
      BY <2>1
    <3>5. Allowance * (start - q - Least) \in Int /\ Allowance * (steps + 1) \in Int
      BY <2>1, TimesMonotone
    <3> QED  BY <2>1, <3>2, <3>3, <3>4, <3>5
  <2>7. 0 <= (2 + steps) * Allowance /\ (2 + steps) * Allowance \in Int
    BY <2>1
  <2>8. Allowance * (start - q - Least) \in Int
    BY <2>1, TimesMonotone
  <2> HIDE DEF q, start, count
  <2> QED  BY <2>1, <2>3, <2>4, <2>5, <2>6, <2>7, <2>8
<1> QED  BY <1>1, <1>2 DEF FixedWindowBound

\* What was counted in the open window was let through after it began.
LEMMA RefusalEarned ==
  ASSUME GateInv, NEW a \in Addr, Refuse(a)
  PROVE  Cardinality(KeyHitsSince(a, ticks - (1 + back) * TicksPerSecond)) >= MaxRequests
<1> USE DEF GateInv
<1> DEFINE q == entries[a].start - Most
<1>1. /\ a \in DOMAIN entries /\ entries[a].start \in Int /\ entries[a].count \in Nat
      /\ entries[a].start >= Second /\ entries[a].count >= MaxRequests
      /\ MaxRequests \in Nat
  BY SecondShown, CGateAssumption DEF Refuse, Known, WindowOver, UnderLimit, Table
<1>2. /\ Most \in Int /\ RealSecond(ticks) \in Nat /\ ticks \in Nat /\ back \in Nat
      /\ Second = RealSecond(ticks) + Most - back
  BY SecondShown, CGateAssumption DEF Clock, Second, RealSecond, Most
<1>3. Since(a, q) \subseteq KeyHitsSince(a, ticks - (1 + back) * TicksPerSecond)
  <2>1. ASSUME NEW h \in admitted, RealSecond(h.at) >= q
        PROVE  h.at > ticks - (1 + back) * TicksPerSecond
    <3>1. h.at \in Nat /\ RealSecond(h.at) \in Nat
      BY SecondsGrow DEF History, Clock
    <3>2. RealSecond(ticks) - back <= RealSecond(h.at)
      BY <1>1, <1>2, <2>1, <3>1
    <3>3. h.at > ticks - (back + 1) * TicksPerSecond
      BY <1>2, <3>1, <3>2, SecondsApart
    <3>4. 1 + back = back + 1
      BY <1>2
    <3> QED  BY <3>3, <3>4
  <2> QED  BY <2>1 DEF Since, KeyHitsSince
<1>4. IsFiniteSet(KeyHitsSince(a, ticks - (1 + back) * TicksPerSecond))
  <2>1. KeyHitsSince(a, ticks - (1 + back) * TicksPerSecond) \subseteq admitted
    BY DEF KeyHitsSince
  <2> QED  BY <2>1, FS_Subset DEF History
<1>5. /\ Cardinality(Since(a, q)) <= Cardinality(KeyHitsSince(a, ticks - (1 + back) * TicksPerSecond))
      /\ Cardinality(KeyHitsSince(a, ticks - (1 + back) * TicksPerSecond)) \in Nat
  BY <1>3, <1>4, FS_Subset, FS_CardinalityType
<1>6. Cardinality(Since(a, q)) >= entries[a].count /\ Cardinality(Since(a, q)) \in Nat
  BY <1>1, HitsFinite DEF Counted
<1> HIDE DEF q
<1> QED  BY <1>1, <1>5, <1>6

-----------------------------------------------------------------------------
\* The handler around the limiter.

Request == [body : Bodies, keyed : BOOLEAN, sent : Nat, got : Seq(Piece)]

Shape ==
  /\ up \in {"starting", "serving", "stopped"}
  /\ mode \in Mode /\ session \in Nat /\ typer \in BOOLEAN
  /\ peer \in [Addr -> Ip \cup {Nobody}]
  /\ request \in [Addr -> Request \cup {None}]
  /\ live \in Nat /\ dropped \in Nat /\ begun \in 0 .. MaxBodies

\* The buffer holds the beginning of the body, as much as there is room for.
Begins(r) ==
  /\ r.sent <= Len(r.body)
  /\ Len(r.got) = Smaller(r.sent, MaxPost - 1)
  /\ \A i \in 1 .. Len(r.got) : r.got[i] = r.body[i]

Buffered == \A a \in Addr : Reading(a) => Begins(request[a])

Busy == {a \in Addr : Reading(a)}

Accounts == IsFiniteSet(Busy) /\ BodiesAccounted

ApiInv == Shape /\ Buffered /\ Accounts

IInv == GateInv /\ ApiInv

-----------------------------------------------------------------------------
LEMMA InitIInv == Init => IInv
<1> SUFFICES ASSUME Init PROVE IInv
  OBVIOUS
<1>1. GateInv
  BY InitGateInv DEF Init
<1>2. Shape
  BY CApiAssumption DEF Init, GateInit, Shape
<1>3. Busy = {}
  BY DEF Init, Busy, Reading
<1>4. Buffered
  BY DEF Init, Buffered, Reading
<1>5. Accounts
  BY <1>3, FS_EmptySet DEF Accounts, BodiesAccounted, Busy, Init
<1> QED  BY <1>1, <1>2, <1>4, <1>5 DEF IInv, ApiInv

\* What any step does to the limiter is one of its own steps, or nothing.
LEMMA NextGateInv == ASSUME GateInv, [Next]_vars PROVE GateInv'
<1>1. CASE UNCHANGED <<clock, entries, calls, admitted>>
  BY <1>1, RefuseGateInv
<1>2. CASE Time
  BY <1>2, TickGateInv, StepClockGateInv DEF Time
<1>3. CASE Serve \/ Stop \/ UNCHANGED vars
  BY <1>1, <1>3 DEF Serve, Stop, vars, gate, clock
<1>4. ASSUME NEW a \in Addr, Admit(a) \/ Refuse(a) PROVE GateInv'
  <2>1. Refuse(a) => calls' = calls + 1 /\ UNCHANGED <<clock, entries, admitted>>
    BY DEF Refuse
  <2> QED  BY <1>4, <2>1, AdmitGateInv, RefuseGateInv
<1>5. ASSUME NEW a \in Addr,
             \/ Connect(a) \/ Hangup(a) \/ FirstCall(a) \/ FirstCallFails(a)
             \/ \E n \in 1 .. 2 : Upload(a, n)
      PROVE  UNCHANGED <<clock, entries, calls, admitted>>
  BY <1>5 DEF Connect, Open, Hangup, Close, FirstCall, FirstCallFails, Upload, gate, clock
<1>6. ASSUME NEW a \in Addr,
             \/ TooManyRequests(a) \/ Unauthorized(a)
             \/ HandleMode(a) \/ HandleType(a) \/ HandleOther(a) \/ Get(a)
      PROVE  Admit(a) \/ Refuse(a)
  BY <1>6 DEF TooManyRequests, Unauthorized, HandleMode, HandleType, HandleOther, Dispatch, Get
<1> QED  BY <1>1, <1>2, <1>3, <1>4, <1>5, <1>6 DEF Next

-----------------------------------------------------------------------------
\* Bodies.

\* A record is not None.
LEMMA RequestIsOne == \A r \in Request : r # None
BY CApiAssumption DEF Request

\* One more body is being read.
LEMMA FirstCallApiInv ==
  ASSUME ApiInv, GateInv, NEW a \in Addr, FirstCall(a) PROVE ApiInv'
<1> USE DEF ApiInv
<1>1. /\ ~Reading(a) /\ begun < MaxBodies /\ live' = live + 1 /\ begun' = begun + 1
      /\ UNCHANGED <<up, mode, session, typer, dropped, peer>>
  BY DEF FirstCall, state, gate
<1>2. PICK body \in Bodies, keyed \in BOOLEAN :
        request' = [request EXCEPT ![a] = [body |-> body, keyed |-> keyed, sent |-> 0, got |-> <<>>]]
  BY DEF FirstCall
<1> DEFINE r == [body |-> body, keyed |-> keyed, sent |-> 0, got |-> <<>>]
<1>3. r \in Request /\ Begins(r)
  <2>1. Len(body) \in Nat
    BY CApiAssumption, LenProperties
  <2>2. <<>> \in Seq(Piece) /\ Len(<<>>) = 0
    BY EmptySeq
  <2>3. Smaller(0, MaxPost - 1) = 0
    BY CApiAssumption DEF Smaller
  <2> QED  BY <2>1, <2>2, <2>3 DEF Request, Begins
<1> HIDE DEF r
<1>4. request'[a] = r /\ \A b \in Addr \ {a} : request'[b] = request[b]
  BY <1>2 DEF Shape, r
<1>5. Shape'
  <2>1. request' \in [Addr -> Request \cup {None}]
    BY <1>2, <1>3 DEF Shape, r
  <2>2. begun' \in 0 .. MaxBodies /\ live' \in Nat
    BY <1>1, CApiAssumption DEF Shape
  <2> QED  BY <1>1, <2>1, <2>2 DEF Shape
<1>6. Buffered'
  BY <1>3, <1>4 DEF Buffered, Reading
<1>7. Busy' = Busy \cup {a} /\ a \notin Busy
  BY <1>1, <1>3, <1>4, RequestIsOne DEF Busy, Reading
<1>8. Accounts'
  <2>1. /\ IsFiniteSet(Busy \cup {a}) /\ Cardinality(Busy) \in Nat
        /\ Cardinality(Busy \cup {a}) = Cardinality(Busy) + 1
    BY <1>7, OneMore, Zenon DEF Accounts
  <2>2. live = Cardinality(Busy) + dropped
    BY DEF Accounts, BodiesAccounted, Busy
  <2>3. IsFiniteSet(Busy') /\ live' = Cardinality(Busy') + dropped'
    BY <1>1, <1>7, <2>1, <2>2 DEF Shape
  <2> QED  BY <2>3 DEF Accounts, BodiesAccounted, Busy
<1> QED  BY <1>5, <1>6, <1>8

\* One body less is being read.
LEMMA OneLess ==
  ASSUME Accounts, Shape, NEW a \in Addr, Reading(a), request' = [request EXCEPT ![a] = None]
  PROVE  /\ IsFiniteSet(Busy') /\ Cardinality(Busy) \in Nat /\ Cardinality(Busy') \in Nat
         /\ Cardinality(Busy') = Cardinality(Busy) - 1
         /\ live = Cardinality(Busy) + dropped
         /\ request' \in [Addr -> Request \cup {None}]
<1>1. Busy' = Busy \ {a} /\ a \in Busy
  BY DEF Busy, Reading, Shape
<1>2. /\ IsFiniteSet(Busy \ {a})
      /\ Cardinality(Busy \ {a}) = Cardinality(Busy) - 1
  BY <1>1, FS_RemoveElement DEF Accounts
<1>3. live = Cardinality(Busy) + dropped
  BY DEF Accounts, BodiesAccounted, Busy
<1>4. request' \in [Addr -> Request \cup {None}]
  BY DEF Shape
<1>5. Cardinality(Busy) \in Nat /\ Cardinality(Busy \ {a}) \in Nat
  BY <1>2, FS_CardinalityType DEF Accounts
<1> QED  BY <1>1, <1>2, <1>3, <1>4, <1>5

LEMMA ForgetApiInv ==
  ASSUME ApiInv, NEW a \in Addr, Reading(a), Forget(a),
         UNCHANGED <<up, state>>, peer' \in [Addr -> Ip \cup {Nobody}]
  PROVE  ApiInv'
<1> USE DEF ApiInv
<1>1. /\ request' = [request EXCEPT ![a] = None] /\ dropped' = dropped + 1
      /\ UNCHANGED <<up, mode, session, typer, live, begun>>
  BY DEF Forget, state
<1>2. /\ IsFiniteSet(Busy') /\ Cardinality(Busy) \in Nat /\ Cardinality(Busy') \in Nat
      /\ Cardinality(Busy') = Cardinality(Busy) - 1
      /\ live = Cardinality(Busy) + dropped
      /\ request' \in [Addr -> Request \cup {None}]
  BY <1>1, OneLess
<1>3. dropped \in Nat
  BY DEF Shape
<1>4. Shape'
  BY <1>1, <1>2 DEF Shape
<1>5. Buffered'
  BY <1>1 DEF Buffered, Reading, Shape
<1>6. IsFiniteSet(Busy') /\ live' = Cardinality(Busy') + dropped'
  BY <1>1, <1>2, <1>3
<1> QED  BY <1>4, <1>5, <1>6 DEF Accounts, BodiesAccounted, Busy

LEMMA FreeApiInv ==
  ASSUME ApiInv, NEW a \in Addr, Reading(a), Free(a),
         up' = up, mode' \in Mode, session' \in Nat, typer' = typer,
         peer' = peer
  PROVE  ApiInv'
<1> USE DEF ApiInv
<1>1. /\ request' = [request EXCEPT ![a] = None] /\ live' = live - 1
      /\ UNCHANGED <<begun, dropped>>
  BY DEF Free
<1>2. /\ IsFiniteSet(Busy') /\ Cardinality(Busy) \in Nat /\ Cardinality(Busy') \in Nat
      /\ Cardinality(Busy') = Cardinality(Busy) - 1
      /\ live = Cardinality(Busy) + dropped
      /\ request' \in [Addr -> Request \cup {None}]
  BY <1>1, OneLess
<1>3. dropped \in Nat
  BY DEF Shape
<1>4. live' = Cardinality(Busy') + dropped' /\ live' \in Nat
  BY <1>1, <1>2, <1>3
<1>5. Shape'
  BY <1>1, <1>2, <1>4 DEF Shape
<1>6. Buffered'
  BY <1>1 DEF Buffered, Reading, Shape
<1> QED  BY <1>2, <1>4, <1>5, <1>6 DEF Accounts, BodiesAccounted, Busy

\* More of the body arrives, and goes into the buffer as far as it fits.
LEMMA UploadApiInv ==
  ASSUME ApiInv, NEW a \in Addr, NEW n \in Nat, Upload(a, n) PROVE ApiInv'
<1> USE DEF ApiInv
<1> DEFINE r == request[a]
           to_copy == Smaller(n, Remaining(r))
           more == SubSeq(r.body, r.sent + 1, r.sent + to_copy)
           new == [r EXCEPT !.sent = r.sent + n, !.got = r.got \o more]
<1>1. /\ Reading(a) /\ n > 0 /\ r.sent + n <= Len(r.body)
      /\ request' = [request EXCEPT ![a].sent = r.sent + n, ![a].got = r.got \o more]
      /\ UNCHANGED <<up, mode, session, typer, peer, live, begun, dropped>>
  BY DEF Upload, gate, state
<1>2. /\ r \in Request /\ Begins(r)
      /\ r.body \in Seq(Piece) /\ r.got \in Seq(Piece) /\ r.sent \in Nat
  <2>1. r \in Request
    BY <1>1 DEF Shape, Reading
  <2> QED  BY <1>1, <2>1, CApiAssumption DEF Buffered, Request
<1>3. request' = [request EXCEPT ![a] = new]
  BY <1>1, <1>2 DEF Shape, Request
<1>4. /\ new.sent = r.sent + n /\ new.got = r.got \o more /\ new.body = r.body
      /\ new.keyed = r.keyed
  BY <1>2 DEF Request
<1>5. /\ to_copy \in 0 .. n
      /\ to_copy > 0 => Len(r.got) = r.sent
      /\ Len(r.got) + to_copy = Smaller(r.sent + n, MaxPost - 1)
  <2>1. Len(r.got) \in Nat /\ Len(r.got) = Smaller(r.sent, MaxPost - 1)
    BY <1>2, LenProperties DEF Begins
  <2> HIDE DEF r
  <2> QED  BY <1>2, <2>1, CApiAssumption DEF Smaller, Remaining
<1>6. /\ more \in Seq(Piece) /\ Len(more) = to_copy
      /\ \A i \in 1 .. to_copy : more[i] = r.body[r.sent + i]
  <2>1. Len(r.body) \in Nat /\ r.sent + to_copy <= Len(r.body)
    BY <1>1, <1>2, <1>5, LenProperties
  <2>2. \A i \in r.sent + 1 .. r.sent + to_copy : r.body[i] \in Piece
    BY <1>2, <1>5, <2>1, ElementOfSeq
  <2> DEFINE from == r.sent + 1
             to == r.sent + to_copy
  <2> HIDE DEF r, to_copy
  <2>3. from \in Int /\ to \in Int /\ (IF from <= to THEN to - from + 1 ELSE 0) = to_copy
    BY <1>2, <1>5
  <2>4. \A i \in from .. to : r.body[i] \in Piece
    BY <2>2
  <2> HIDE DEF from, to
  <2>5. /\ SubSeq(r.body, from, to) \in Seq(Piece)
        /\ Len(SubSeq(r.body, from, to)) = IF from <= to THEN to - from + 1 ELSE 0
        /\ \A i \in 1 .. to - from + 1 : SubSeq(r.body, from, to)[i] = r.body[from + i - 1]
    BY <2>3, <2>4, SubSeqProperties
  <2>6. to - from + 1 = to_copy /\ \A i \in Int : from + i - 1 = r.sent + i
    BY <1>2, <1>5 DEF from, to
  <2>7. more = SubSeq(r.body, from, to)
    BY DEF from, to, to_copy, r
  <2> HIDE DEF more
  <2>8. Len(more) = to_copy
    BY <2>3, <2>5, <2>7
  <2>9. ASSUME NEW i \in 1 .. to_copy PROVE more[i] = r.body[r.sent + i]
    <3>1. i \in 1 .. to - from + 1 /\ from + i - 1 = r.sent + i
      BY <2>6
    <3>2. more[i] = r.body[from + i - 1]
      BY <2>5, <2>7, <3>1
    <3> QED  BY <3>1, <3>2
  <2> QED  BY <2>5, <2>7, <2>8, <2>9
<1> HIDE DEF more, to_copy
<1>7. /\ r.got \o more \in Seq(Piece) /\ Len(r.got \o more) = Len(r.got) + to_copy
      /\ \A i \in 1 .. Len(r.got) : (r.got \o more)[i] = r.got[i]
      /\ \A i \in 1 .. Len(r.got) + to_copy : i > Len(r.got) => (r.got \o more)[i] = more[i - Len(r.got)]
  <2> HIDE DEF r
  <2>1. Len(r.got) \in Nat /\ Len(more) = to_copy /\ to_copy \in Nat
    BY <1>2, <1>5, <1>6, LenProperties
  <2>2. /\ r.got \o more \in Seq(Piece)
        /\ Len(r.got \o more) = Len(r.got) + Len(more)
        /\ \A i \in 1 .. Len(r.got) + Len(more) :
             (r.got \o more)[i] = IF i <= Len(r.got) THEN r.got[i] ELSE more[i - Len(r.got)]
    BY <1>2, <1>6, ConcatProperties
  <2> QED  BY <2>1, <2>2
<1>8. new \in Request
  <2>1. r.sent + n \in Nat
    BY <1>2
  <2> HIDE DEF r
  <2> QED  BY <1>2, <1>7, <2>1 DEF Request
<1>9. Begins(new)
  <2>1. Len(new.got) = Smaller(new.sent, MaxPost - 1) /\ new.sent <= Len(new.body)
    BY <1>1, <1>4, <1>5, <1>7
  <2>2. ASSUME NEW i \in 1 .. Len(r.got) + to_copy PROVE (r.got \o more)[i] = r.body[i]
    <3>1. CASE i \in 1 .. Len(r.got)
      BY <1>2, <1>7, <3>1 DEF Begins
    <3>2. CASE i > Len(r.got)
      <4>1. Len(r.got) \in Nat /\ i \in Nat /\ to_copy \in Nat
        BY <1>2, <1>5, LenProperties
      <4>2. Len(r.got) = r.sent
        BY <1>5, <3>2, <4>1
      <4>3. PICK j \in 1 .. to_copy : i = r.sent + j /\ i - Len(r.got) = j
        <5>1. i - r.sent \in 1 .. to_copy /\ i = r.sent + (i - r.sent)
          BY <1>2, <3>2, <4>1, <4>2
        <5> QED  BY <4>2, <5>1
      <4>4. more[j] = r.body[i]
        BY <1>6, <4>3
      <4>5. (r.got \o more)[i] = more[j]
        BY <1>7, <3>2, <4>3
      <4> QED  BY <4>4, <4>5
    <3>3. i \in 1 .. Len(r.got) \/ i > Len(r.got)
      <4>1. Len(r.got) \in Nat /\ to_copy \in Nat
        BY <1>2, <1>5, LenProperties
      <4> QED  BY <4>1
    <3> QED  BY <3>1, <3>2, <3>3, Zenon
  <2> QED  BY <1>4, <1>7, <2>1, <2>2 DEF Begins
<1> HIDE DEF new, r
<1>10. request'[a] = new /\ \A b \in Addr \ {a} : request'[b] = request[b]
  BY <1>3 DEF Shape
<1>11. Shape'
  <2>1. request' \in [Addr -> Request \cup {None}]
    BY <1>3, <1>8 DEF Shape
  <2> QED  BY <1>1, <2>1 DEF Shape
<1>12. Buffered'
  BY <1>9, <1>10 DEF Buffered, Reading
<1>13. Busy' = Busy
  BY <1>1, <1>8, <1>10, RequestIsOne DEF Busy, Reading
<1> QED  BY <1>1, <1>11, <1>12, <1>13 DEF Accounts, BodiesAccounted, Busy

-----------------------------------------------------------------------------
\* Whatever a last call does, it ends its request.
LEMMA LastCallApiInv ==
  ASSUME ApiInv, GateInv, NEW a \in Addr,
         \/ TooManyRequests(a) \/ Unauthorized(a)
         \/ HandleMode(a) \/ HandleType(a) \/ HandleOther(a)
  PROVE  ApiInv'
<1>1. Reading(a) /\ peer' = peer /\ up' = up
  BY DEF TooManyRequests, Unauthorized, HandleMode, HandleType, HandleOther, Dispatch,
     LastCall, Admit, Refuse
<1>2. peer' \in [Addr -> Ip \cup {Nobody}]
  BY <1>1 DEF ApiInv, Shape
<1>3. CASE TooManyRequests(a) \/ Unauthorized(a)
  BY <1>1, <1>2, <1>3, ForgetApiInv DEF TooManyRequests, Unauthorized
<1>4. CASE HandleMode(a) \/ HandleType(a) \/ HandleOther(a)
  <2>1. Free(a)
    BY <1>4 DEF HandleMode, HandleType, HandleOther, Dispatch
  <2>2. Second \in Nat
    BY SecondShown DEF GateInv
  <2>3. mode' \in Mode /\ session' \in Nat /\ typer' = typer
    BY <1>4, <2>2 DEF HandleMode, HandleType, HandleOther, state, ApiInv, Shape
  <2> QED  BY <1>1, <2>1, <2>3, FreeApiInv
<1> QED  BY <1>3, <1>4

\* A step that leaves the bodies alone.
LEMMA QuietApiInv ==
  ASSUME ApiInv, UNCHANGED <<state, heap>>, up' \in {"starting", "serving", "stopped"},
         peer' \in [Addr -> Ip \cup {Nobody}]
  PROVE  ApiInv'
<1>1. UNCHANGED <<mode, session, typer, request, live, begun, dropped>>
  BY DEF state, heap
<1>2. Shape'
  BY <1>1 DEF ApiInv, Shape
<1>3. Buffered' /\ Accounts'
  BY <1>1 DEF ApiInv, Buffered, Accounts, BodiesAccounted, Busy, Reading
<1> QED  BY <1>2, <1>3 DEF ApiInv

LEMMA StopApiInv == ASSUME ApiInv, Stop PROVE ApiInv'
<1> USE DEF ApiInv
<1>1. /\ up' = "stopped" /\ peer' = [b \in Addr |-> Nobody]
      /\ request' = [b \in Addr |-> None]
      /\ dropped' = dropped + Cardinality(Busy)
      /\ UNCHANGED <<mode, session, typer, live, begun>>
  BY DEF Stop, state, Busy
<1>2. Cardinality(Busy) \in Nat /\ live = Cardinality(Busy) + dropped
  BY FS_CardinalityType DEF Accounts, BodiesAccounted, Busy
<1>3. Shape'
  BY <1>1, <1>2 DEF Shape
<1>4. Busy' = {}
  BY <1>1 DEF Busy, Reading
<1>5. Buffered'
  BY <1>1 DEF Buffered, Reading
<1>6. IsFiniteSet(Busy') /\ Cardinality(Busy') = 0
  BY <1>4, FS_EmptySet
<1>7. live' = Cardinality(Busy') + dropped'
  BY <1>1, <1>2, <1>6 DEF Shape
<1> QED  BY <1>3, <1>5, <1>6, <1>7 DEF Accounts, BodiesAccounted, Busy

LEMMA ConnectionApiInv ==
  ASSUME ApiInv, NEW a \in Addr, Connect(a) \/ Hangup(a) \/ FirstCallFails(a) \/ Get(a)
  PROVE  ApiInv'
<1>1. up' = up /\ peer' \in [Addr -> Ip \cup {Nobody}] /\ UNCHANGED state
  BY DEF Connect, Open, Hangup, Close, FirstCallFails, Get, Admit, Refuse, ApiInv, Shape
<1>2. CASE UNCHANGED heap
  BY <1>1, <1>2, QuietApiInv DEF ApiInv, Shape
<1>3. CASE Reading(a) /\ Forget(a)
  BY <1>1, <1>3, ForgetApiInv
<1> QED  BY <1>2, <1>3 DEF Connect, Hangup, FirstCallFails, Get

LEMMA NextApiInv == ASSUME IInv, [Next]_vars PROVE ApiInv'
<1> USE DEF IInv
<1>1. CASE Serve \/ Time \/ UNCHANGED vars
  <2>1. /\ UNCHANGED <<state, heap, peer>>
        /\ up' \in {"starting", "serving", "stopped"}
    BY <1>1 DEF Serve, Time, Tick, StepClock, vars, gate, ApiInv, Shape
  <2> QED  BY <2>1, QuietApiInv DEF ApiInv, Shape
<1>2. ASSUME NEW a \in Addr, NEW n \in 1 .. 2, Upload(a, n) PROVE ApiInv'
  BY <1>2, UploadApiInv
<1> QED
  BY <1>1, <1>2, StopApiInv, ConnectionApiInv, FirstCallApiInv, LastCallApiInv DEF Next

LEMMA Invariance == Spec => []IInv
<1>1. IInv /\ [Next]_vars => IInv'
  BY NextGateInv, NextApiInv DEF IInv
<1> QED  BY <1>1, InitIInv, PTL DEF Spec

-----------------------------------------------------------------------------
\* Every variable has its type; no buffer is ever filled beyond its end.
THEOREM TypeCorrect == Spec => []TypeOK
<1>1. IInv => TypeOK
  <2> SUFFICES ASSUME IInv PROVE TypeOK
    OBVIOUS
  <2> USE DEF IInv, ApiInv, GateInv
  <2>1. GateTypeOK
    <3>1. skew \in 0 .. 2 * MaxSteps
      BY CGateAssumption DEF Clock
    <3>2. \A a \in DOMAIN entries : entries[a].count \in Nat /\ entries[a].start \in Nat
      BY DEF Table
    <3> QED  BY <3>1, <3>2 DEF GateTypeOK, Clock, Table, Shape
  <2>2. ASSUME NEW a \in Addr, Reading(a)
        PROVE  /\ request[a].body \in Bodies /\ request[a].keyed \in BOOLEAN
               /\ request[a].sent \in 0 .. Len(request[a].body)
               /\ Len(request[a].got) < MaxPost
    <3>1. request[a] \in Request /\ Begins(request[a])
      BY <2>2 DEF Shape, Reading, Buffered
    <3>2. /\ request[a].sent \in Nat /\ request[a].sent <= Len(request[a].body)
          /\ Len(request[a].got) = Smaller(request[a].sent, MaxPost - 1)
          /\ request[a].body \in Bodies /\ request[a].keyed \in BOOLEAN
      BY <3>1 DEF Request, Begins
    <3>3. Len(request[a].body) \in Nat
      BY <3>2, CApiAssumption, LenProperties
    <3> QED  BY <3>2, <3>3, CApiAssumption DEF Smaller
  <2> QED  BY <2>1, <2>2 DEF TypeOK, Shape
<1> QED  BY <1>1, Invariance, PTL

\* api.c, rate_limiter_check: the limit holds in each second of the clock and,
\* whatever happens to the clock, in every span of one second up to one window
\* more for each time it is set.
THEOREM FixedWindowBoundHolds == Spec => []FixedWindowBound
<1>1. IInv => FixedWindowBound
  BY WindowsBounded DEF IInv
<1> QED  BY <1>1, Invariance, PTL

\* api.c, rate_limiter_check: 429 goes to nobody who has not used up the limit.
THEOREM RefusalIsEarnedHolds == Spec => RefusalIsEarned
<1>1. IInv => \A a \in Addr :
        Refuse(a) =>
          Cardinality(KeyHitsSince(a, ticks - (1 + back) * TicksPerSecond)) >= MaxRequests
  BY RefusalEarned DEF IInv
<1> QED  BY <1>1, Invariance, PTL DEF RefusalIsEarned

\* api.c, con_cls: each post_data belongs to one request, and is freed by its
\* dispatch or never.
THEOREM BodiesAccountedHolds == Spec => []BodiesAccounted
<1>1. IInv => BodiesAccounted
  BY DEF IInv, ApiInv, Accounts
<1> QED  BY <1>1, Invariance, PTL

\* What the buffer says, the body says.
LEMMA BufferSays ==
  ASSUME IInv, NEW a \in Addr, Reading(a), NEW m, Says(request[a].got, m)
  PROVE  Says(request[a].body, m)
<1>1. request[a] \in Request /\ Begins(request[a])
  BY DEF IInv, ApiInv, Shape, Reading, Buffered
<1> DEFINE body == request[a].body
           got == request[a].got
<1>2. /\ body \in Seq(Piece) /\ got \in Seq(Piece) /\ request[a].sent \in Nat
  BY <1>1, CApiAssumption DEF Request
<1>3. /\ Len(got) <= Len(body) /\ Len(got) \in Nat /\ Len(body) \in Nat
      /\ \A i \in 1 .. Len(got) : got[i] = body[i]
  BY <1>1, <1>2, CApiAssumption, LenProperties DEF Begins, Smaller
<1>4. got # <<>> /\ got[1] = m /\ \E i \in DOMAIN got : got[i] = End
  BY DEF Says
<1> HIDE DEF body, got
<1>5. Len(got) >= 1 /\ DOMAIN got = 1 .. Len(got) /\ DOMAIN body = 1 .. Len(body)
  BY <1>2, <1>3, <1>4, EmptySeq, LenProperties
<1>6. body[1] = m /\ body # <<>> /\ \E i \in DOMAIN body : body[i] = End
  BY <1>3, <1>4, <1>5
<1> QED  BY <1>6 DEF Says, body

\* api.c, handle_mode and handle_type: the state follows complete, authorized
\* requests only, and never what a cut buffer alone would say.
THEOREM StateFollowsRequestsHolds == Spec => StateFollowsRequests
<1> DEFINE Follows ==
      mode # mode' \/ session # session' =>
        /\ admitted # admitted'
        /\ \E a \in Addr :
             /\ LastCall(a) /\ request'[a] = None
             /\ request[a].keyed
             /\ mode # mode' => Says(request[a].body, mode')
<1>1. IInv /\ [Next]_vars => Follows
  <2> SUFFICES ASSUME IInv, [Next]_vars, mode # mode' \/ session # session'
               PROVE  /\ admitted # admitted'
                      /\ \E a \in Addr :
                           /\ LastCall(a) /\ request'[a] = None
                           /\ request[a].keyed
                           /\ mode # mode' => Says(request[a].body, mode')
    OBVIOUS
  <2>1. PICK a \in Addr : HandleMode(a) \/ HandleType(a)
    BY DEF Next, Serve, Stop, Time, Connect, Hangup, FirstCall, FirstCallFails, Upload,
       TooManyRequests, Unauthorized, HandleOther, Get, vars, state
  <2>2. LastCall(a) /\ Admit(a) /\ request[a].keyed /\ request' = [request EXCEPT ![a] = None]
    BY <2>1 DEF HandleMode, HandleType, Dispatch, Authorized, Free
  <2>3. admitted # admitted'
    <3>1. admitted' = admitted \cup {Hit(a)} /\ Hit(a).id = calls
      BY <2>2 DEF Admit, Hit
    <3>2. Hit(a) \notin admitted
      BY <3>1 DEF IInv, GateInv, History
    <3> QED  BY <3>1, <3>2
  <2>4. request'[a] = None
    BY <2>2 DEF IInv, ApiInv, Shape
  <2>5. mode # mode' => Says(request[a].body, mode')
    BY <2>1, <2>2, BufferSays DEF HandleMode, HandleType, LastCall
  <2> QED  BY <2>2, <2>3, <2>4, <2>5
<1> QED  BY <1>1, Invariance, PTL DEF Spec, StateFollowsRequests
=============================================================================
