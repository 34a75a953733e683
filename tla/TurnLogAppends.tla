--------------------------- MODULE TurnLogAppends ---------------------------
(***************************************************************************)
(* What one append does to the log of TurnLog and to what                  *)
(* interrupted_turn_closers finds open in it, for every value of the       *)
(* constants.                                                              *)
(*                                                                         *)
(* Open is a recursive function; OpenAppend, by induction over the length  *)
(* of the log, reduces it to one step of Scan per append.  LogInv says of  *)
(* the log what TurnLog's properties say, and that the scan's open turn,   *)
(* open step and unanswered calls are those the events show                *)
(* (OpenMatchesLog, PendingMatchesLog).  One lemma per type of event gives *)
(* LogInv after its append and the new value of open.                      *)
(***************************************************************************)
EXTENDS TurnLog, SequenceTheorems, WellFoundedInduction, TLAPS

\* Time, and further attempts, for a leaf on a loaded machine.
USE SMTT(30), ZenonT(30), SMTT(40), SMTT(50), SMTT(60)

-----------------------------------------------------------------------------
(* Natural numbers and filtered sequences.  The lemmas speak of sets rather  *)
(* than of predicates, so that the provers can instantiate them: induction   *)
(* over a property P is NatSetInduction with {n \in Nat : P(n)}.             *)

\* Every nonempty set of naturals has a least element.
LEMMA LeastNatural ==
  ASSUME NEW T \in SUBSET Nat, T # {}
  PROVE  \E x \in T : \A y \in T : x <= y
<1> DEFINE R == {p \in Nat \X Nat : p[1] < p[2]}
<1>1. IsWellFoundedOn(R, Nat)
  BY NatLessThanWellFounded DEF OpToRel
<1>2. PICK x \in T : \A y \in T : <<y, x>> \notin R
  <2> HIDE DEF R
  <2> QED BY <1>1, WFMin, ZenonT(30)
<1>3. ASSUME NEW y \in T PROVE x <= y
  <2>1. x \in Nat /\ y \in Nat /\ <<y, x>> \in Nat \X Nat
    OBVIOUS
  <2>2. ~ (y < x)
    <3> SUFFICES ASSUME y < x PROVE <<y, x>> \in R
      BY <1>2
    <3> DEFINE p == <<y, x>>
    <3>1. p[1] = y /\ p[2] = x
      OBVIOUS
    <3> QED BY <2>1, <3>1
  <2> QED BY <2>1, <2>2
<1> QED BY <1>2, <1>3

\* Induction over the natural numbers.
LEMMA NatSetInduction ==
  ASSUME NEW S, 0 \in S, \A n \in Nat : n \in S => n + 1 \in S
  PROVE  \A n \in Nat : n \in S
<1> SUFFICES ASSUME Nat \ S # {} PROVE FALSE
  OBVIOUS
<1>1. PICK x \in Nat \ S : \A y \in Nat \ S : x <= y
  BY LeastNatural, ZenonT(30)
<1>2. x - 1 \in Nat /\ x - 1 \in S
  BY <1>1
<1> QED BY <1>1, <1>2

\* Every nonempty set of naturals with an upper bound has a greatest element.
LEMMA GreatestNatural ==
  ASSUME NEW n \in Nat, NEW T \in SUBSET (0..n), T # {}
  PROVE  \E x \in T : \A y \in T : y <= x
<1> DEFINE U == {n - y : y \in T}
<1>1. U \in SUBSET Nat /\ U # {}
  <2>1. \A y \in T : n - y \in Nat
    OBVIOUS
  <2>2. PICK y \in T : TRUE
    BY ZenonT(30)
  <2>3. n - y \in U
    BY <2>2
  <2> QED BY <2>1, <2>3
<1>2. PICK u \in U : \A v \in U : u <= v
  BY <1>1, LeastNatural, ZenonT(30)
<1>3. PICK x \in T : u = n - x
  BY <1>2
<1>4. ASSUME NEW y \in T PROVE y <= x
  <2>1. n - y \in U
    OBVIOUS
  <2> QED BY <1>2, <1>3, <2>1
<1> QED BY <1>4

\* f holds the filtered prefixes of s, up to length n.
IsFilter(f, s, S, n) ==
  f = [i \in 0..n |->
         IF i = 0 THEN <<>> ELSE IF s[i] \in S THEN Append(f[i - 1], s[i]) ELSE f[i - 1]]

\* The filtered prefixes exist up to any length.
LEMMA FilterExists ==
  ASSUME NEW s, NEW S, NEW n \in Nat
  PROVE  \E f : IsFilter(f, s, S, n)
<1> DEFINE D == {m \in Nat : \E f : IsFilter(f, s, S, m)}
<1>1. 0 \in D
  <2> DEFINE f == [i \in 0..0 |-> <<>>]
  <2>1. IsFilter(f, s, S, 0)
    BY DEF IsFilter
  <2> QED BY <2>1
<1>2. ASSUME NEW m \in Nat, m \in D PROVE m + 1 \in D
  <2>1. PICK f : IsFilter(f, s, S, m)
    BY <1>2
  <2> DEFINE last == IF s[m + 1] \in S THEN Append(f[m], s[m + 1]) ELSE f[m]
             g == [i \in 0..(m + 1) |-> IF i = m + 1 THEN last ELSE f[i]]
  <2>2. \A i \in 0..m : g[i] = f[i]
    OBVIOUS
  <2>3. g[m + 1] = last
    OBVIOUS
  <2>4. ASSUME NEW i \in 0..(m + 1)
        PROVE  g[i] = IF i = 0 THEN <<>> ELSE IF s[i] \in S THEN Append(g[i - 1], s[i]) ELSE g[i - 1]
    <3>1. CASE i = 0
      BY <2>1, <2>2, <3>1 DEF IsFilter
    <3>2. CASE i = m + 1
      <4>1. i - 1 = m /\ i # 0 /\ m \in 0..m
        BY <3>2
      <4> HIDE DEF g
      <4> QED BY <2>2, <2>3, <3>2, <4>1
    <3>3. CASE i \in 1..m
      <4>1. i - 1 \in 0..m /\ i \in 0..m /\ i # 0
        BY <3>3
      <4>2. f[i] = IF s[i] \in S THEN Append(f[i - 1], s[i]) ELSE f[i - 1]
        BY <2>1, <4>1, ZenonT(30) DEF IsFilter
      <4> HIDE DEF g
      <4> QED BY <2>2, <4>1, <4>2
    <3> QED BY <3>1, <3>2, <3>3
  <2>5. IsFilter(g, s, S, m + 1)
    <3>1. g = [i \in 0..(m + 1) |-> g[i]]
      OBVIOUS
    <3> HIDE DEF g
    <3> QED BY <2>4, <3>1 DEF IsFilter
  <2> QED BY <2>5
<1> HIDE DEF D
<1>3. \A m \in Nat : m \in D
  BY <1>1, <1>2, NatSetInduction
<1> QED BY <1>3 DEF D

\* Filter is the last of the filtered prefixes.
LEMMA FilterIs ==
  ASSUME NEW X, NEW s \in Seq(X), NEW S
  PROVE  \E f : IsFilter(f, s, S, Len(s)) /\ Filter(s, S) = f[Len(s)]
<1>1. Len(s) \in Nat
  OBVIOUS
<1>2. \E f : IsFilter(f, s, S, Len(s))
  BY <1>1, FilterExists, ZenonT(30)
<1> QED BY <1>2, ZenonT(30) DEF Filter, IsFilter

\* The equation of a filtered prefix.
LEMMA FilterStep ==
  ASSUME NEW f, NEW s, NEW S, NEW n \in Nat, IsFilter(f, s, S, n), NEW i \in 0..(n - 1)
  PROVE  /\ f[0] = <<>>
         /\ f[i + 1] = IF s[i + 1] \in S THEN Append(f[i], s[i + 1]) ELSE f[i]
<1>1. i + 1 \in 0..n /\ i + 1 # 0 /\ (i + 1) - 1 = i /\ 0 \in 0..n
  OBVIOUS
<1> QED BY <1>1, ZenonT(30) DEF IsFilter

\* Filtering out just the first element leaves the tail.
LEMMA FilterTail ==
  ASSUME NEW X, NEW s \in Seq(X), s # <<>>, NEW S, s[1] \notin S, \A i \in 2..Len(s) : s[i] \in S
  PROVE  Filter(s, S) = Tail(s)
<1>1. Len(s) \in Nat /\ Len(s) # 0
  BY EmptySeq
<1>2. PICK f : IsFilter(f, s, S, Len(s)) /\ Filter(s, S) = f[Len(s)]
  BY FilterIs
<1> DEFINE T(n) == [j \in 1..n |-> s[j + 1]]
           D == {n \in Nat : n + 1 <= Len(s) => f[n + 1] = T(n)}
<1>3. 0 \in D
  <2>1. f[0] = <<>> /\ f[0 + 1] = f[0]
    BY <1>1, <1>2, FilterStep
  <2>2. T(0) = <<>>
    OBVIOUS
  <2> QED BY <2>1, <2>2
<1>4. ASSUME NEW n \in Nat, n \in D PROVE n + 1 \in D
  <2> SUFFICES ASSUME (n + 1) + 1 <= Len(s) PROVE f[(n + 1) + 1] = T(n + 1)
    OBVIOUS
  <2>1. n + 1 \in 0..(Len(s) - 1) /\ (n + 1) + 1 \in 2..Len(s)
    BY <1>1
  <2>2. f[(n + 1) + 1] = Append(f[n + 1], s[(n + 1) + 1])
    BY <1>1, <1>2, <2>1, FilterStep, ZenonT(30)
  <2>3. f[n + 1] = T(n)
    BY <1>1, <1>4
  <2>4. T(n) \in Seq(X) /\ Len(T(n)) = n /\ s[(n + 1) + 1] \in X
    BY <1>1
  <2>5. Append(T(n), s[(n + 1) + 1]) = T(n + 1)
    BY <2>4
  <2> QED BY <2>2, <2>3, <2>5
<1> HIDE DEF D
<1>5. \A n \in Nat : n \in D
  BY <1>3, <1>4, NatSetInduction
<1>6. Len(s) - 1 \in Nat /\ (Len(s) - 1) + 1 = Len(s)
  BY <1>1
<1>7. Filter(s, S) = T(Len(s) - 1)
  BY <1>2, <1>5, <1>6 DEF D
<1>8. Tail(s) = T(Len(s) - 1)
  <2>1. /\ Tail(s) \in Seq(X) /\ Len(Tail(s)) = Len(s) - 1
        /\ \A j \in 1..(Len(s) - 1) : Tail(s)[j] = s[j + 1]
    BY <1>1, HeadTailProperties
  <2>2. T(Len(s) - 1) \in Seq(X) /\ Len(T(Len(s) - 1)) = Len(s) - 1
    BY <1>1
  <2> QED BY <1>6, <2>1, <2>2, SeqEqual, ZenonT(30)
<1> QED BY <1>7, <1>8

-----------------------------------------------------------------------------
(* What is open in a log, by induction over its length *)

\* f is the scan of the first n events of l.
IsScan(f, l, n) ==
  f = [i \in 0..n |-> IF i = 0 THEN NothingOpen ELSE Scan(f[i - 1], l[i])]

\* The scan of a prefix exists ...
LEMMA ScanExists ==
  ASSUME NEW l, NEW n \in Nat
  PROVE  \E f : IsScan(f, l, n)
<1> DEFINE S == {m \in Nat : \E f : IsScan(f, l, m)}
<1>1. 0 \in S
  <2>1. IsScan([i \in 0..0 |-> NothingOpen], l, 0)
    BY DEF IsScan
  <2> QED BY <2>1
<1>2. ASSUME NEW m \in Nat, m \in S PROVE m + 1 \in S
  <2>1. PICK f : IsScan(f, l, m)
    BY <1>2
  <2> DEFINE g == [i \in 0..(m + 1) |-> IF i = m + 1 THEN Scan(f[m], l[m + 1]) ELSE f[i]]
             h == [i \in 0..(m + 1) |-> IF i = 0 THEN NothingOpen ELSE Scan(g[i - 1], l[i])]
  <2>2. ASSUME NEW i \in 0..(m + 1) PROVE g[i] = h[i]
    <3>1. CASE i = 0
      <4>1. g[0] = f[0] /\ f[0] = NothingOpen
        BY <2>1 DEF IsScan
      <4> QED BY <3>1, <4>1
    <3>2. CASE i = m + 1
      <4>1. g[m] = f[m]
        OBVIOUS
      <4> QED BY <3>2, <4>1
    <3>3. CASE i # 0 /\ i # m + 1
      <4>1. i \in 0..m /\ i - 1 \in 0..m
        BY <3>3
      <4>2. f[i] = Scan(f[i - 1], l[i])
        BY <2>1, <3>3, <4>1 DEF IsScan
      <4>3. g[i] = f[i] /\ g[i - 1] = f[i - 1]
        BY <3>3, <4>1
      <4> QED BY <3>3, <4>2, <4>3
    <3> QED BY <3>1, <3>2, <3>3
  <2>3. g = h
    BY <2>2
  <2>4. IsScan(g, l, m + 1)
    BY <2>3 DEF IsScan
  <2> QED BY <2>4
<1> HIDE DEF S
<1>3. \A m \in Nat : m \in S
  BY <1>1, <1>2, NatSetInduction
<1> QED BY <1>3 DEF S

\* ... and is determined by that prefix.
LEMMA ScanUnique ==
  ASSUME NEW k, NEW l, NEW m \in Nat, NEW n \in Nat, m <= n,
         \A i \in 1..m : k[i] = l[i],
         NEW f, NEW g, IsScan(f, k, m), IsScan(g, l, n)
  PROVE  f[m] = g[m]
<1> DEFINE S == {i \in Nat : i <= m => f[i] = g[i]}
<1>1. 0 \in S
  BY DEF IsScan
<1>2. ASSUME NEW i \in Nat, i \in S PROVE i + 1 \in S
  <2> SUFFICES ASSUME i + 1 <= m PROVE f[i + 1] = g[i + 1]
    OBVIOUS
  <2>1. f[i] = g[i] /\ k[i + 1] = l[i + 1]
    BY <1>2
  <2>2. i + 1 \in 0..m /\ i + 1 \in 0..n /\ i + 1 # 0 /\ (i + 1) - 1 = i
    OBVIOUS
  <2>3. f[i + 1] = Scan(f[(i + 1) - 1], k[i + 1])
    BY <2>2 DEF IsScan
  <2>4. g[i + 1] = Scan(g[(i + 1) - 1], l[i + 1])
    BY <2>2 DEF IsScan
  <2> QED BY <2>1, <2>2, <2>3, <2>4
<1> HIDE DEF S
<1>3. \A i \in Nat : i \in S
  BY <1>1, <1>2, NatSetInduction
<1> QED BY <1>3 DEF S

\* Open(l) is the last value of the scan of the whole log.
LEMMA OpenIsScan ==
  ASSUME NEW S, NEW l \in Seq(S)
  PROVE  \E f : IsScan(f, l, Len(l)) /\ Open(l) = f[Len(l)]
<1>1. Len(l) \in Nat
  OBVIOUS
<1>2. \E f : IsScan(f, l, Len(l))
  BY <1>1, ScanExists, ZenonT(30)
<1> QED BY <1>2, ZenonT(30) DEF Open, IsScan

\* Nothing is open in the empty log.
LEMMA OpenEmpty == Open(<<>>) = NothingOpen
<1>1. PICK f : IsScan(f, <<>>, 0) /\ Open(<<>>) = f[0]
  BY OpenIsScan, <<>> \in Seq({}), Len(<<>>) = 0, ZenonT(30)
<1> QED BY <1>1 DEF IsScan

\* An appended event is scanned last.
LEMMA OpenAppend ==
  ASSUME NEW S, NEW l \in Seq(S), NEW e \in S
  PROVE  Open(Append(l, e)) = Scan(Open(l), e)
<1> DEFINE n == Len(l)
           k == Append(l, e)
<1>1. n \in Nat /\ k \in Seq(S) /\ Len(k) = n + 1 /\ k[n + 1] = e /\ \A i \in 1..n : k[i] = l[i]
  OBVIOUS
<1>2. PICK f : IsScan(f, l, n) /\ Open(l) = f[n]
  BY OpenIsScan
<1>3. PICK g : IsScan(g, k, n + 1) /\ Open(k) = g[n + 1]
  BY <1>1, OpenIsScan, ZenonT(30)
<1> HIDE DEF n, k
<1>4. f[n] = g[n]
  <2>1. n + 1 \in Nat /\ n <= n + 1 /\ \A i \in 1..n : l[i] = k[i]
    BY <1>1
  <2> QED BY <1>1, <1>2, <1>3, <2>1, ScanUnique
<1>5. g[n + 1] = Scan(g[(n + 1) - 1], k[n + 1])
  BY <1>1, <1>3 DEF IsScan
<1>6. (n + 1) - 1 = n
  BY <1>1
<1> QED BY <1>1, <1>2, <1>3, <1>4, <1>5, <1>6 DEF k
-----------------------------------------------------------------------------
(* The inductive invariant *)

Turns == 1..MaxTurns

Calls == Nat \X Nat \X Nat

\* The events interrupted_turn_closers looks at, as the driver and the closers write them.
LogEvents ==
  [type : {"turn/start", "turn/end", "step/start", "step/end"}, turn : Turns, step : 0..MaxSteps]
  \cup [type : {"assistant/message"}, turn : Turns, step : 1..MaxSteps, calls : 0..MaxCalls,
        finish : {"call", "stop", "max-tokens"}]
  \cup [type : {"tool/call"}, turn : Turns, step : 1..MaxSteps, call : Calls]
  \cup [type : {"tool/result"}, turn : Turns, step : 1..MaxSteps, call : Calls,
        outcome : {"returned", "unknown", "not-started"}]

\* A call announced in the open step and not answered.
PendingCalls == [call : Calls, step : 1..MaxSteps, started : BOOLEAN]

\* What interrupted_turn_closers finds open in the log as it is now.
open == Open(log)

\* The last event of these types is log[j].
IsLast(types, j) ==
  /\ j \in DOMAIN log /\ log[j].type \in types
  /\ \A k \in DOMAIN log : log[k].type \in types => k <= j

\* The events that open and close turns, and steps.
TurnBounds == {"turn/start", "turn/end"}
StepBounds == {"turn/start", "step/start", "step/end"}

\* The scan finds what the events say: its turn is the last one started, its
\* step the last one started in it, and nothing of an earlier turn follows.
OpenMatchesLog ==
  /\ open \in [turn : 0..MaxTurns, step : 0..MaxSteps, pending : Seq(PendingCalls)]
  /\ open.turn = 0 => open.step = 0
  /\ open.step = 0 => open.pending = <<>>
  /\ open.turn # 0 => \E t \in DOMAIN log :
       /\ IsLast(TurnBounds, t) /\ log[t] = Event("turn/start", open.turn, 0)
       /\ \A i \in DOMAIN log : IF i < t THEN log[i].turn < open.turn ELSE log[i].turn = open.turn
  /\ IF open.step = 0
     THEN \A s \in DOMAIN log : IsLast(StepBounds, s) => log[s].type # "step/start"
     ELSE \E s \in DOMAIN log :
            IsLast(StepBounds, s) /\ log[s] = Event("step/start", open.turn, open.step)

\* The assistant's message asks for the call.
Announces(e, call) ==
  /\ e.type = "assistant/message"
  /\ call \in {Call(e.turn, e.step, n) : n \in 1..e.calls}

\* No call is pending twice.
PendingDistinct ==
  \A j, k \in DOMAIN open.pending : open.pending[j].call = open.pending[k].call => j = k

\* The pending calls belong to the open step and are not answered yet; those
\* that ran are marked as started.
PendingUnanswered ==
  \A j \in DOMAIN open.pending :
    /\ open.pending[j].step = open.step
    /\ ~ Answered(open.pending[j].call)
    /\ open.pending[j].call \in ran => open.pending[j].started

\* The pending calls were announced in the open step.
PendingAnnounced ==
  \A j \in DOMAIN open.pending : \E i \in DOMAIN log :
    /\ log[i].turn = open.turn /\ log[i].step = open.step
    /\ Announces(log[i], open.pending[j].call)

\* Every call the open turn was to run is pending or answered.
WantedIsCovered ==
  \A i \in DOMAIN log :
    log[i].type = "assistant/message" /\ log[i].turn = open.turn /\ log[i].finish = "call" =>
      \A n \in 1..log[i].calls :
        \/ Answered(Call(log[i].turn, log[i].step, n))
        \/ \E j \in DOMAIN open.pending :
             open.pending[j].call = Call(log[i].turn, log[i].step, n)

\* The pending calls of the scan are the unanswered calls of the log.
PendingMatchesLog == PendingDistinct /\ PendingUnanswered /\ PendingAnnounced /\ WantedIsCovered

\* The part of the inductive invariant that speaks of the log alone.
LogInv ==
  /\ log \in Seq(LogEvents)
  /\ TurnNumbersIncrease /\ ClosesMatch /\ OneResultPerCall /\ NotStartedNeverRan
  /\ OpenMatchesLog /\ PendingMatchesLog

\* Every event belongs to a turn that was started.
TurnsStarted ==
  \A i \in DOMAIN log : \E j \in DOMAIN log :
    log[j].type = "turn/start" /\ log[j].turn = log[i].turn
-----------------------------------------------------------------------------
(* What an append keeps of the properties of single events *)

\* What an append makes of the log and of what is open in it.
LEMMA AppendToLog ==
  ASSUME log \in Seq(LogEvents), NEW e \in LogEvents, log' = Append(log, e)
  PROVE  /\ log' \in Seq(LogEvents) /\ Len(log) \in Nat /\ Len(log') = Len(log) + 1
         /\ DOMAIN log = 1..Len(log) /\ DOMAIN log' = 1..(Len(log) + 1)
         /\ log'[Len(log) + 1] = e /\ \A i \in DOMAIN log : log'[i] = log[i]
         /\ \A i \in DOMAIN log : log[i] \in LogEvents
         /\ open' = Scan(open, e)
<1> HIDE DEF LogEvents
<1>1. open' = Scan(open, e)
  BY OpenAppend DEF open
<1> QED BY <1>1

\* The greatest element of a set of naturals.
LEMMA MaxIs ==
  ASSUME NEW T \in SUBSET Nat, NEW x \in T, \A y \in T : y <= x
  PROVE  Max(T) = x
<1>1. \A z \in T : (\A y \in T : z >= y) => z = x
  OBVIOUS
<1>2. \A y \in T : x >= y
  OBVIOUS
<1> QED BY <1>1, <1>2, ZenonT(30) DEF Max

\* The last event of some types before i comes before i.
LEMMA LastOfRange ==
  ASSUME NEW types, NEW i \in Nat, i # 0
  PROVE  LastOf(types, i) \in 0..(i - 1)
<1> DEFINE T == {0} \cup {j \in 1..(i - 1) : log[j].type \in types}
<1>1. i - 1 \in Nat /\ T \in SUBSET (0..(i - 1)) /\ T \in SUBSET Nat /\ T # {}
  OBVIOUS
<1> HIDE DEF T
<1>2. PICK x \in T : \A y \in T : y <= x
  BY <1>1, GreatestNatural, ZenonT(30)
<1>3. Max(T) = x
  BY <1>1, <1>2, MaxIs
<1> QED BY <1>1, <1>2, <1>3 DEF LastOf, T

\* An append does not change what comes last before an earlier event.
LEMMA LastOfStable ==
  ASSUME log \in Seq(LogEvents), NEW e \in LogEvents, log' = Append(log, e),
         NEW types, NEW i \in DOMAIN log
  PROVE  LastOf(types, i)' = LastOf(types, i)
<1>1. {k \in 1..(i - 1) : log[k].type \in types} = {k \in 1..(i - 1) : log'[k].type \in types}
  BY AppendToLog
<1> QED BY <1>1, ZenonT(30) DEF LastOf

\* The last event of some types, as seen from an event appended now.
LEMMA LastOfNew ==
  ASSUME log \in Seq(LogEvents), NEW e \in LogEvents, log' = Append(log, e),
         NEW n, n = Len(log) + 1, NEW types, NEW j, IsLast(types, j)
  PROVE  LastOf(types, n)' = j /\ log'[j] = log[j]
<1> DEFINE T == {0} \cup {k \in 1..(n - 1) : log'[k].type \in types}
<1>1. /\ Len(log) \in Nat /\ j \in 1..Len(log) /\ log'[j].type \in types
      /\ \A k \in 1..Len(log) : log'[k].type \in types => k <= j
      /\ log'[j] = log[j] /\ n - 1 = Len(log)
  BY AppendToLog DEF IsLast
<1>2. T \in SUBSET Nat /\ j \in T /\ \A k \in T : k <= j
  BY <1>1
<1>3. LastOf(types, n)' = Max(T)
  BY DEF LastOf
<1> HIDE DEF T
<1> QED BY <1>1, <1>2, <1>3, MaxIs

\* If the log has an event of some types, it has a last one.
LEMMA LastExists ==
  ASSUME log \in Seq(LogEvents), NEW types, NEW i \in DOMAIN log, log[i].type \in types
  PROVE  \E j \in DOMAIN log : IsLast(types, j)
<1> DEFINE T == {j \in DOMAIN log : log[j].type \in types}
<1>1. Len(log) \in Nat /\ T \in SUBSET (0..Len(log)) /\ T # {}
  OBVIOUS
<1>2. PICK j \in T : \A k \in T : k <= j
  BY <1>1, GreatestNatural, ZenonT(30)
<1> QED BY <1>2 DEF IsLast

\* A new turn's number keeps turn numbers increasing.
LEMMA TurnNumbersStep ==
  ASSUME log \in Seq(LogEvents), NEW e \in LogEvents, log' = Append(log, e), TurnNumbersIncrease,
         e.type = "turn/start" => \A i \in DOMAIN log : log[i].turn < e.turn
  PROVE  TurnNumbersIncrease'
<1> SUFFICES ASSUME NEW i \in DOMAIN log', log'[i].type = "turn/start", NEW j \in 1..(i - 1)
             PROVE  log'[j].turn < log'[i].turn
  BY DEF TurnNumbersIncrease
<1>1. j \in DOMAIN log /\ (i \in DOMAIN log \/ log'[i] = e)
  BY AppendToLog
<1>2. log'[j] = log[j] /\ (i \in DOMAIN log => log'[i] = log[i])
  BY <1>1, AppendToLog
<1> QED BY <1>1, <1>2 DEF TurnNumbersIncrease

\* An append keeps closes matched if it closes what is open.
LEMMA ClosesMatchStep ==
  ASSUME log \in Seq(LogEvents), NEW e \in LogEvents, log' = Append(log, e), ClosesMatch,
         e.type = "step/end" => \E s \in DOMAIN log :
           IsLast(StepBounds, s) /\ log[s] = Event("step/start", e.turn, e.step),
         e.type = "turn/end" =>
           /\ \E t \in DOMAIN log : IsLast(TurnBounds, t) /\ log[t] = Event("turn/start", e.turn, 0)
           /\ \A s \in DOMAIN log : IsLast(StepBounds, s) => log[s].type # "step/start"
  PROVE  ClosesMatch'
<1> DEFINE Matches(i) ==
      LET t == LastOf(TurnBounds, i)
          s == LastOf(StepBounds, i)
      IN /\ log[i].type = "step/end" =>
              s # 0 /\ log[s] = Event("step/start", log[i].turn, log[i].step)
         /\ log[i].type = "turn/end" =>
              /\ t # 0 /\ log[t] = Event("turn/start", log[i].turn, 0)
              /\ s # 0 /\ log[s].type # "step/start"
<1> SUFFICES ASSUME NEW i \in DOMAIN log' PROVE Matches(i)'
  BY ZenonT(30) DEF ClosesMatch, TurnBounds, StepBounds
<1>1. CASE i \in DOMAIN log
  <2>1. Matches(i)
    BY <1>1 DEF ClosesMatch, TurnBounds, StepBounds
  <2>2. LastOf(TurnBounds, i)' = LastOf(TurnBounds, i) /\ LastOf(StepBounds, i)' = LastOf(StepBounds, i)
    BY <1>1, LastOfStable DEF TurnBounds, StepBounds
  <2>3. log'[i] = log[i]
    BY <1>1, AppendToLog
  <2>4. \A types : LastOf(types, i) # 0 => log'[LastOf(types, i)] = log[LastOf(types, i)]
    BY <1>1, LastOfRange, AppendToLog
  <2> QED BY <2>1, <2>2, <2>3, <2>4, ZenonT(30)
<1>2. CASE i = Len(log) + 1
  <2>1. log'[i] = e
    BY <1>2, AppendToLog
  <2>2. CASE e.type = "step/end"
    <3>1. PICK s \in DOMAIN log : IsLast(StepBounds, s) /\ log[s] = Event("step/start", e.turn, e.step)
      BY <2>2
    <3>2. LastOf(StepBounds, i)' = s /\ log'[s] = log[s]
      BY <1>2, <3>1, LastOfNew
    <3>3. s # 0
      BY AppendToLog
    <3> QED BY <2>1, <2>2, <3>1, <3>2, <3>3
  <2>3. CASE e.type = "turn/end"
    <3>1. PICK t \in DOMAIN log : IsLast(TurnBounds, t) /\ log[t] = Event("turn/start", e.turn, 0)
      BY <2>3
    <3>2. LastOf(TurnBounds, i)' = t /\ log'[t] = log[t]
      BY <1>2, <3>1, LastOfNew
    <3>3. log[t].type \in StepBounds
      BY <3>1 DEF Event, StepBounds
    <3>4. PICK s \in DOMAIN log : IsLast(StepBounds, s)
      BY <3>3, LastExists
    <3>5. LastOf(StepBounds, i)' = s /\ log'[s] = log[s]
      BY <1>2, <3>4, LastOfNew
    <3>6. t # 0 /\ s # 0 /\ log[s].type # "step/start"
      BY <2>3, <3>4, AppendToLog
    <3> QED BY <2>1, <2>3, <3>1, <3>2, <3>5, <3>6
  <2>4. CASE e.type \notin {"step/end", "turn/end"}
    BY <2>1, <2>4
  <2> QED BY <2>2, <2>3, <2>4, ZenonT(30)
<1>3. i \in DOMAIN log \/ i = Len(log) + 1
  BY AppendToLog
<1> HIDE DEF Matches
<1> QED BY <1>1, <1>2, <1>3

\* An appended result answers an announced call that has no result yet.
LEMMA OneResultStep ==
  ASSUME log \in Seq(LogEvents), NEW e \in LogEvents, log' = Append(log, e), OneResultPerCall,
         e.type = "tool/result" =>
           /\ ~ Answered(e.call)
           /\ \E j \in DOMAIN log :
                Announces(log[j], e.call) /\ log[j].turn = e.turn /\ log[j].step = e.step
  PROVE  OneResultPerCall'
<1> SUFFICES ASSUME NEW i \in DOMAIN log', log'[i].type = "tool/result"
             PROVE  /\ \E j \in 1..(i - 1) :
                         /\ log'[j].type = "assistant/message"
                         /\ log'[j].turn = log'[i].turn /\ log'[j].step = log'[i].step
                         /\ log'[i].call \in {Call(log'[j].turn, log'[j].step, n) : n \in 1..log'[j].calls}
                    /\ \A j \in 1..(i - 1) : log'[j].type = "tool/result" => log'[j].call # log'[i].call
  BY ZenonT(30) DEF OneResultPerCall
<1>1. \A j \in 1..(i - 1) : j \in DOMAIN log /\ log'[j] = log[j]
  BY AppendToLog
<1>2. CASE i \in DOMAIN log
  <2>1. log'[i] = log[i]
    BY <1>2, AppendToLog
  <2> QED BY <1>1, <1>2, <2>1 DEF OneResultPerCall
<1>3. CASE i = Len(log) + 1
  <2>1. log'[i] = e
    BY <1>3, AppendToLog
  <2>2. \A j \in DOMAIN log : j \in 1..(i - 1)
    BY <1>3, AppendToLog
  <2> QED BY <1>1, <2>1, <2>2, ZenonT(30) DEF Answered, Announces
<1>4. i \in DOMAIN log \/ i = Len(log) + 1
  BY AppendToLog
<1> QED BY <1>2, <1>3, <1>4

\* An appended result may say "not started" of a call that has not run.
LEMMA NotStartedStep ==
  ASSUME log \in Seq(LogEvents), NEW e \in LogEvents, log' = Append(log, e), ran' = ran,
         NotStartedNeverRan,
         e.type = "tool/result" /\ e.outcome = "not-started" => e.call \notin ran
  PROVE  NotStartedNeverRan'
BY AppendToLog DEF NotStartedNeverRan

-----------------------------------------------------------------------------
(* What an append does to the scan *)

\* The last event of some types after an append.
LEMMA LastAfterAppend ==
  ASSUME log \in Seq(LogEvents), NEW e \in LogEvents, log' = Append(log, e), NEW types
  PROVE  \A j : IsLast(types, j)' <=> IF e.type \in types THEN j = Len(log) + 1 ELSE IsLast(types, j)
BY AppendToLog DEF IsLast

\* The calls answered after an append.
LEMMA AnsweredAfterAppend ==
  ASSUME log \in Seq(LogEvents), NEW e \in LogEvents, log' = Append(log, e), NEW call
  PROVE  Answered(call)' <=> Answered(call) \/ (e.type = "tool/result" /\ e.call = call)
BY AppendToLog DEF Answered

\* Dropping the first entry by its call leaves the others.
LEMMA RemoveHead ==
  ASSUME NEW S, NEW s \in Seq(S), s # <<>>, NEW c, s[1].call = c,
         \A i \in DOMAIN s : s[i].call = c => i = 1
  PROVE  WithoutCall(s, c) = Tail(s)
<1> DEFINE K == {p \in {s[i] : i \in DOMAIN s} : p.call # c}
<1>1. Len(s) \in Nat /\ DOMAIN s = 1..Len(s)
  OBVIOUS
<1>2. s[1] \notin K /\ \A i \in 2..Len(s) : s[i] \in K
  BY <1>1
<1> HIDE DEF K
<1>3. Filter(s, K) = Tail(s)
  BY <1>2, FilterTail
<1> QED BY <1>3 DEF WithoutCall, K

-----------------------------------------------------------------------------
(* The events one by one: each keeps LogInv when it is appended where the    *)
(* driver or a restoration appends it.                                       *)

\* Starting a turn: whatever a half-open turn left is no longer open.
LEMMA AppendTurnStart ==
  ASSUME LogInv, NEW n \in Turns, \A i \in DOMAIN log : log[i].turn < n, ran' = ran,
         log' = Append(log, Event("turn/start", n, 0))
  PROVE  LogInv' /\ open' = [turn |-> n, step |-> 0, pending |-> <<>>]
<1> DEFINE e == Event("turn/start", n, 0)
<1> USE DEF LogInv
<1>1. e \in LogEvents /\ e.type = "turn/start" /\ e.turn = n /\ e.step = 0
  BY TurnAssumption DEF Event, LogEvents
<1> HIDE DEF e
<1>2. log' = Append(log, e) /\ log'[Len(log) + 1] = e
  BY <1>1, AppendToLog DEF e
<1>3. open' = [turn |-> n, step |-> 0, pending |-> <<>>]
  BY <1>1, <1>2, AppendToLog DEF Scan
<1>4. OpenMatchesLog'
  <2>1. \A j : /\ IsLast(TurnBounds, j)' <=> j = Len(log) + 1
               /\ IsLast(StepBounds, j)' <=> j = Len(log) + 1
    BY <1>1, <1>2, LastAfterAppend DEF TurnBounds, StepBounds
  <2>2. open' \in [turn : 0..MaxTurns, step : 0..MaxSteps, pending : Seq(PendingCalls)]
    BY <1>3, TurnAssumption DEF Turns
  <2>3. \E t \in DOMAIN log' :
          /\ IsLast(TurnBounds, t)' /\ log'[t] = Event("turn/start", open'.turn, 0)
          /\ \A i \in DOMAIN log' : IF i < t THEN log'[i].turn < open'.turn ELSE log'[i].turn = open'.turn
    <3>1. Len(log) + 1 \in DOMAIN log' /\ log'[Len(log) + 1] = Event("turn/start", open'.turn, 0)
      BY <1>1, <1>2, <1>3, AppendToLog DEF e
    <3>2. \A i \in DOMAIN log' : IF i < Len(log) + 1 THEN log'[i].turn < open'.turn
                                                      ELSE log'[i].turn = open'.turn
      BY <1>1, <1>2, <1>3, AppendToLog
    <3> QED BY <2>1, <3>1, <3>2
  <2>4. \A s \in DOMAIN log' : IsLast(StepBounds, s)' => log'[s].type # "step/start"
    BY <1>1, <1>2, <2>1
  <2> QED BY <1>3, <2>2, <2>3, <2>4 DEF OpenMatchesLog
<1>5. PendingMatchesLog'
  <2>1. DOMAIN open'.pending = {}
    BY <1>3
  <2>2. \A i \in DOMAIN log' : log'[i].type = "assistant/message" => log'[i].turn # open'.turn
    BY <1>1, <1>2, <1>3, AppendToLog DEF Turns
  <2> QED BY <2>1, <2>2 DEF PendingMatchesLog, PendingDistinct, PendingUnanswered, PendingAnnounced, WantedIsCovered
<1>6. log' \in Seq(LogEvents) /\ TurnNumbersIncrease' /\ ClosesMatch' /\ OneResultPerCall' /\ NotStartedNeverRan'
  BY <1>1, <1>2, AppendToLog, TurnNumbersStep, ClosesMatchStep, OneResultStep, NotStartedStep
<1> QED BY <1>3, <1>4, <1>5, <1>6

\* Ending the open turn between two steps leaves nothing open.
LEMMA AppendTurnEnd ==
  ASSUME LogInv, open.turn # 0, open.step = 0, ran' = ran,
         log' = Append(log, Event("turn/end", open.turn, 0))
  PROVE  LogInv' /\ open' = NothingOpen
<1> DEFINE e == Event("turn/end", open.turn, 0)
<1> USE DEF LogInv
<1>1. e \in LogEvents /\ e.type = "turn/end" /\ e.turn = open.turn /\ e.step = 0
  BY TurnAssumption DEF Event, LogEvents, OpenMatchesLog, Turns
<1> HIDE DEF e
<1>2. log' = Append(log, e) /\ log'[Len(log) + 1] = e
  BY <1>1, AppendToLog DEF e
<1>3. open' = NothingOpen
  BY <1>1, <1>2, AppendToLog DEF Scan
<1>4. OpenMatchesLog'
  <2>1. \A j : IsLast(StepBounds, j)' <=> IsLast(StepBounds, j)
    BY <1>1, <1>2, LastAfterAppend DEF StepBounds
  <2>2. open' \in [turn : 0..MaxTurns, step : 0..MaxSteps, pending : Seq(PendingCalls)]
    BY <1>3, TurnAssumption DEF NothingOpen
  <2>3. \A s \in DOMAIN log' : IsLast(StepBounds, s)' => log'[s].type # "step/start"
    BY <1>1, <1>2, <2>1, AppendToLog DEF OpenMatchesLog, IsLast
  <2> QED BY <1>3, <2>2, <2>3 DEF OpenMatchesLog, NothingOpen
<1>5. PendingMatchesLog'
  <2>1. DOMAIN open'.pending = {} /\ open'.turn = 0
    BY <1>3 DEF NothingOpen
  <2>2. \A i \in DOMAIN log' : log'[i].turn # 0
    BY <1>1, <1>2, AppendToLog DEF LogEvents, Turns
  <2> QED BY <2>1, <2>2 DEF PendingMatchesLog, PendingDistinct, PendingUnanswered, PendingAnnounced, WantedIsCovered
<1>6. /\ \E t \in DOMAIN log : IsLast(TurnBounds, t) /\ log[t] = Event("turn/start", e.turn, 0)
      /\ \A s \in DOMAIN log : IsLast(StepBounds, s) => log[s].type # "step/start"
  BY <1>1 DEF OpenMatchesLog
<1>7. log' \in Seq(LogEvents) /\ TurnNumbersIncrease' /\ ClosesMatch' /\ OneResultPerCall' /\ NotStartedNeverRan'
  BY <1>1, <1>2, <1>6, AppendToLog, TurnNumbersStep, ClosesMatchStep, OneResultStep, NotStartedStep, ZenonT(30)
<1> QED BY <1>3, <1>4, <1>5, <1>7

\* Starting a step in the open turn.
LEMMA AppendStepStart ==
  ASSUME LogInv, open.turn # 0, open.step = 0, NEW n \in 1..MaxSteps, ran' = ran,
         log' = Append(log, Event("step/start", open.turn, n))
  PROVE  LogInv' /\ open' = [turn |-> open.turn, step |-> n, pending |-> <<>>]
<1> DEFINE e == Event("step/start", open.turn, n)
<1> USE DEF LogInv
<1>1. e \in LogEvents /\ e.type = "step/start" /\ e.turn = open.turn /\ e.step = n
  BY TurnAssumption DEF Event, LogEvents, OpenMatchesLog, Turns
<1> HIDE DEF e
<1>2. log' = Append(log, e) /\ log'[Len(log) + 1] = e
  BY <1>1, AppendToLog DEF e
<1>3. open' = [turn |-> open.turn, step |-> n, pending |-> <<>>]
  BY <1>1, <1>2, AppendToLog DEF Scan, OpenMatchesLog
<1>4. OpenMatchesLog'
  <2>1. \A j : /\ IsLast(TurnBounds, j)' <=> IsLast(TurnBounds, j)
               /\ IsLast(StepBounds, j)' <=> j = Len(log) + 1
    BY <1>1, <1>2, LastAfterAppend DEF TurnBounds, StepBounds
  <2>2. open' \in [turn : 0..MaxTurns, step : 0..MaxSteps, pending : Seq(PendingCalls)]
    BY <1>3, TurnAssumption DEF OpenMatchesLog
  <2>3. \E t \in DOMAIN log' :
          /\ IsLast(TurnBounds, t)' /\ log'[t] = Event("turn/start", open'.turn, 0)
          /\ \A i \in DOMAIN log' : IF i < t THEN log'[i].turn < open'.turn ELSE log'[i].turn = open'.turn
    <3>1. PICK t \in DOMAIN log :
            /\ IsLast(TurnBounds, t) /\ log[t] = Event("turn/start", open.turn, 0)
            /\ \A i \in DOMAIN log : IF i < t THEN log[i].turn < open.turn ELSE log[i].turn = open.turn
      BY DEF OpenMatchesLog
    <3> QED BY <1>1, <1>2, <1>3, <2>1, <3>1, AppendToLog
  <2>4. \E s \in DOMAIN log' :
          IsLast(StepBounds, s)' /\ log'[s] = Event("step/start", open'.turn, open'.step)
    BY <1>1, <1>2, <1>3, <2>1, AppendToLog DEF e
  <2> QED BY <1>3, <2>2, <2>3, <2>4 DEF OpenMatchesLog
<1>5. PendingMatchesLog'
  <2>1. DOMAIN open'.pending = {} /\ DOMAIN open.pending = {} /\ open'.turn = open.turn
    BY <1>3 DEF OpenMatchesLog
  <2>2. \A i \in DOMAIN log' : log'[i].type = "assistant/message" => i \in DOMAIN log /\ log'[i] = log[i]
    BY <1>1, <1>2, AppendToLog
  <2>3. \A call : Answered(call) => Answered(call)'
    BY <1>1, <1>2, AnsweredAfterAppend
  <2> QED BY <2>1, <2>2, <2>3 DEF PendingMatchesLog, PendingDistinct, PendingUnanswered, PendingAnnounced, WantedIsCovered
<1>6. log' \in Seq(LogEvents) /\ TurnNumbersIncrease' /\ ClosesMatch' /\ OneResultPerCall' /\ NotStartedNeverRan'
  BY <1>1, <1>2, AppendToLog, TurnNumbersStep, ClosesMatchStep, OneResultStep, NotStartedStep, ZenonT(30)
<1> QED BY <1>3, <1>4, <1>5, <1>6

\* Closing the open step, once no call of it that was to run is unanswered.
LEMMA AppendStepEnd ==
  ASSUME LogInv, open.step # 0, ran' = ran,
         log' = Append(log, Event("step/end", open.turn, open.step)),
         \/ open.pending = <<>>
         \/ \A i \in DOMAIN log :
              log[i].type = "assistant/message" /\ log[i].turn = open.turn /\ log[i].step = open.step =>
                log[i].finish # "call"
  PROVE  LogInv' /\ open' = [turn |-> open.turn, step |-> 0, pending |-> <<>>]
<1> DEFINE e == Event("step/end", open.turn, open.step)
<1> USE DEF LogInv
<1>1. e \in LogEvents /\ e.type = "step/end" /\ e.turn = open.turn /\ e.step = open.step /\ open.turn # 0
  BY TurnAssumption DEF Event, LogEvents, OpenMatchesLog, Turns
<1> HIDE DEF e
<1>2. log' = Append(log, e) /\ log'[Len(log) + 1] = e
  BY <1>1, AppendToLog DEF e
<1>3. open' = [turn |-> open.turn, step |-> 0, pending |-> <<>>]
  BY <1>1, <1>2, AppendToLog, ZenonT(30) DEF Scan, OpenMatchesLog
<1>4. OpenMatchesLog'
  <2>1. \A j : /\ IsLast(TurnBounds, j)' <=> IsLast(TurnBounds, j)
               /\ IsLast(StepBounds, j)' <=> j = Len(log) + 1
    BY <1>1, <1>2, LastAfterAppend DEF TurnBounds, StepBounds
  <2>2. open' \in [turn : 0..MaxTurns, step : 0..MaxSteps, pending : Seq(PendingCalls)]
    BY <1>3, TurnAssumption DEF OpenMatchesLog
  <2>3. \E t \in DOMAIN log' :
          /\ IsLast(TurnBounds, t)' /\ log'[t] = Event("turn/start", open'.turn, 0)
          /\ \A i \in DOMAIN log' : IF i < t THEN log'[i].turn < open'.turn ELSE log'[i].turn = open'.turn
    <3>1. PICK t \in DOMAIN log :
            /\ IsLast(TurnBounds, t) /\ log[t] = Event("turn/start", open.turn, 0)
            /\ \A i \in DOMAIN log : IF i < t THEN log[i].turn < open.turn ELSE log[i].turn = open.turn
      BY <1>1 DEF OpenMatchesLog
    <3> QED BY <1>1, <1>2, <1>3, <2>1, <3>1, AppendToLog
  <2>4. \A s \in DOMAIN log' : IsLast(StepBounds, s)' => log'[s].type # "step/start"
    BY <1>1, <1>2, <2>1
  <2> QED BY <1>3, <2>2, <2>3, <2>4 DEF OpenMatchesLog
<1>5. PendingMatchesLog'
  <2>1. DOMAIN open'.pending = {} /\ open'.turn = open.turn
    BY <1>3 DEF OpenMatchesLog
  <2>2. \A i \in DOMAIN log' : log'[i].type = "assistant/message" => i \in DOMAIN log /\ log'[i] = log[i]
    BY <1>1, <1>2, AppendToLog
  <2>3. \A call : Answered(call) => Answered(call)'
    BY <1>1, <1>2, AnsweredAfterAppend
  <2>4. ASSUME NEW i \in DOMAIN log, log[i].type = "assistant/message", log[i].turn = open.turn,
               log[i].finish = "call", NEW n \in 1..log[i].calls
        PROVE  Answered(Call(log[i].turn, log[i].step, n))
    <3> SUFFICES ASSUME NEW j \in DOMAIN open.pending,
                        open.pending[j].call = Call(log[i].turn, log[i].step, n)
                 PROVE  FALSE
      BY <2>4 DEF PendingMatchesLog, PendingDistinct, PendingUnanswered, PendingAnnounced, WantedIsCovered
    <3>1. PICK k \in DOMAIN log : log[k].step = open.step /\ Announces(log[k], open.pending[j].call)
      BY DEF PendingMatchesLog, PendingDistinct, PendingUnanswered, PendingAnnounced, WantedIsCovered
    <3>2. log[i].step = open.step
      BY <3>1 DEF Announces, Call
    <3> QED BY <2>4, <3>2
  <2> QED BY <2>1, <2>2, <2>3, <2>4, ZenonT(30) DEF PendingMatchesLog, PendingDistinct, PendingUnanswered, PendingAnnounced, WantedIsCovered
<1>6. \E s \in DOMAIN log : IsLast(StepBounds, s) /\ log[s] = Event("step/start", e.turn, e.step)
  BY <1>1 DEF OpenMatchesLog
<1>7. log' \in Seq(LogEvents) /\ TurnNumbersIncrease' /\ ClosesMatch' /\ OneResultPerCall' /\ NotStartedNeverRan'
  BY <1>1, <1>2, <1>6, AppendToLog, TurnNumbersStep, ClosesMatchStep, OneResultStep, NotStartedStep
<1> QED BY <1>3, <1>4, <1>5, <1>7

\* An event inside the open step leaves its turn and step open.
LEMMA AppendInner ==
  ASSUME log \in Seq(LogEvents), OpenMatchesLog, open.step # 0,
         NEW e \in LogEvents, log' = Append(log, e),
         e.type \in {"assistant/message", "tool/call", "tool/result"}, e.turn = open.turn,
         NEW pending \in Seq(PendingCalls), open' = [open EXCEPT !.pending = pending]
  PROVE  OpenMatchesLog'
<1>1. /\ open.turn # 0 /\ open'.turn = open.turn /\ open'.step = open.step
      /\ open' \in [turn : 0..MaxTurns, step : 0..MaxSteps, pending : Seq(PendingCalls)]
  BY DEF OpenMatchesLog
<1>2. \A j : /\ IsLast(TurnBounds, j)' <=> IsLast(TurnBounds, j)
             /\ IsLast(StepBounds, j)' <=> IsLast(StepBounds, j)
  BY LastAfterAppend, ZenonT(30) DEF TurnBounds, StepBounds
<1>3. \E t \in DOMAIN log' :
        /\ IsLast(TurnBounds, t)' /\ log'[t] = Event("turn/start", open'.turn, 0)
        /\ \A i \in DOMAIN log' : IF i < t THEN log'[i].turn < open'.turn ELSE log'[i].turn = open'.turn
  <2>1. PICK t \in DOMAIN log :
          /\ IsLast(TurnBounds, t) /\ log[t] = Event("turn/start", open.turn, 0)
          /\ \A i \in DOMAIN log : IF i < t THEN log[i].turn < open.turn ELSE log[i].turn = open.turn
    BY <1>1 DEF OpenMatchesLog
  <2> QED BY <1>1, <1>2, <2>1, AppendToLog
<1>4. \E s \in DOMAIN log' :
        IsLast(StepBounds, s)' /\ log'[s] = Event("step/start", open'.turn, open'.step)
  <2>1. PICK s \in DOMAIN log : IsLast(StepBounds, s) /\ log[s] = Event("step/start", open.turn, open.step)
    BY DEF OpenMatchesLog
  <2> QED BY <1>1, <1>2, <2>1, AppendToLog
<1> QED BY <1>1, <1>3, <1>4, ZenonT(30) DEF OpenMatchesLog

\* The calls of an answer are pending, none of them started.
LEMMA AppendMessage ==
  ASSUME LogInv, open.step # 0, open.pending = <<>>, ran = {}, ran' = ran,
         NEW n \in 0..MaxCalls, NEW finish \in {"call", "stop", "max-tokens"},
         log' = Append(log, Message(open.turn, open.step, n, finish)),
         \A i \in DOMAIN log : log[i].type = "tool/result" =>
           ~(log[i].turn = open.turn /\ log[i].step = open.step)
  PROVE  /\ LogInv'
         /\ open' = [turn |-> open.turn, step |-> open.step, pending |->
              [i \in 1..n |->
                 [call |-> Call(open.turn, open.step, i), step |-> open.step, started |-> FALSE]]]
<1> DEFINE e == Message(open.turn, open.step, n, finish)
           new == [i \in 1..n |->
                     [call |-> Call(open.turn, open.step, i), step |-> open.step, started |-> FALSE]]
<1> USE DEF LogInv
<1>1. /\ e \in LogEvents /\ e.type = "assistant/message" /\ e.turn = open.turn /\ e.step = open.step
      /\ e.calls = n /\ e.finish = finish /\ open.turn # 0
  BY TurnAssumption DEF Message, LogEvents, OpenMatchesLog, Turns
<1>2. new \in Seq(PendingCalls) /\ Len(new) = n /\ DOMAIN new = 1..n
  <2>1. \A i \in 1..n : [call |-> Call(open.turn, open.step, i), step |-> open.step, started |-> FALSE]
                          \in PendingCalls
    BY <1>1 DEF PendingCalls, Call, Calls, OpenMatchesLog
  <2> QED BY <2>1
<1> HIDE DEF e
<1>3. log' = Append(log, e) /\ log'[Len(log) + 1] = e
  BY <1>1, AppendToLog DEF e
<1>4. open' = [open EXCEPT !.pending = new]
  <2>1. open' = [open EXCEPT !.pending = open.pending \o
                   [i \in 1..n |-> [call |-> Call(e.turn, e.step, i), step |-> e.step, started |-> FALSE]]]
    BY <1>1, <1>3, AppendToLog DEF Scan, OpenMatchesLog
  <2>2. open.pending \o new = new
    BY <1>2
  <2> QED BY <1>1, <2>1, <2>2
<1>5. /\ open'.pending = new /\ open'.turn = open.turn /\ open'.step = open.step
      /\ open' = [turn |-> open.turn, step |-> open.step, pending |-> new]
  BY <1>4, ZenonT(30) DEF OpenMatchesLog
<1>6. OpenMatchesLog'
  <2> HIDE DEF new
  <2> QED BY <1>1, <1>2, <1>3, <1>4, AppendInner
<1>7. \A call : Answered(call)' <=> Answered(call)
  BY <1>1, <1>3, AnsweredAfterAppend
<1>8. \A i \in 1..n : ~ Answered(Call(open.turn, open.step, i))
  <2> SUFFICES ASSUME NEW i \in 1..n, NEW k \in DOMAIN log, log[k].type = "tool/result",
                      log[k].call = Call(open.turn, open.step, i)
               PROVE  FALSE
    BY DEF Answered
  <2>1. log[k].turn = open.turn /\ log[k].step = open.step
    BY DEF OneResultPerCall, Call
  <2> QED BY <2>1
<1>9. PendingMatchesLog'
  <2>1. \A j \in 1..n : new[j].call = Call(open.turn, open.step, j) /\ new[j].step = open.step
    OBVIOUS
  <2>2. \A j, k \in 1..n : new[j].call = new[k].call => j = k
    BY <2>1 DEF Call
  <2>3. \A j \in 1..n : \E i \in DOMAIN log' :
          /\ log'[i].turn = open'.turn /\ log'[i].step = open'.step
          /\ Announces(log'[i], new[j].call)
    <3>1. \A j \in 1..n : Announces(e, new[j].call)
      BY <1>1, <2>1 DEF Announces
    <3>2. Len(log) + 1 \in DOMAIN log'
      BY <1>1, <1>3, AppendToLog
    <3>3. log'[Len(log) + 1] = e /\ e.turn = open'.turn /\ e.step = open'.step
      BY <1>1, <1>3, <1>5, ZenonT(30)
    <3> QED BY <3>1, <3>2, <3>3, ZenonT(30)
  <2>4. ASSUME NEW i \in DOMAIN log', log'[i].type = "assistant/message", log'[i].turn = open'.turn,
               log'[i].finish = "call", NEW m \in 1..log'[i].calls
        PROVE  \/ Answered(Call(log'[i].turn, log'[i].step, m))
               \/ \E j \in DOMAIN new : new[j].call = Call(log'[i].turn, log'[i].step, m)
    <3>1. CASE i \in DOMAIN log
      <4>1. log'[i] = log[i]
        BY <1>1, <1>3, <3>1, AppendToLog
      <4>2. log[i].type = "assistant/message" /\ log[i].turn = open.turn /\ log[i].finish = "call"
            /\ m \in 1..log[i].calls
        BY <1>5, <2>4, <4>1, ZenonT(30)
      <4>3. WantedIsCovered
        BY ZenonT(30) DEF PendingMatchesLog
      <4>4. \/ Answered(Call(log[i].turn, log[i].step, m))
            \/ \E j \in DOMAIN open.pending : open.pending[j].call = Call(log[i].turn, log[i].step, m)
        BY <3>1, <4>2, <4>3, ZenonT(30) DEF WantedIsCovered
      <4>5. DOMAIN open.pending = {}
        OBVIOUS
      <4> QED BY <4>1, <4>4, <4>5, ZenonT(30)
    <3>2. CASE i = Len(log) + 1
      BY <1>1, <1>2, <1>3, <2>1, <2>4, <3>2
    <3>3. i \in DOMAIN log \/ i = Len(log) + 1
      BY <1>1, <1>3, AppendToLog
    <3> QED BY <3>1, <3>2, <3>3
  <2>5. (\A j \in DOMAIN open.pending :
           /\ open.pending[j].step = open.step
           /\ ~ Answered(open.pending[j].call)
           /\ open.pending[j].call \notin ran)'
    BY <1>2, <1>5, <1>7, <1>8, <2>1
  <2>6. (\A i \in DOMAIN log :
           log[i].type = "assistant/message" /\ log[i].turn = open.turn /\ log[i].finish = "call" =>
             \A m \in 1..log[i].calls :
               \/ Answered(Call(log[i].turn, log[i].step, m))
               \/ \E j \in DOMAIN open.pending :
                    open.pending[j].call = Call(log[i].turn, log[i].step, m))'
    <3> HIDE DEF new
    <3> QED BY <1>5, <1>7, <2>4, ZenonT(30)
  <2> HIDE DEF new
  <2> QED BY <1>2, <1>5, <2>2, <2>3, <2>5, <2>6, ZenonT(30) DEF PendingMatchesLog, PendingDistinct, PendingUnanswered, PendingAnnounced, WantedIsCovered
<1>10. log' \in Seq(LogEvents) /\ TurnNumbersIncrease' /\ ClosesMatch' /\ OneResultPerCall' /\ NotStartedNeverRan'
  BY <1>1, <1>3, AppendToLog, TurnNumbersStep, ClosesMatchStep, OneResultStep, NotStartedStep
<1> QED BY <1>5, <1>6, <1>9, <1>10

\* A recorded call is marked as started.
LEMMA AppendToolCall ==
  ASSUME LogInv, ran' = ran, NEW k \in DOMAIN open.pending,
         log' = Append(log, ToolCallEvent(open.turn, open.step, open.pending[k].call))
  PROVE  /\ LogInv'
         /\ open' = [open EXCEPT !.pending = [@ EXCEPT ![k].started = TRUE]]
<1> DEFINE e == ToolCallEvent(open.turn, open.step, open.pending[k].call)
           new == [open.pending EXCEPT ![k].started = TRUE]
<1> USE DEF LogInv
<1>1. /\ e \in LogEvents /\ e.type = "tool/call" /\ e.turn = open.turn /\ e.step = open.step
      /\ e.call = open.pending[k].call /\ open.step # 0
  <2>1. /\ open.pending[k].call \in Calls /\ open.step \in 1..MaxSteps /\ open.turn \in Turns
    <3>1. open.pending \in Seq(PendingCalls) /\ open.pending[k] \in PendingCalls /\ open.pending # <<>>
      BY DEF OpenMatchesLog
    <3>2. open.step # 0 /\ open.turn # 0 /\ open.step \in 0..MaxSteps /\ open.turn \in 0..MaxTurns
      BY <3>1 DEF OpenMatchesLog
    <3> QED BY <3>1, <3>2, TurnAssumption DEF Turns, PendingCalls
  <2> QED BY <2>1 DEF ToolCallEvent, LogEvents
<1>2. /\ new \in Seq(PendingCalls) /\ DOMAIN new = DOMAIN open.pending
      /\ \A j \in DOMAIN new : /\ new[j].call = open.pending[j].call /\ new[j].step = open.pending[j].step
                               /\ open.pending[j].started => new[j].started
  <2>1. open.pending \in Seq(PendingCalls) /\ open.pending[k] \in PendingCalls
    BY DEF OpenMatchesLog
  <2>2. [open.pending[k] EXCEPT !.started = TRUE] \in PendingCalls
    BY <2>1, ZenonT(30) DEF PendingCalls
  <2> QED BY <2>1, <2>2 DEF PendingCalls
<1> HIDE DEF e
<1>3. log' = Append(log, e) /\ log'[Len(log) + 1] = e
  BY <1>1, AppendToLog DEF e
<1>4. open' = [open EXCEPT !.pending = new]
  <2>1. open' = [open EXCEPT !.pending = [i \in DOMAIN @ |->
                   IF @[i].call = e.call THEN [@[i] EXCEPT !.started = TRUE] ELSE @[i]]]
    BY <1>1, <1>3, AppendToLog DEF Scan
  <2>2. \A i \in DOMAIN open.pending : open.pending[i].call = e.call <=> i = k
    BY <1>1 DEF PendingMatchesLog, PendingDistinct, PendingUnanswered, PendingAnnounced, WantedIsCovered
  <2>3. new = [i \in DOMAIN open.pending |->
                 IF open.pending[i].call = e.call THEN [open.pending[i] EXCEPT !.started = TRUE]
                                                  ELSE open.pending[i]]
    BY <2>2, ZenonT(30)
  <2> QED BY <2>1, <2>3, ZenonT(30) DEF OpenMatchesLog
<1>5. open'.pending = new /\ open'.turn = open.turn /\ open'.step = open.step
  BY <1>4 DEF OpenMatchesLog
<1> HIDE DEF new
<1>6. OpenMatchesLog'
  BY <1>1, <1>2, <1>3, <1>4, AppendInner
<1>7. \A call : Answered(call)' <=> Answered(call)
  BY <1>1, <1>3, AnsweredAfterAppend
<1>8. PendingMatchesLog'
  <2>1. \A i \in DOMAIN log' : log'[i].type = "assistant/message" => i \in DOMAIN log /\ log'[i] = log[i]
    BY <1>1, <1>3, AppendToLog
  <2>2. \A i \in DOMAIN log : i \in DOMAIN log' /\ log'[i] = log[i]
    BY <1>1, <1>3, AppendToLog
  <2>3. PendingDistinct'
    BY <1>2, <1>5 DEF PendingMatchesLog, PendingDistinct
  <2>4. PendingUnanswered'
    BY <1>2, <1>5, <1>7 DEF PendingMatchesLog, PendingUnanswered
  <2>5. PendingAnnounced'
    BY <1>2, <1>5, <2>2, ZenonT(30) DEF PendingMatchesLog, PendingAnnounced
  <2>6. WantedIsCovered'
    <3> SUFFICES ASSUME NEW i \in DOMAIN log', log'[i].type = "assistant/message",
                        log'[i].turn = open'.turn, log'[i].finish = "call",
                        NEW n \in 1..log'[i].calls, NEW c, c = Call(log'[i].turn, log'[i].step, n)
                 PROVE  Answered(c)' \/ \E j \in DOMAIN new : new[j].call = c
      BY <1>5 DEF WantedIsCovered
    <3>1. Answered(c) \/ \E j \in DOMAIN open.pending : open.pending[j].call = c
      BY <1>5, <2>1 DEF PendingMatchesLog, WantedIsCovered
    <3> QED BY <1>2, <1>7, <3>1
  <2> QED BY <2>3, <2>4, <2>5, <2>6 DEF PendingMatchesLog
<1>9. log' \in Seq(LogEvents) /\ TurnNumbersIncrease' /\ ClosesMatch' /\ OneResultPerCall' /\ NotStartedNeverRan'
  BY <1>1, <1>3, AppendToLog, TurnNumbersStep, ClosesMatchStep, OneResultStep, NotStartedStep
<1> QED BY <1>4, <1>6, <1>8, <1>9 DEF new

\* A result takes the first pending call off the list.
LEMMA AppendToolResult ==
  ASSUME LogInv, ran' = ran, open.pending # <<>>,
         NEW outcome \in {"returned", "unknown", "not-started"},
         outcome = "not-started" => ~ open.pending[1].started,
         log' = Append(log, ToolResult(open.turn, open.step, open.pending[1].call, outcome))
  PROVE  /\ LogInv'
         /\ open' = [open EXCEPT !.pending = Tail(@)]
<1> DEFINE e == ToolResult(open.turn, open.step, open.pending[1].call, outcome)
           new == Tail(open.pending)
<1> USE DEF LogInv
<1>1. open.pending \in Seq(PendingCalls) /\ 1 \in DOMAIN open.pending /\ open.pending[1] \in PendingCalls
  BY DEF OpenMatchesLog
<1>2. /\ e \in LogEvents /\ e.type = "tool/result" /\ e.turn = open.turn /\ e.step = open.step
      /\ e.call = open.pending[1].call /\ e.outcome = outcome /\ open.step # 0
  BY <1>1, TurnAssumption DEF ToolResult, LogEvents, OpenMatchesLog, Turns, PendingCalls
<1>3. /\ new \in Seq(PendingCalls) /\ Len(open.pending) \in Nat
      /\ DOMAIN open.pending = 1..Len(open.pending) /\ DOMAIN new = 1..(Len(open.pending) - 1)
      /\ \A j \in DOMAIN new : j + 1 \in DOMAIN open.pending /\ new[j] = open.pending[j + 1]
  BY <1>1
<1> HIDE DEF e, new
<1>4. log' = Append(log, e) /\ log'[Len(log) + 1] = e
  BY <1>2, AppendToLog DEF e
<1>5. open' = [open EXCEPT !.pending = new]
  <2>1. open' = [open EXCEPT !.pending = WithoutCall(@, e.call)]
    BY <1>2, <1>4, AppendToLog DEF Scan
  <2>2. WithoutCall(open.pending, e.call) = new
    <3>1. \A i \in DOMAIN open.pending : open.pending[i].call = e.call => i = 1
      BY <1>2, <1>3 DEF PendingMatchesLog, PendingDistinct
    <3> QED BY <1>1, <1>2, <3>1, RemoveHead, ZenonT(30) DEF new
  <2> QED BY <2>1, <2>2 DEF OpenMatchesLog
<1>6. open'.pending = new /\ open'.turn = open.turn /\ open'.step = open.step
  BY <1>5 DEF OpenMatchesLog
<1>7. OpenMatchesLog'
  BY <1>2, <1>3, <1>4, <1>5, AppendInner
<1>8. \A call : Answered(call)' <=> Answered(call) \/ call = open.pending[1].call
  BY <1>2, <1>4, AnsweredAfterAppend
<1>9. PendingMatchesLog'
  <2>1. \A i \in DOMAIN log' : log'[i].type = "assistant/message" => i \in DOMAIN log /\ log'[i] = log[i]
    BY <1>2, <1>4, AppendToLog
  <2>2. \A i \in DOMAIN log : i \in DOMAIN log' /\ log'[i] = log[i]
    BY <1>2, <1>4, AppendToLog
  <2>3. \A j \in DOMAIN new : \A m \in DOMAIN open.pending : new[j].call = open.pending[m].call => m = j + 1
    BY <1>3 DEF PendingMatchesLog, PendingDistinct
  <2>4. PendingDistinct'
    <3> SUFFICES ASSUME NEW j \in DOMAIN new, NEW k \in DOMAIN new, new[j].call = new[k].call
                 PROVE  j = k
      BY <1>6 DEF PendingDistinct
    <3>1. k + 1 = j + 1
      BY <1>3, <2>3, ZenonT(30)
    <3> QED BY <1>3, <3>1
  <2>5. PendingUnanswered'
    <3>1. ASSUME NEW j \in DOMAIN new PROVE new[j].call # open.pending[1].call
      <4>1. j \in Nat /\ j + 1 # 1
        BY <1>3
      <4> QED BY <1>1, <2>3, <4>1
    <3> QED BY <1>3, <1>6, <1>8, <3>1, ZenonT(30) DEF PendingMatchesLog, PendingUnanswered
  <2>6. PendingAnnounced'
    <3> SUFFICES ASSUME NEW j \in DOMAIN new
                 PROVE  \E i \in DOMAIN log' :
                          /\ log'[i].turn = open.turn /\ log'[i].step = open.step
                          /\ Announces(log'[i], new[j].call)
      BY <1>6 DEF PendingAnnounced
    <3>1. PICK i \in DOMAIN log : /\ log[i].turn = open.turn /\ log[i].step = open.step
                                  /\ Announces(log[i], open.pending[j + 1].call)
      BY <1>3 DEF PendingMatchesLog, PendingAnnounced
    <3> QED BY <1>3, <2>2, <3>1
  <2>7. WantedIsCovered'
    <3> SUFFICES ASSUME NEW i \in DOMAIN log', log'[i].type = "assistant/message",
                        log'[i].turn = open'.turn, log'[i].finish = "call",
                        NEW n \in 1..log'[i].calls, NEW c, c = Call(log'[i].turn, log'[i].step, n)
                 PROVE  Answered(c)' \/ \E j \in DOMAIN new : new[j].call = c
      BY <1>6 DEF WantedIsCovered
    <3>1. Answered(c) \/ \E j \in DOMAIN open.pending : open.pending[j].call = c
      BY <1>6, <2>1 DEF PendingMatchesLog, WantedIsCovered
    <3>2. ASSUME NEW j \in DOMAIN open.pending, j # 1
          PROVE  j - 1 \in DOMAIN new /\ new[j - 1] = open.pending[j]
      <4>1. j - 1 \in DOMAIN new /\ (j - 1) + 1 = j
        BY <1>3, <3>2
      <4>2. new[j - 1] = open.pending[(j - 1) + 1]
        BY <1>3, <4>1
      <4> QED BY <4>1, <4>2
    <3> QED BY <1>8, <3>1, <3>2, ZenonT(30)
  <2> QED BY <2>4, <2>5, <2>6, <2>7 DEF PendingMatchesLog
<1>10. /\ ~ Answered(e.call)
       /\ \E j \in DOMAIN log : Announces(log[j], e.call) /\ log[j].turn = e.turn /\ log[j].step = e.step
       /\ outcome = "not-started" => e.call \notin ran
  BY <1>1, <1>2 DEF PendingMatchesLog, PendingDistinct, PendingUnanswered, PendingAnnounced, WantedIsCovered
<1>11. log' \in Seq(LogEvents) /\ TurnNumbersIncrease' /\ ClosesMatch' /\ OneResultPerCall' /\ NotStartedNeverRan'
  BY <1>2, <1>4, <1>10, AppendToLog, TurnNumbersStep, ClosesMatchStep, OneResultStep, NotStartedStep, ZenonT(30)
<1> QED BY <1>5, <1>7, <1>9, <1>11 DEF new

-----------------------------------------------------------------------------
(* Restoration: appending the first closer leaves the others to append, so   *)
(* a restoration that starts over goes on where the last one stopped.        *)

Openings == [turn : Turns, step : 0..MaxSteps, pending : Seq(PendingCalls)]

\* The closers of an open turn: a result for the first unanswered call comes
\* first, then the others; then the step's end, then the turn's.
LEMMA ClosersSplit ==
  ASSUME NEW o \in Openings, \A j \in DOMAIN o.pending : o.pending[j].step = o.step
  PROVE  /\ ClosersOf(o) \in Seq(LogEvents) /\ ClosersOf(o) # <<>>
         /\ o.pending # <<>> =>
              /\ Head(ClosersOf(o)) = ResultFor(o, o.pending[1])
              /\ Tail(ClosersOf(o)) = ClosersOf([o EXCEPT !.pending = Tail(@)])
         /\ o.pending = <<>> /\ o.step # 0 =>
              /\ Head(ClosersOf(o)) = Event("step/end", o.turn, o.step)
              /\ Tail(ClosersOf(o)) = <<Event("turn/end", o.turn, 0)>>
         /\ o.pending = <<>> /\ o.step = 0 => ClosersOf(o) = <<Event("turn/end", o.turn, 0)>>
<1> DEFINE R == [i \in DOMAIN o.pending |-> ResultFor(o, o.pending[i])]
           E == Event("turn/end", o.turn, 0)
           B == StepEnd(o) \o <<E>>
<1>1. /\ o.pending \in Seq(PendingCalls) /\ DOMAIN o.pending = 1..Len(o.pending) /\ Len(o.pending) \in Nat
      /\ \A i \in DOMAIN o.pending : o.pending[i] \in PendingCalls
      /\ o.turn \in Turns /\ o.turn # 0 /\ o.step \in 0..MaxSteps
  BY DEF Openings, Turns
<1>2. \A i \in DOMAIN o.pending : ResultFor(o, o.pending[i]) \in LogEvents
  BY <1>1, ZenonT(30) DEF ResultFor, ToolResult, LogEvents, PendingCalls
<1>3. R \in Seq(LogEvents) /\ Len(R) = Len(o.pending)
  BY <1>1, <1>2
<1>4. E \in LogEvents /\ StepEnd(o) \in Seq(LogEvents)
  <2>1. E \in LogEvents
    BY <1>1, TurnAssumption DEF Event, LogEvents
  <2>2. Event("step/end", o.turn, o.step) \in LogEvents
    BY <1>1 DEF Event, LogEvents
  <2> QED BY <2>1, <2>2 DEF StepEnd
<1>5. B \in Seq(LogEvents) /\ B # <<>>
  BY <1>4
<1>6. ClosersOf(o) = R \o B
  <2>1. ClosersOf(o) = (R \o StepEnd(o)) \o <<E>>
    BY <1>1 DEF ClosersOf
  <2> HIDE DEF R, E
  <2>2. <<E>> \in Seq(LogEvents)
    BY <1>4
  <2> QED BY <1>3, <1>4, <2>1, <2>2, ConcatAssociative
<1>7. ClosersOf(o) \in Seq(LogEvents) /\ ClosersOf(o) # <<>>
  <2> HIDE DEF R, B
  <2> QED BY <1>3, <1>5, <1>6
<1>8. ASSUME o.pending # <<>>, NEW q, q = [o EXCEPT !.pending = Tail(@)]
      PROVE  /\ Head(ClosersOf(o)) = ResultFor(o, o.pending[1])
             /\ Tail(ClosersOf(o)) = ClosersOf(q)
  <2> DEFINE Q == [i \in DOMAIN q.pending |-> ResultFor(q, q.pending[i])]
  <2>1. Len(R) # 0 /\ R # <<>> /\ R[1] = ResultFor(o, o.pending[1])
    BY <1>1, <1>3, <1>8
  <2>2. Head(R \o B) = R[1] /\ Tail(R \o B) = Tail(R) \o B
    <3> HIDE DEF R, B
    <3> QED BY <1>3, <1>5, <2>1
  <2>3. /\ q.pending = Tail(o.pending) /\ q.turn = o.turn /\ q.step = o.step
    BY <1>8 DEF Openings
  <2>4. Tail(R) = Q
    <3>1. /\ DOMAIN q.pending = 1..(Len(o.pending) - 1) /\ Len(o.pending) - 1 \in Nat
          /\ \A i \in 1..(Len(o.pending) - 1) : i + 1 \in DOMAIN o.pending /\ q.pending[i] = o.pending[i + 1]
      BY <1>1, <1>8, <2>3
    <3>2. Tail(R) \in Seq(LogEvents) /\ DOMAIN Tail(R) = 1..(Len(o.pending) - 1)
          /\ \A i \in 1..(Len(o.pending) - 1) : Tail(R)[i] = R[i + 1]
      <4> HIDE DEF R
      <4> QED BY <1>1, <1>3, <2>1
    <3>3. \A i \in 1..(Len(o.pending) - 1) : R[i + 1] = Q[i]
      BY <2>3, <3>1 DEF ResultFor
    <3>4. DOMAIN Q = 1..(Len(o.pending) - 1) /\ Q = [i \in DOMAIN q.pending |-> Q[i]]
      BY <3>1
    <3>5. Q \in Seq(LogEvents) 
      BY <1>2, <2>3, <3>1, <3>4 DEF ResultFor
    <3> HIDE DEF R, Q
    <3> QED BY <3>1, <3>2, <3>3, <3>4, <3>5, SeqEqual, LenProperties, ZenonT(30)
  <2>5. Q \in Seq(LogEvents)
    <3> HIDE DEF R, Q
    <3> QED BY <1>3, <2>1, <2>4
  <2>6. ClosersOf(q) = Q \o B
    <3>1. ClosersOf(q) = (Q \o StepEnd(o)) \o <<E>>
      <4>1. StepEnd(q) = StepEnd(o) /\ Event("turn/end", q.turn, 0) = E
        BY <2>3 DEF StepEnd
      <4>2. ClosersOf(q) = (Q \o StepEnd(q)) \o <<Event("turn/end", q.turn, 0)>>
        BY <1>1, <2>3, ZenonT(30) DEF ClosersOf
      <4> HIDE DEF Q, E
      <4> QED BY <4>1, <4>2
    <3> HIDE DEF Q, E
    <3>2. <<E>> \in Seq(LogEvents)
      BY <1>4
    <3> QED BY <1>4, <2>5, <3>1, <3>2, ConcatAssociative
  <2> HIDE DEF R, B, Q
  <2> QED BY <1>6, <2>1, <2>2, <2>4, <2>6, ZenonT(30)
<1>9. ASSUME o.pending = <<>>, o.step # 0
      PROVE  /\ Head(ClosersOf(o)) = Event("step/end", o.turn, o.step)
             /\ Tail(ClosersOf(o)) = <<E>>
  <2> DEFINE F == Event("step/end", o.turn, o.step)
  <2>1. R = <<>> /\ B = <<F>> \o <<E>>
    BY <1>1, <1>9 DEF StepEnd
  <2> HIDE DEF R, B, E, F
  <2>2. /\ <<F>> \in Seq({F, E}) /\ <<E>> \in Seq({F, E})
        /\ Len(<<F>>) = 1 /\ <<F>>[1] = F /\ Tail(<<F>>) = <<>>
    OBVIOUS
  <2>3. ClosersOf(o) = <<F>> \o <<E>>
    BY <1>5, <1>6, <2>1
  <2>4. Head(<<F>> \o <<E>>) = <<F>>[1] /\ Tail(<<F>> \o <<E>>) = Tail(<<F>>) \o <<E>>
    BY <2>2
  <2>5. <<>> \o <<E>> = <<E>>
    BY <2>2, ConcatEmptySeq
  <2>6. Head(ClosersOf(o)) = F /\ Tail(ClosersOf(o)) = <<E>>
    <3> HIDE DEF E, F
    <3>1. Tail(<<F>> \o <<E>>) = <<E>>
      BY ONLY <2>2, <2>4, <2>5, ZenonT(30)
    <3>2. Head(<<F>> \o <<E>>) = F
      BY ONLY <2>2, <2>4
    <3> QED BY <2>3, <3>1, <3>2, ZenonT(30)
  <2> QED BY <2>6 DEF F
<1>10. ASSUME o.pending = <<>>, o.step = 0 PROVE ClosersOf(o) = <<E>>
  <2>1. R = <<>> /\ B = <<E>>
    BY <1>1, <1>10 DEF StepEnd
  <2> HIDE DEF R, B
  <2> QED BY <1>5, <1>6, <2>1
<1> QED BY <1>7, <1>8, <1>9, <1>10

\* One append of a cold restoration keeps the log's invariant, and what it has
\* yet to append is what a restoration that starts over would append.
LEMMA AppendCloser ==
  ASSUME LogInv, open.turn # 0, ran' = ran, log' = Append(log, Head(ClosersOf(open)))
  PROVE  /\ LogInv'
         /\ Head(ClosersOf(open)) \in LogEvents /\ Head(ClosersOf(open)).turn = open.turn
         /\ ClosersOf(open)' = Tail(ClosersOf(open))
         /\ Len(ClosersOf(open)) \in Nat \ {0}
         /\ Len(ClosersOf(open)) = 1 <=> open.step = 0
         /\ Len(ClosersOf(open)) = 1 <=> Tail(ClosersOf(open)) = <<>>
         /\ Len(ClosersOf(open)) = 1 => ClosersOf(open) = <<Event("turn/end", open.turn, 0)>>
<1> DEFINE C == ClosersOf(open)
<1>1. /\ open \in Openings /\ open.turn \in Turns /\ open.step \in 0..MaxSteps
      /\ open.pending \in Seq(PendingCalls) /\ (open.step = 0 => open.pending = <<>>)
  BY DEF LogInv, OpenMatchesLog, Openings, Turns
<1>2. \A j \in DOMAIN open.pending : open.pending[j].step = open.step
  BY DEF LogInv, PendingMatchesLog, PendingUnanswered
<1>3. /\ C \in Seq(LogEvents) /\ C # <<>> /\ Len(C) \in Nat \ {0}
      /\ Len(C) = 1 <=> Tail(C) = <<>>
  <2>1. C \in Seq(LogEvents) /\ C # <<>>
    BY <1>1, <1>2, ClosersSplit, ZenonT(30)
  <2> HIDE DEF C, LogEvents
  <2>2. Len(C) \in Nat /\ Len(C) # 0
    BY <2>1, EmptySeq
  <2>3. Tail(C) \in Seq(LogEvents) /\ Len(Tail(C)) = Len(C) - 1
    BY <2>1
  <2>4. Len(Tail(C)) = 0 <=> Tail(C) = <<>>
    BY <2>3, EmptySeq, ZenonT(30)
  <2> QED BY <2>1, <2>2, <2>3, <2>4
<1>4. C[1] \in LogEvents /\ Head(C) = C[1]
  <2> HIDE DEF C, LogEvents
  <2> QED BY <1>3, ElementOfSeq
<1>5. CASE open.pending # <<>>
  <2> DEFINE p == open.pending[1]
             outcome == IF p.started THEN "unknown" ELSE "not-started"
  <2>1. 1 \in DOMAIN open.pending /\ p \in PendingCalls
    BY <1>1, <1>5
  <2>2. /\ Head(C) = ResultFor(open, p)
        /\ Tail(C) = ClosersOf([open EXCEPT !.pending = Tail(@)])
    BY <1>1, <1>2, <1>5, ClosersSplit, ZenonT(30)
  <2>3. Head(C) = ToolResult(open.turn, open.step, p.call, outcome)
    BY <1>2, <2>1, <2>2 DEF ResultFor
  <2>4. outcome \in {"returned", "unknown", "not-started"} /\ (outcome = "not-started" => ~ p.started)
    BY <2>1 DEF PendingCalls
  <2> HIDE DEF outcome
  <2>5. LogInv' /\ open' = [open EXCEPT !.pending = Tail(@)]
    BY <1>5, <2>3, <2>4, AppendToolResult
  <2>6. ClosersOf(open)' = ClosersOf(open')
    BY ZenonT(30) DEF ClosersOf, ResultFor, StepEnd, ToolResult, Event
  <2>7. ClosersOf(open)' = Tail(C)
    BY <2>2, <2>5, <2>6, ZenonT(30)
  <2>8. [open EXCEPT !.pending = Tail(@)] \in Openings
    <3>1. Tail(open.pending) \in Seq(PendingCalls)
      BY <1>1, <1>5
    <3> QED BY <1>1, <3>1, ZenonT(30) DEF Openings
  <2>9. \A j \in DOMAIN Tail(open.pending) : Tail(open.pending)[j].step = open.step
    BY <1>1, <1>2, <1>5
  <2>10. Tail(C) # <<>>
    <3> DEFINE q == [open EXCEPT !.pending = Tail(@)]
    <3>1. q.pending = Tail(open.pending) /\ q.step = open.step
      BY <1>1 DEF Openings
    <3> HIDE DEF q
    <3>2. q \in Openings /\ \A j \in DOMAIN q.pending : q.pending[j].step = q.step
      BY <2>8, <2>9, <3>1 DEF q
    <3>3. ClosersOf(q) # <<>>
      BY <3>2, ClosersSplit, ZenonT(30)
    <3> QED BY <2>2, <3>3, ZenonT(30) DEF q
  <2>11. Len(C) # 1 /\ open.step # 0
    BY <1>1, <1>3, <1>5, <2>10, ZenonT(30)
  <2>12. Head(C).turn = open.turn
    BY <2>3 DEF ToolResult
  <2> QED BY <1>3, <1>4, <2>5, <2>7, <2>11, <2>12, ZenonT(30)
<1>6. CASE open.pending = <<>> /\ open.step # 0
  <2>1. /\ Head(C) = Event("step/end", open.turn, open.step)
        /\ Tail(C) = <<Event("turn/end", open.turn, 0)>>
    BY <1>1, <1>2, <1>6, ClosersSplit, ZenonT(30)
  <2>2. LogInv' /\ open' = [turn |-> open.turn, step |-> 0, pending |-> <<>>]
    BY <1>6, <2>1, AppendStepEnd
  <2> DEFINE q == [turn |-> open.turn, step |-> 0, pending |-> <<>>]
  <2>3. ClosersOf(q) = <<Event("turn/end", open.turn, 0)>>
    <3>1. /\ q \in Openings /\ q.pending = <<>> /\ q.step = 0 /\ q.turn = open.turn
          /\ \A j \in DOMAIN q.pending : q.pending[j].step = q.step
      BY <1>1, TurnAssumption DEF Openings
    <3> HIDE DEF q
    <3> QED BY <3>1, ClosersSplit, ZenonT(30)
  <2>4. ClosersOf(open)' = ClosersOf(open')
    BY ZenonT(30) DEF ClosersOf, ResultFor, StepEnd, ToolResult, Event
  <2>5. ClosersOf(open)' = Tail(C)
    BY <2>1, <2>2, <2>3, <2>4, ZenonT(30)
  <2>6. Len(C) # 1
    <3>1. <<Event("turn/end", open.turn, 0)>> # <<>>
      OBVIOUS
    <3> QED BY <1>3, <2>1, <3>1, ZenonT(30)
  <2>7. Head(C).turn = open.turn
    BY <2>1 DEF Event
  <2> QED BY <1>3, <1>6, <1>4, <2>2, <2>5, <2>6, <2>7
<1>7. CASE open.pending = <<>> /\ open.step = 0
  <2>1. C = <<Event("turn/end", open.turn, 0)>>
    BY <1>1, <1>2, <1>7, ClosersSplit, ZenonT(30)
  <2>2. Head(C) = Event("turn/end", open.turn, 0) /\ Tail(C) = <<>> /\ Len(C) = 1
    BY <2>1
  <2>3. LogInv' /\ open' = NothingOpen
    BY <1>7, <2>2, AppendTurnEnd
  <2>4. ClosersOf(NothingOpen) = <<>>
    BY DEF ClosersOf, NothingOpen
  <2>5. ClosersOf(open)' = ClosersOf(open')
    BY ZenonT(30) DEF ClosersOf, ResultFor, StepEnd, ToolResult, Event
  <2>6. Head(C).turn = open.turn
    BY <2>2 DEF Event
  <2> QED BY <1>3, <1>7, <1>4, <2>1, <2>2, <2>3, <2>4, <2>5, <2>6
<1> QED BY <1>5, <1>6, <1>7

\* An append of the open turn, or of a new one, belongs to a started turn.
LEMMA TurnsStartedStep ==
  ASSUME log \in Seq(LogEvents), NEW e \in LogEvents, log' = Append(log, e), TurnsStarted,
         OpenMatchesLog, e.type = "turn/start" \/ (open.turn # 0 /\ e.turn = open.turn)
  PROVE  TurnsStarted'
<1>1. PICK j \in DOMAIN log' : log'[j].type = "turn/start" /\ log'[j].turn = e.turn
  <2>1. CASE e.type = "turn/start"
    BY <2>1, AppendToLog
  <2>2. CASE open.turn # 0 /\ e.turn = open.turn
    <3>1. PICK t \in DOMAIN log : log[t] = Event("turn/start", open.turn, 0)
      BY <2>2 DEF OpenMatchesLog
    <3>2. t \in DOMAIN log' /\ log'[t] = log[t]
      BY AppendToLog
    <3> QED BY <2>2, <3>1, <3>2 DEF Event
  <2> QED BY <2>1, <2>2
<1> SUFFICES ASSUME NEW i \in DOMAIN log'
             PROVE  \E k \in DOMAIN log' : log'[k].type = "turn/start" /\ log'[k].turn = log'[i].turn
  BY DEF TurnsStarted
<1>2. CASE i \in DOMAIN log
  <2>1. PICK k \in DOMAIN log : log[k].type = "turn/start" /\ log[k].turn = log[i].turn
    BY <1>2 DEF TurnsStarted
  <2> QED BY <1>2, <2>1, AppendToLog
<1>3. CASE i = Len(log) + 1
  BY <1>1, <1>3, AppendToLog
<1> QED BY <1>2, <1>3, AppendToLog

\* A new turn gets a number no event of the log has.
LEMMA NextTurnIsNew ==
  ASSUME log \in Seq(LogEvents), TurnsStarted
  PROVE  NextTurn \in Nat \ {0} /\ \A i \in DOMAIN log : log[i].turn < NextTurn
<1> DEFINE T == {0} \cup {log[i].turn : i \in {j \in DOMAIN log : log[j].type = "turn/start"}}
<1>1. \A i \in DOMAIN log : log[i].turn \in Turns
  BY DEF LogEvents
<1>2. T \in SUBSET (0..MaxTurns) /\ T \in SUBSET Nat /\ T # {}
  BY <1>1, TurnAssumption DEF Turns
<1>3. \A i \in DOMAIN log : log[i].turn \in T
  BY DEF TurnsStarted
<1> HIDE DEF T
<1>4. PICK x \in T : \A y \in T : y <= x
  BY <1>2, GreatestNatural, TurnAssumption, ZenonT(30)
<1>5. Max(T) = x
  BY <1>2, <1>4, MaxIs
<1>6. NextTurn = x + 1
  BY <1>5 DEF NextTurn, T
<1>7. \A i \in DOMAIN log : log[i].turn < x + 1
  BY <1>2, <1>3, <1>4
<1> QED BY <1>2, <1>4, <1>6, <1>7

\* What of the log's invariant a step that appends nothing cannot disturb.
LEMMA LogStays ==
  ASSUME LogInv, log' = log
  PROVE  /\ open' = open /\ log' \in Seq(LogEvents)
         /\ TurnNumbersIncrease' /\ ClosesMatch' /\ OneResultPerCall'
         /\ OpenMatchesLog' /\ PendingDistinct' /\ PendingAnnounced' /\ WantedIsCovered'
<1>1. open' = open
  BY DEF open
<1>2. TurnNumbersIncrease' /\ OneResultPerCall'
  BY DEF LogInv, TurnNumbersIncrease, OneResultPerCall
<1>3. ClosesMatch'
  <2>1. \A types, i : LastOf(types, i)' = LastOf(types, i)
    BY DEF LastOf
  <2> QED BY <2>1, ZenonT(30) DEF LogInv, ClosesMatch, Event
<1>4. OpenMatchesLog'
  BY <1>1 DEF LogInv, OpenMatchesLog, IsLast
<1>5. PendingDistinct' /\ PendingAnnounced'
  BY <1>1 DEF LogInv, PendingMatchesLog, PendingDistinct, PendingAnnounced, Announces
<1>6. WantedIsCovered'
  BY <1>1 DEF LogInv, PendingMatchesLog, WantedIsCovered, Answered
<1> QED BY <1>1, <1>2, <1>3, <1>4, <1>5, <1>6 DEF LogInv
=============================================================================
