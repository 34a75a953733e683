------------------------ MODULE AgentQueueInvariant ------------------------
(***************************************************************************)
(* Proofs about AgentQueue, for every value of its constants: any number   *)
(* of senders and messages, any bounds, serial or concurrent.              *)
(*                                                                         *)
(* AtMostOnce is not inductive.  That a message is not in two places       *)
(* depends on who still holds it: a send in progress, a queue update that  *)
(* reserved it, the driver's claim, the turn it runs.  The inductive       *)
(* invariant IInv says where a message may be while one of them has it:    *)
(*                                                                         *)
(*   OncePerPlace, OnePlace  the queues, the claim, the turn and the       *)
(*                           transcript share no message                   *)
(*   ClaimIsHeld             what the driver claimed is reserved           *)
(*   UpdateIsHeld            what an update works on is reserved, and in   *)
(*                           no claim, turn or transcript                  *)
(*   SendersApart            what a send has not delivered is nowhere else *)
(*   UnsentIsNowhere         a message no one sent is nowhere              *)
(*   OneContent              the copies of a message agree, up to an edit  *)
(*                           in its commit                                 *)
(*                                                                         *)
(* One lemma per action shows that the action keeps IInv; Fewer covers     *)
(* the many that only take entries away.  The actions of the senders, of   *)
(* cancellation and disposal and the simple ones of the driver and of an   *)
(* update are here; claims, posts and commits, and the theorems, are in    *)
(* AgentQueueProofs.                                                       *)
(***************************************************************************)
EXTENDS AgentQueue, SequenceTheorems, WellFoundedInduction, TLAPS

\* Time, and further attempts, for a leaf on a loaded machine.
USE SMTT(30), ZenonT(30), SMTT(40), SMTT(50), SMTT(60)

-----------------------------------------------------------------------------
(* Natural numbers and filtered sequences.  The lemmas speak of sets rather  *)
(* than of predicates, so that the provers can instantiate them: induction   *)
(* over a property P is NatSetInduction with {n \in Nat : P(n)}.             *)

\* Every nonempty set of naturals has a least element.
LEMMA LeastNatural ==
  ASSUME NEW T \in SUBSET Nat, T # {}
  PROVE  \E x \in T : \A y \in T : x <= y
<1> DEFINE R == {p \in Nat \X Nat : p[1] < p[2]}
<1>1. IsWellFoundedOn(R, Nat)
  BY NatLessThanWellFounded DEF OpToRel
<1>2. PICK x \in T : \A y \in T : <<y, x>> \notin R
  <2> HIDE DEF R
  <2> QED BY <1>1, WFMin, ZenonT(30)
<1>3. ASSUME NEW y \in T PROVE x <= y
  <2>1. x \in Nat /\ y \in Nat /\ <<y, x>> \in Nat \X Nat
    OBVIOUS
  <2>2. ~ (y < x)
    <3> SUFFICES ASSUME y < x PROVE <<y, x>> \in R
      BY <1>2
    <3> DEFINE p == <<y, x>>
    <3>1. p[1] = y /\ p[2] = x
      OBVIOUS
    <3> QED BY <2>1, <3>1
  <2> QED BY <2>1, <2>2
<1> QED BY <1>2, <1>3

\* Induction over the natural numbers.
LEMMA NatSetInduction ==
  ASSUME NEW S, 0 \in S, \A n \in Nat : n \in S => n + 1 \in S
  PROVE  \A n \in Nat : n \in S
<1> SUFFICES ASSUME Nat \ S # {} PROVE FALSE
  OBVIOUS
<1>1. PICK x \in Nat \ S : \A y \in Nat \ S : x <= y
  BY LeastNatural, ZenonT(30)
<1>2. x - 1 \in Nat /\ x - 1 \in S
  BY <1>1
<1> QED BY <1>1, <1>2

\* f holds the filtered prefixes of s, up to length n.
IsFilter(f, s, S, n) ==
  f = [i \in 0..n |->
         IF i = 0 THEN <<>> ELSE IF s[i] \in S THEN Append(f[i - 1], s[i]) ELSE f[i - 1]]

\* The filtered prefixes exist up to any length.
LEMMA FilterExists ==
  ASSUME NEW s, NEW S, NEW n \in Nat
  PROVE  \E f : IsFilter(f, s, S, n)
<1> DEFINE D == {m \in Nat : \E f : IsFilter(f, s, S, m)}
<1>1. 0 \in D
  <2> DEFINE f == [i \in 0..0 |-> <<>>]
  <2>1. IsFilter(f, s, S, 0)
    BY DEF IsFilter
  <2> QED BY <2>1
<1>2. ASSUME NEW m \in Nat, m \in D PROVE m + 1 \in D
  <2>1. PICK f : IsFilter(f, s, S, m)
    BY <1>2
  <2> DEFINE last == IF s[m + 1] \in S THEN Append(f[m], s[m + 1]) ELSE f[m]
             g == [i \in 0..(m + 1) |-> IF i = m + 1 THEN last ELSE f[i]]
  <2>2. \A i \in 0..m : g[i] = f[i]
    OBVIOUS
  <2>3. g[m + 1] = last
    OBVIOUS
  <2>4. ASSUME NEW i \in 0..(m + 1)
        PROVE  g[i] = IF i = 0 THEN <<>> ELSE IF s[i] \in S THEN Append(g[i - 1], s[i]) ELSE g[i - 1]
    <3>1. CASE i = 0
      BY <2>1, <2>2, <3>1 DEF IsFilter
    <3>2. CASE i = m + 1
      <4>1. i - 1 = m /\ i # 0 /\ m \in 0..m
        BY <3>2
      <4> HIDE DEF g
      <4> QED BY <2>2, <2>3, <3>2, <4>1
    <3>3. CASE i \in 1..m
      <4>1. i - 1 \in 0..m /\ i \in 0..m /\ i # 0
        BY <3>3
      <4>2. f[i] = IF s[i] \in S THEN Append(f[i - 1], s[i]) ELSE f[i - 1]
        BY <2>1, <4>1, ZenonT(30) DEF IsFilter
      <4> HIDE DEF g
      <4> QED BY <2>2, <4>1, <4>2
    <3> QED BY <3>1, <3>2, <3>3
  <2>5. IsFilter(g, s, S, m + 1)
    <3>1. g = [i \in 0..(m + 1) |-> g[i]]
      OBVIOUS
    <3> HIDE DEF g
    <3> QED BY <2>4, <3>1 DEF IsFilter
  <2> QED BY <2>5
<1> HIDE DEF D
<1>3. \A m \in Nat : m \in D
  BY <1>1, <1>2, NatSetInduction
<1> QED BY <1>3 DEF D

\* Filter is the last of the filtered prefixes.
LEMMA FilterIs ==
  ASSUME NEW X, NEW s \in Seq(X), NEW S
  PROVE  \E f : IsFilter(f, s, S, Len(s)) /\ Filter(s, S) = f[Len(s)]
<1>1. Len(s) \in Nat
  OBVIOUS
<1>2. \E f : IsFilter(f, s, S, Len(s))
  BY <1>1, FilterExists, ZenonT(30)
<1> QED BY <1>2, ZenonT(30) DEF Filter, IsFilter

\* The equation of a filtered prefix.
LEMMA FilterStep ==
  ASSUME NEW f, NEW s, NEW S, NEW n \in Nat, IsFilter(f, s, S, n), NEW i \in 0..(n - 1)
  PROVE  /\ f[0] = <<>>
         /\ f[i + 1] = IF s[i + 1] \in S THEN Append(f[i], s[i + 1]) ELSE f[i]
<1>1. i + 1 \in 0..n /\ i + 1 # 0 /\ (i + 1) - 1 = i /\ 0 \in 0..n
  OBVIOUS
<1> QED BY <1>1, ZenonT(30) DEF IsFilter

\* h places t in the first n elements of s: in order, and onto those in S.
Embeds(h, t, s, S, n) ==
  /\ h \in [1..Len(t) -> 1..n]
  /\ \A j \in 1..Len(t) : t[j] = s[h[j]] /\ t[j] \in S
  /\ \A j, k \in 1..Len(t) : j < k => h[j] < h[k]
  /\ \A i \in 1..n : s[i] \in S => \E j \in 1..Len(t) : h[j] = i

\* A filtered sequence has the elements of the sequence that are in the set, in order.
LEMMA FilterEmbeds ==
  ASSUME NEW X, NEW s \in Seq(X), NEW S
  PROVE  Filter(s, S) \in Seq(X) /\ \E h : Embeds(h, Filter(s, S), s, S, Len(s))
<1>1. Len(s) \in Nat
  OBVIOUS
<1>2. PICK f : IsFilter(f, s, S, Len(s)) /\ Filter(s, S) = f[Len(s)]
  BY FilterIs
<1> DEFINE D == {n \in Nat : n <= Len(s) => f[n] \in Seq(X) /\ \E h : Embeds(h, f[n], s, S, n)}
<1>3. 0 \in D
  <2>1. f[0] = <<>>
    BY <1>1, <1>2, 0 \in 0..Len(s) DEF IsFilter
  <2>2. <<>> \in Seq(X) /\ Len(<<>>) = 0
    OBVIOUS
  <2> DEFINE h == [j \in 1..0 |-> 0]
  <2>3. Embeds(h, <<>>, s, S, 0)
    BY <2>2 DEF Embeds
  <2> QED BY <2>1, <2>2, <2>3, ZenonT(30)
<1>4. ASSUME NEW n \in Nat, n \in D PROVE n + 1 \in D
  <2> SUFFICES ASSUME n + 1 <= Len(s)
               PROVE  f[n + 1] \in Seq(X) /\ \E h : Embeds(h, f[n + 1], s, S, n + 1)
    OBVIOUS
  <2>1. n \in 0..(Len(s) - 1) /\ n + 1 \in 1..Len(s) /\ n <= Len(s) /\ s[n + 1] \in X
    BY <1>1
  <2>2. f[n + 1] = IF s[n + 1] \in S THEN Append(f[n], s[n + 1]) ELSE f[n]
    BY <1>1, <1>2, <2>1, FilterStep
  <2>3. f[n] \in Seq(X) /\ \E h : Embeds(h, f[n], s, S, n)
    BY <1>4, <2>1
  <2>4. PICK h : Embeds(h, f[n], s, S, n)
    BY <2>3
  <2> HIDE DEF D
  <2>5. CASE s[n + 1] \notin S
    <3>1. Embeds(h, f[n], s, S, n + 1)
      BY <2>3, <2>4, <2>5 DEF Embeds
    <3> QED BY <2>2, <2>3, <2>5, <3>1
  <2>6. CASE s[n + 1] \in S
    <3> DEFINE t == Append(f[n], s[n + 1])
               L == Len(f[n])
               g == [j \in 1..(L + 1) |-> IF j = L + 1 THEN n + 1 ELSE h[j]]
    <3>1. /\ t \in Seq(X) /\ L \in Nat /\ Len(t) = L + 1 /\ t[L + 1] = s[n + 1]
          /\ \A j \in 1..L : t[j] = f[n][j]
      BY <2>1, <2>3
    <3>2. \A j \in 1..L : g[j] = h[j] /\ g[j] \in 1..n /\ j \in 1..(L + 1)
      <4>1. h \in [1..L -> 1..n]
        BY <2>4 DEF Embeds
      <4> HIDE DEF L
      <4> QED BY <3>1, <4>1
    <3>3. g[L + 1] = n + 1 /\ L + 1 \in 1..(L + 1)
      BY <3>1
    <3>4. g \in [1..(L + 1) -> 1..(n + 1)]
      <4>1. \A j \in 1..(L + 1) : j = L + 1 \/ j \in 1..L
        BY <3>1
      <4>2. \A j \in 1..(L + 1) : g[j] \in 1..(n + 1)
        <5> HIDE DEF g
        <5> QED BY <3>2, <3>3, <4>1
      <4>3. g = [j \in 1..(L + 1) |-> g[j]]
        OBVIOUS
      <4> HIDE DEF g
      <4> QED BY <4>2, <4>3, ZenonT(30)
    <3> HIDE DEF g, t, L
    <3>5. \A j \in 1..(L + 1) : t[j] = s[g[j]] /\ t[j] \in S
      <4>1. \A j \in 1..(L + 1) : j = L + 1 \/ j \in 1..L
        BY <3>1
      <4>2. \A j \in 1..L : f[n][j] = s[h[j]] /\ f[n][j] \in S
        BY <2>4 DEF Embeds, L
      <4> QED BY <2>6, <3>1, <3>2, <3>3, <4>1, <4>2
    <3>6. \A j, k \in 1..(L + 1) : j < k => g[j] < g[k]
      <4> SUFFICES ASSUME NEW j \in 1..(L + 1), NEW k \in 1..(L + 1), j < k PROVE g[j] < g[k]
        OBVIOUS
      <4>1. j \in 1..L
        BY <3>1
      <4>2. CASE k = L + 1
        BY <3>2, <3>3, <4>1, <4>2
      <4>3. CASE k \in 1..L
        <5>1. h[j] < h[k]
          BY <2>4, <4>1, <4>3 DEF Embeds, L
        <5> QED BY <3>2, <4>1, <4>3, <5>1
      <4> QED BY <3>1, <4>2, <4>3
    <3>7. ASSUME NEW i \in 1..(n + 1), s[i] \in S PROVE \E j \in 1..(L + 1) : g[j] = i
      <4>1. CASE i = n + 1
        BY <3>3, <4>1
      <4>2. CASE i \in 1..n
        <5>1. PICK j \in 1..L : h[j] = i
          BY <2>4, <3>7, <4>2 DEF Embeds, L
        <5> QED BY <3>2, <5>1
      <4> QED BY <4>1, <4>2
    <3>8. Embeds(g, t, s, S, n + 1)
      BY <3>1, <3>4, <3>5, <3>6, <3>7 DEF Embeds
    <3>9. f[n + 1] = t
      BY <2>2, <2>6 DEF t
    <3> QED BY <3>1, <3>8, <3>9
  <2> QED BY <2>5, <2>6
<1> HIDE DEF D
<1>5. \A n \in Nat : n \in D
  BY <1>3, <1>4, NatSetInduction
<1>6. Len(s) <= Len(s)
  BY <1>1
<1> QED BY <1>1, <1>2, <1>5, <1>6 DEF D

-----------------------------------------------------------------------------
(* The operators of the inbox: which entries and ids a queue has after an     *)
(* append, a splice, a removal by id, a filter or an edit in place, and that  *)
(* no id occurs twice in it                                                   *)

\* No id is twice in the queue.
Distinct(q) == \A i, j \in DOMAIN q : q[i].id = q[j].id => i = j

\* The ids of a queue are the ids of its entries.
LEMMA IdsOfRange ==
  ASSUME NEW q, NEW m
  PROVE  m \in Ids(q) <=> \E e \in Range(q) : e.id = m
BY DEF Ids, Range

\* The empty queue.
LEMMA EmptyQueue == Ids(<<>>) = {} /\ Range(<<>>) = {} /\ Distinct(<<>>)
BY DEF Ids, Range, Distinct

\* A queue of one entry.
LEMMA OneEntryQueue ==
  ASSUME NEW X, NEW e \in X
  PROVE  /\ <<e>> \in Seq(X) /\ Len(<<e>>) = 1
         /\ Ids(<<e>>) = {e.id} /\ Range(<<e>>) = {e} /\ Distinct(<<e>>)
BY DEF Ids, Range, Distinct

\* A queue and what is in it.
LEMMA QueueFacts ==
  ASSUME NEW X, NEW q \in Seq(X)
  PROVE  /\ DOMAIN q = 1..Len(q) /\ Len(q) \in Nat /\ Range(q) \subseteq X
         /\ \A i \in 1..Len(q) : q[i] \in Range(q) /\ q[i].id \in Ids(q)
         /\ \A m \in Ids(q) : \E i \in 1..Len(q) : q[i].id = m
         /\ \A e \in Range(q) : e.id \in Ids(q) /\ \E i \in 1..Len(q) : q[i] = e
BY DEF Ids, Range

\* Appending an entry.
LEMMA AppendQueue ==
  ASSUME NEW X, NEW q \in Seq(X), NEW e \in X
  PROVE  /\ Append(q, e) \in Seq(X)
         /\ Ids(Append(q, e)) = Ids(q) \cup {e.id}
         /\ Range(Append(q, e)) = Range(q) \cup {e}
         /\ Distinct(q) /\ e.id \notin Ids(q) => Distinct(Append(q, e))
<1> DEFINE a == Append(q, e)
<1>1. /\ a \in Seq(X) /\ Len(q) \in Nat /\ DOMAIN a = 1..(Len(q) + 1) /\ DOMAIN q = 1..Len(q)
      /\ a[Len(q) + 1] = e /\ \A i \in 1..Len(q) : a[i] = q[i]
  OBVIOUS
<1>2. \A i \in 1..(Len(q) + 1) : i = Len(q) + 1 \/ i \in 1..Len(q)
  BY <1>1
<1>3. Len(q) + 1 \in 1..(Len(q) + 1) /\ \A i \in 1..Len(q) : i \in 1..(Len(q) + 1)
  BY <1>1
<1> HIDE DEF a
<1>4. Ids(a) = Ids(q) \cup {e.id} /\ Range(a) = Range(q) \cup {e}
  BY <1>1, <1>2, <1>3 DEF Ids, Range
<1>5. ASSUME Distinct(q), e.id \notin Ids(q), NEW i \in DOMAIN a, NEW j \in DOMAIN a, a[i].id = a[j].id
      PROVE  i = j
  <2>1. \A k \in 1..Len(q) : q[k].id # e.id
    BY <1>1, <1>5, ZenonT(30) DEF Ids
  <2> QED BY <1>1, <1>2, <1>5, <2>1 DEF Distinct
<1> QED BY <1>1, <1>4, <1>5 DEF a, Distinct

\* Two queues one after the other.
LEMMA ConcatQueue ==
  ASSUME NEW X, NEW q \in Seq(X), NEW r \in Seq(X)
  PROVE  /\ q \o r \in Seq(X)
         /\ Ids(q \o r) = Ids(q) \cup Ids(r)
         /\ Range(q \o r) = Range(q) \cup Range(r)
         /\ Distinct(q) /\ Distinct(r) /\ Ids(q) \cap Ids(r) = {} => Distinct(q \o r)
<1> DEFINE a == q \o r
<1>1. /\ a \in Seq(X) /\ Len(q) \in Nat /\ Len(r) \in Nat
      /\ DOMAIN a = 1..(Len(q) + Len(r)) /\ DOMAIN q = 1..Len(q) /\ DOMAIN r = 1..Len(r)
      /\ \A i \in 1..(Len(q) + Len(r)) : a[i] = IF i <= Len(q) THEN q[i] ELSE r[i - Len(q)]
  OBVIOUS
<1> HIDE DEF a
<1>2. \A i \in 1..Len(q) : i \in DOMAIN a /\ a[i] = q[i]
  BY <1>1
<1>3. \A i \in 1..Len(r) : Len(q) + i \in DOMAIN a /\ a[Len(q) + i] = r[i]
  BY <1>1
<1>4. \A i \in DOMAIN a : \/ i \in 1..Len(q) /\ a[i] = q[i]
                          \/ i - Len(q) \in 1..Len(r) /\ a[i] = r[i - Len(q)]
  BY <1>1
<1>5. Ids(a) = Ids(q) \cup Ids(r) /\ Range(a) = Range(q) \cup Range(r)
  <2>1. Ids(q) \subseteq Ids(a) /\ Range(q) \subseteq Range(a)
    BY <1>1, <1>2 DEF Ids, Range
  <2>2. Ids(r) \subseteq Ids(a) /\ Range(r) \subseteq Range(a)
    <3>1. ASSUME NEW i \in DOMAIN r PROVE r[i].id \in Ids(a) /\ r[i] \in Range(a)
      <4>1. Len(q) + i \in DOMAIN a /\ a[Len(q) + i] = r[i]
        BY <1>1, <1>3
      <4> QED BY <4>1 DEF Ids, Range
    <3> QED BY <3>1 DEF Ids, Range
  <2>3. \A i \in DOMAIN a : a[i].id \in Ids(q) \cup Ids(r) /\ a[i] \in Range(q) \cup Range(r)
    BY <1>1, <1>4 DEF Ids, Range
  <2>4. Ids(a) \subseteq Ids(q) \cup Ids(r) /\ Range(a) \subseteq Range(q) \cup Range(r)
    BY <2>3 DEF Ids, Range
  <2> QED BY <2>1, <2>2, <2>4
<1>6. ASSUME Distinct(q), Distinct(r), Ids(q) \cap Ids(r) = {},
             NEW i \in DOMAIN a, NEW j \in DOMAIN a, a[i].id = a[j].id
      PROVE  i = j
  <2>1. \A k \in 1..Len(q), l \in 1..Len(r) : q[k].id # r[l].id
    BY <1>1, <1>6, ZenonT(30) DEF Ids
  <2>2. CASE i \in 1..Len(q) /\ j \in 1..Len(q) /\ a[i] = q[i] /\ a[j] = q[j]
    BY <1>1, <1>6, <2>2 DEF Distinct
  <2>3. CASE /\ i - Len(q) \in 1..Len(r) /\ a[i] = r[i - Len(q)]
             /\ j - Len(q) \in 1..Len(r) /\ a[j] = r[j - Len(q)]
    <3>1. i - Len(q) = j - Len(q)
      BY <1>1, <1>6, <2>3 DEF Distinct
    <3> QED BY <1>1, <3>1
  <2> QED BY <1>4, <1>6, <2>1, <2>2, <2>3
<1> QED BY <1>1, <1>5, <1>6 DEF a, Distinct

\* The first entry of a queue and the others.
LEMMA HeadQueue ==
  ASSUME NEW X, NEW q \in Seq(X), q # <<>>
  PROVE  /\ Tail(q) \in Seq(X) /\ Head(q) \in X
         /\ Ids(q) = {Head(q).id} \cup Ids(Tail(q))
         /\ Range(q) = {Head(q)} \cup Range(Tail(q))
         /\ Distinct(q) => Distinct(Tail(q)) /\ Head(q).id \notin Ids(Tail(q))
<1>1. Len(q) \in Nat /\ Len(q) # 0 /\ DOMAIN q = 1..Len(q)
  BY EmptySeq
<1>2. /\ Tail(q) \in Seq(X) /\ Head(q) = q[1] /\ Head(q) \in X
      /\ DOMAIN Tail(q) = 1..(Len(q) - 1)
      /\ \A i \in 1..(Len(q) - 1) : Tail(q)[i] = q[i + 1]
  BY <1>1, HeadTailProperties
<1> DEFINE t == Tail(q)
<1> HIDE DEF t
<1>3. /\ t \in Seq(X) /\ DOMAIN t = 1..(Len(q) - 1)
      /\ \A i \in 1..(Len(q) - 1) : t[i] = q[i + 1] /\ i + 1 \in 1..Len(q)
  BY <1>1, <1>2 DEF t
<1>4. \A i \in 1..Len(q) : i = 1 \/ (i - 1 \in 1..(Len(q) - 1) /\ q[i] = t[i - 1])
  BY <1>1, <1>3
<1>5. 1 \in 1..Len(q)
  BY <1>1
<1>6. Ids(q) = {q[1].id} \cup Ids(t) /\ Range(q) = {q[1]} \cup Range(t)
  <2>1. Ids(t) \subseteq Ids(q) /\ Range(t) \subseteq Range(q)
    BY <1>1, <1>3, ZenonT(30) DEF Ids, Range
  <2>2. q[1].id \in Ids(q) /\ q[1] \in Range(q)
    BY <1>1, <1>5 DEF Ids, Range
  <2>3. \A i \in DOMAIN q : q[i].id \in {q[1].id} \cup Ids(t) /\ q[i] \in {q[1]} \cup Range(t)
    BY <1>1, <1>3, <1>4, ZenonT(30) DEF Ids, Range
  <2>4. Ids(q) \subseteq {q[1].id} \cup Ids(t) /\ Range(q) \subseteq {q[1]} \cup Range(t)
    BY <2>3 DEF Ids, Range
  <2> QED BY <2>1, <2>2, <2>4
<1>7. ASSUME Distinct(q) PROVE Distinct(t) /\ q[1].id \notin Ids(t)
  <2>1. ASSUME NEW i \in 1..(Len(q) - 1), NEW j \in 1..(Len(q) - 1), t[i].id = t[j].id PROVE i = j
    <3>1. i + 1 \in DOMAIN q /\ j + 1 \in DOMAIN q /\ q[i + 1].id = q[j + 1].id
      BY <1>1, <1>3, <2>1
    <3>2. i + 1 = j + 1
      BY <1>7, <3>1 DEF Distinct
    <3> QED BY <3>2
  <2>2. \A i \in 1..(Len(q) - 1) : t[i].id # q[1].id
    <3> SUFFICES ASSUME NEW i \in 1..(Len(q) - 1), q[i + 1].id = q[1].id PROVE FALSE
      BY <1>3
    <3>1. i + 1 = 1
      BY <1>1, <1>3, <1>5, <1>7 DEF Distinct
    <3> QED BY <1>1, <3>1
  <2> QED BY <1>1, <1>3, <2>1, <2>2 DEF Ids, Distinct
<1> QED BY <1>2, <1>6, <1>7 DEF t

\* a is q with a stretch replaced by ins, entry by entry.
IsReplaced(a, q, start, removed, ins) ==
  /\ Len(a) = (Len(q) - removed) + Len(ins)
  /\ \A i \in 1..Len(a) :
       \/ i \in 1..start /\ a[i] = q[i]
       \/ i - start \in 1..Len(ins) /\ a[i] = ins[i - start]
       \/ /\ (i - Len(ins)) + removed \in (start + removed + 1)..Len(q)
          /\ a[i] = q[(i - Len(ins)) + removed]
  /\ \A i \in 1..start : i \in 1..Len(a) /\ a[i] = q[i]
  /\ \A i \in (start + removed + 1)..Len(q) :
       (i - removed) + Len(ins) \in 1..Len(a) /\ a[(i - removed) + Len(ins)] = q[i]

\* Replaced replaces a stretch of a queue.
LEMMA ReplacedEntries ==
  ASSUME NEW X, NEW q \in Seq(X), NEW ins \in Seq(X), NEW start \in Nat, NEW removed \in Nat,
         start + removed <= Len(q)
  PROVE  /\ Replaced(q, start, removed, ins) \in Seq(X)
         /\ IsReplaced(Replaced(q, start, removed, ins), q, start, removed, ins)
<1> DEFINE before == SubSeq(q, 1, start)
           after == SubSeq(q, start + removed + 1, Len(q))
           b == before \o ins
           a == b \o after
           n == Len(q) - (start + removed)
<1>1. Len(q) \in Nat /\ Len(ins) \in Nat /\ n \in Nat /\ start <= Len(q)
  OBVIOUS
<1>2. before \in Seq(X) /\ Len(before) = start /\ \A i \in 1..start : before[i] = q[i]
  BY <1>1, SubSeqProperties
<1>3. after \in Seq(X) /\ Len(after) = n /\ \A i \in 1..n : after[i] = q[(start + removed) + i]
  BY <1>1, SubSeqProperties
<1> HIDE DEF before, after
<1>4. /\ b \in Seq(X) /\ Len(b) = start + Len(ins)
      /\ \A i \in 1..(start + Len(ins)) : b[i] = IF i <= start THEN before[i] ELSE ins[i - start]
  <2>1. /\ before \o ins \in Seq(X) /\ Len(before \o ins) = Len(before) + Len(ins)
        /\ \A i \in 1..(Len(before) + Len(ins)) :
             (before \o ins)[i] = IF i <= Len(before) THEN before[i] ELSE ins[i - Len(before)]
    BY <1>2, ConcatProperties, ZenonT(30)
  <2> QED BY <1>1, <1>2, <2>1
<1> HIDE DEF b
<1>5. /\ a \in Seq(X) /\ Len(a) = (start + Len(ins)) + n
      /\ \A i \in 1..((start + Len(ins)) + n) :
           a[i] = IF i <= start + Len(ins) THEN b[i] ELSE after[i - (start + Len(ins))]
  <2>0. b \in Seq(X) /\ after \in Seq(X)
    BY <1>3, <1>4
  <2>1. /\ b \o after \in Seq(X) /\ Len(b \o after) = Len(b) + Len(after)
        /\ \A i \in 1..(Len(b) + Len(after)) :
             (b \o after)[i] = IF i <= Len(b) THEN b[i] ELSE after[i - Len(b)]
    BY <2>0, ConcatProperties, ZenonT(30)
  <2> QED BY <1>1, <1>3, <1>4, <2>1
<1>6. a = Replaced(q, start, removed, ins)
  BY DEF Replaced, before, after, b
<1> HIDE DEF a
<1>7. Len(a) = (Len(q) - removed) + Len(ins)
  BY <1>1, <1>5
<1>8. ASSUME NEW i \in 1..Len(a)
      PROVE  \/ i \in 1..start /\ a[i] = q[i]
             \/ i - start \in 1..Len(ins) /\ a[i] = ins[i - start]
             \/ /\ (i - Len(ins)) + removed \in (start + removed + 1)..Len(q)
                /\ a[i] = q[(i - Len(ins)) + removed]
  <2>1. CASE i <= start
    <3>1. /\ i \in 1..((start + Len(ins)) + n) /\ i \in 1..(start + Len(ins)) /\ i \in 1..start
          /\ i <= start + Len(ins)
      BY <1>1, <1>5, <2>1
    <3>2. a[i] = b[i]
      BY <1>5, <3>1
    <3>3. b[i] = before[i] /\ before[i] = q[i]
      BY <1>2, <1>4, <2>1, <3>1
    <3> QED BY <3>1, <3>2, <3>3
  <2>2. CASE start < i /\ i <= start + Len(ins)
    <3>1. i \in 1..((start + Len(ins)) + n) /\ i \in 1..(start + Len(ins)) /\ ~(i <= start)
      BY <1>1, <1>5, <2>2
    <3>2. a[i] = b[i] /\ b[i] = ins[i - start]
      BY <1>4, <1>5, <2>2, <3>1, ZenonT(30)
    <3>3. i - start \in 1..Len(ins)
      BY <1>1, <2>2, <3>1
    <3> QED BY <3>2, <3>3
  <2>3. CASE start + Len(ins) < i
    <3>1. i - (start + Len(ins)) \in 1..n /\ a[i] = after[i - (start + Len(ins))]
      BY <1>1, <1>5, <2>3
    <3>2. (start + removed) + (i - (start + Len(ins))) = (i - Len(ins)) + removed
      BY <1>1, <1>5
    <3>3. a[i] = q[(i - Len(ins)) + removed]
      BY <1>3, <3>1, <3>2, ZenonT(30)
    <3>4. (i - Len(ins)) + removed \in (start + removed + 1)..Len(q)
      BY <1>1, <3>1
    <3> QED BY <3>3, <3>4
  <2> QED BY <1>1, <2>1, <2>2, <2>3
<1>10. ASSUME NEW i \in 1..start PROVE i \in 1..Len(a) /\ a[i] = q[i]
  BY <1>1, <1>2, <1>4, <1>5
<1>11. ASSUME NEW i \in (start + removed + 1)..Len(q)
       PROVE  (i - removed) + Len(ins) \in 1..Len(a) /\ a[(i - removed) + Len(ins)] = q[i]
  <2>1. i - (start + removed) \in 1..n /\ (start + removed) + (i - (start + removed)) = i
    BY <1>1
  <2>2. ((i - removed) + Len(ins)) - (start + Len(ins)) = i - (start + removed)
    BY <1>1
  <2>3. (i - removed) + Len(ins) \in 1..Len(a) /\ ~ ((i - removed) + Len(ins) <= start + Len(ins))
    BY <1>1, <1>5
  <2> QED BY <1>1, <1>3, <1>5, <2>1, <2>2, <2>3
<1> QED BY <1>5, <1>6, <1>7, <1>8, <1>10, <1>11, ZenonT(30) DEF IsReplaced

\* Removing a stretch of a queue.
LEMMA RemoveStretch ==
  ASSUME NEW X, NEW q \in Seq(X), NEW start \in Nat, NEW removed \in Nat, start + removed <= Len(q)
  PROVE  LET a == Replaced(q, start, removed, <<>>)
         IN /\ a \in Seq(X) /\ Ids(a) \subseteq Ids(q) /\ Range(a) \subseteq Range(q)
            /\ Distinct(q) => /\ Distinct(a)
                              /\ \A i \in (start + 1)..(start + removed) : q[i].id \notin Ids(a)
            /\ \A m \in Ids(q) : m \in Ids(a) \/ \E i \in (start + 1)..(start + removed) : q[i].id = m
<1>0. PICK ins : ins = <<>>
  OBVIOUS
<1> DEFINE a == Replaced(q, start, removed, ins)
           place(i) == IF i <= start THEN i ELSE i + removed
<1>1. Len(q) \in Nat /\ DOMAIN q = 1..Len(q) /\ ins \in Seq(X) /\ Len(ins) = 0
  BY <1>0
<1> HIDE DEF a
<1>2. a \in Seq(X) /\ IsReplaced(a, q, start, removed, ins)
  BY <1>1, ReplacedEntries, ZenonT(30) DEF a
<1>3. DOMAIN a = 1..Len(a) /\ Len(a) = Len(q) - removed
  BY <1>1, <1>2 DEF IsReplaced
<1>4. \A i \in 1..Len(a) : \/ i \in 1..start /\ a[i] = q[i]
                           \/ i + removed \in (start + removed + 1)..Len(q) /\ a[i] = q[i + removed]
  BY <1>1, <1>2 DEF IsReplaced
<1>5. \A i \in 1..Len(a) : place(i) \in DOMAIN q /\ a[i] = q[place(i)]
  BY <1>1, <1>4
<1>6. Ids(a) \subseteq Ids(q) /\ Range(a) \subseteq Range(q)
  <2> HIDE DEF place
  <2> QED BY <1>3, <1>5, ZenonT(30) DEF Ids, Range
<1>7. ASSUME Distinct(q) PROVE Distinct(a)
  <2> SUFFICES ASSUME NEW i \in 1..Len(a), NEW j \in 1..Len(a), a[i].id = a[j].id PROVE i = j
    BY <1>3 DEF Distinct
  <2>1. place(i) = place(j)
    <3> HIDE DEF place
    <3> QED BY <1>5, <1>7 DEF Distinct
  <2> QED BY <1>1, <2>1
<1>8. ASSUME Distinct(q), NEW i \in (start + 1)..(start + removed), q[i].id \in Ids(a) PROVE FALSE
  <2>1. PICK k \in 1..Len(a) : a[k].id = q[i].id
    BY <1>3, <1>8, ZenonT(30) DEF Ids
  <2>2. place(k) = i
    <3>1. i \in DOMAIN q
      BY <1>1
    <3> HIDE DEF place
    <3> QED BY <1>5, <1>8, <2>1, <3>1 DEF Distinct
  <2> QED BY <1>1, <2>2
<1>9. ASSUME NEW m \in Ids(q), m \notin Ids(a)
      PROVE  \E i \in (start + 1)..(start + removed) : q[i].id = m
  <2>1. PICK i \in 1..Len(q) : q[i].id = m
    BY <1>1 DEF Ids
  <2>2. \A k \in 1..Len(a) : a[k].id # m
    BY <1>3, <1>9 DEF Ids
  <2>3. i \notin 1..start
    BY <1>2, <2>1, <2>2 DEF IsReplaced
  <2>4. i \notin (start + removed + 1)..Len(q)
    BY <1>1, <1>2, <2>1, <2>2 DEF IsReplaced
  <2> QED BY <1>1, <2>1, <2>3, <2>4
<1> QED BY <1>0, <1>2, <1>6, <1>7, <1>8, <1>9 DEF a

\* Replacing one entry by another whose id is not elsewhere in the queue.
LEMMA ReplaceOne ==
  ASSUME NEW X, NEW q \in Seq(X), NEW e \in X, NEW start \in Nat, start + 1 <= Len(q)
  PROVE  LET a == Replaced(q, start, 1, <<e>>)
         IN /\ a \in Seq(X) /\ Ids(a) \subseteq Ids(q) \cup {e.id}
            /\ Range(a) \subseteq Range(q) \cup {e}
            /\ Distinct(q) /\ (e.id \in Ids(q) => e.id = q[start + 1].id) =>
                 Distinct(a) /\ \A f \in Range(a) : f.id = e.id => f = e
<1>0. PICK ins : ins = <<e>>
  BY ZenonT(30)
<1> DEFINE a == Replaced(q, start, 1, ins)
<1>1. /\ Len(q) \in Nat /\ DOMAIN q = 1..Len(q) /\ ins \in Seq(X) /\ Len(ins) = 1
      /\ ins[1] = e
  BY <1>0
<1> HIDE DEF a
<1>2. a \in Seq(X) /\ IsReplaced(a, q, start, 1, ins)
  BY <1>1, ReplacedEntries DEF a
<1>3. DOMAIN a = 1..Len(q) /\ Len(a) = Len(q)
  BY <1>1, <1>2 DEF IsReplaced
<1>4. \A i \in 1..Len(q) : a[i] = IF i = start + 1 THEN e ELSE q[i]
  BY <1>1, <1>2, <1>3 DEF IsReplaced
<1>5. Ids(a) \subseteq Ids(q) \cup {e.id} /\ Range(a) \subseteq Range(q) \cup {e}
  BY <1>1, <1>3, <1>4 DEF Ids, Range
<1>6. ASSUME Distinct(q), e.id \in Ids(q) => e.id = q[start + 1].id
      PROVE  Distinct(a) /\ \A f \in Range(a) : f.id = e.id => f = e
  <2>1. start + 1 \in DOMAIN q
    BY <1>1
  <2>2. \A i \in 1..Len(q) : i # start + 1 => q[i].id # e.id
    BY <1>1, <1>6, <2>1 DEF Distinct, Ids
  <2>3. Distinct(a)
    BY <1>1, <1>3, <1>4, <1>6, <2>2 DEF Distinct
  <2>4. \A f \in Range(a) : f.id = e.id => f = e
    BY <1>1, <1>3, <1>4, <2>2 DEF Range
  <2> QED BY <2>3, <2>4
<1> QED BY <1>0, <1>2, <1>5, <1>6 DEF a

\* The place of an id in a queue that has it, and 0 otherwise.
LEMMA PendingPlace ==
  ASSUME NEW X, NEW q \in Seq(X), NEW m
  PROVE  /\ m \in Ids(q) => PendingIndex(q, m) \in 1..Len(q) /\ q[PendingIndex(q, m)].id = m
         /\ m \notin Ids(q) => PendingIndex(q, m) = 0
<1> DEFINE places == {i \in DOMAIN q : q[i].id = m}
<1>1. DOMAIN q = 1..Len(q) /\ Len(q) \in Nat
  OBVIOUS
<1>2. CASE m \in Ids(q)
  <2>1. places # {} /\ places \in SUBSET Nat
    BY <1>1, <1>2 DEF Ids
  <2>2. \E x \in places : \A y \in places : x <= y
    BY <2>1, LeastNatural, ZenonT(30)
  <2>3. Min(places) \in places
    BY <2>2 DEF Min
  <2>4. PendingIndex(q, m) = Min(places)
    BY <2>1 DEF PendingIndex
  <2> QED BY <1>1, <1>2, <2>3, <2>4
<1>3. CASE m \notin Ids(q)
  <2>1. places = {}
    BY <1>3 DEF Ids
  <2>2. PendingIndex(q, m) = 0
    BY <2>1 DEF PendingIndex
  <2> QED BY <1>3, <2>2
<1> QED BY <1>2, <1>3

\* Removing an id from a queue.
LEMMA WithoutId ==
  ASSUME NEW X, NEW q \in Seq(X), NEW m
  PROVE  /\ Without(q, m) \in Seq(X)
         /\ Ids(Without(q, m)) \subseteq Ids(q) /\ Range(Without(q, m)) \subseteq Range(q)
         /\ Distinct(q) => Distinct(Without(q, m)) /\ Ids(Without(q, m)) = Ids(q) \ {m}
<1>1. CASE m \notin Ids(q)
  BY <1>1 DEF Without
<1>2. CASE m \in Ids(q)
  <2>1. PICK n : n = PendingIndex(q, m)
    OBVIOUS
  <2>2. n \in 1..Len(q) /\ q[n].id = m
    BY <1>2, <2>1, PendingPlace
  <2>3. n - 1 \in Nat /\ (n - 1) + 1 = n /\ (n - 1) + 1 <= Len(q) /\ 1 \in Nat
    BY <2>2
  <2> DEFINE a == Replaced(q, n - 1, 1, <<>>)
  <2>4. a = Without(q, m)
    BY <1>2, <2>1 DEF Without
  <2>5. /\ a \in Seq(X) /\ Ids(a) \subseteq Ids(q) /\ Range(a) \subseteq Range(q)
        /\ Distinct(q) => /\ Distinct(a)
                          /\ \A i \in ((n - 1) + 1)..((n - 1) + 1) : q[i].id \notin Ids(a)
        /\ \A k \in Ids(q) : k \in Ids(a) \/ \E i \in ((n - 1) + 1)..((n - 1) + 1) : q[i].id = k
    BY <2>3, RemoveStretch
  <2> HIDE DEF a
  <2>6. n \in ((n - 1) + 1)..((n - 1) + 1) /\ \A i \in ((n - 1) + 1)..((n - 1) + 1) : i = n
    BY <2>2
  <2>7. \A k \in Ids(q) : k \in Ids(a) \/ k = m
    BY <2>2, <2>5, <2>6
  <2>8. Distinct(q) => m \notin Ids(a)
    BY <2>2, <2>5, <2>6
  <2>9. Distinct(q) => Ids(a) = Ids(q) \ {m}
    BY <2>5, <2>7, <2>8
  <2> QED BY <2>4, <2>5, <2>9
<1> QED BY <1>1, <1>2

\* Filtering a queue.
LEMMA FilterQueue ==
  ASSUME NEW X, NEW q \in Seq(X), NEW S
  PROVE  /\ Filter(q, S) \in Seq(X) /\ Range(Filter(q, S)) = Range(q) \cap S
         /\ Distinct(q) => Distinct(Filter(q, S))
<1> DEFINE a == Filter(q, S)
<1>1. a \in Seq(X) /\ \E h : Embeds(h, a, q, S, Len(q))
  BY FilterEmbeds
<1>2. PICK h : Embeds(h, a, q, S, Len(q))
  BY <1>1
<1> HIDE DEF a
<1>3. DOMAIN a = 1..Len(a) /\ DOMAIN q = 1..Len(q) /\ Len(a) \in Nat
  BY <1>1
<1>4. \A j \in 1..Len(a) : h[j] \in 1..Len(q) /\ a[j] = q[h[j]] /\ a[j] \in S
  BY <1>2 DEF Embeds
<1>5. \A i \in 1..Len(q) : q[i] \in S => \E j \in 1..Len(a) : h[j] = i
  BY <1>2 DEF Embeds
<1>6. Range(a) \subseteq Range(q) \cap S
  BY <1>3, <1>4 DEF Range
<1>7. ASSUME NEW e \in Range(q), e \in S PROVE e \in Range(a)
  <2>1. PICK i \in 1..Len(q) : q[i] = e
    BY <1>3 DEF Range
  <2>2. PICK j \in 1..Len(a) : h[j] = i
    BY <1>5, <1>7, <2>1
  <2> QED BY <1>3, <1>4, <2>1, <2>2 DEF Range
<1>8. ASSUME Distinct(q), NEW i \in 1..Len(a), NEW j \in 1..Len(a), a[i].id = a[j].id PROVE i = j
  <2>1. h[i] = h[j]
    BY <1>3, <1>4, <1>8 DEF Distinct
  <2>2. ~(i < j) /\ ~(j < i)
    BY <1>2, <1>4, <2>1 DEF Embeds
  <2> QED BY <1>3, <2>2
<1>9. Distinct(q) => Distinct(a)
  BY <1>3, <1>8 DEF Distinct
<1>10. Range(a) = Range(q) \cap S
  BY <1>6, <1>7
<1> QED BY <1>1, <1>9, <1>10 DEF a

\* The unclaimed rest of a queue.
LEMMA UnclaimedQueue ==
  ASSUME NEW X, NEW q \in Seq(X), NEW ids, NEW S, \A e \in Range(q) : e \in S <=> e.id \notin ids
  PROVE  /\ Filter(q, S) \in Seq(X) /\ Range(Filter(q, S)) \subseteq Range(q)
         /\ Ids(Filter(q, S)) = Ids(q) \ ids
         /\ Distinct(q) => Distinct(Filter(q, S))
<1>1. /\ Filter(q, S) \in Seq(X) /\ Range(Filter(q, S)) = Range(q) \cap S
      /\ Distinct(q) => Distinct(Filter(q, S))
  BY FilterQueue
<1>2. \A m : m \in Ids(Filter(q, S)) <=> m \in Ids(q) /\ m \notin ids
  BY <1>1, IdsOfRange
<1> QED BY <1>1, <1>2

\* A queue with the entry of e's id replaced by e, in place.
IsEdited(a, q, e) ==
  /\ Ids(a) = Ids(q) /\ Range(a) \subseteq Range(q) \cup {e}
  /\ Distinct(q) => Distinct(a) /\ \A f \in Range(a) : f.id = e.id => f = e

\* Replacing an entry in place by one with the same id.
LEMMA EditQueue ==
  ASSUME NEW X, NEW q \in Seq(X), NEW i \in 1..Len(q), NEW e \in X, e.id = q[i].id
  PROVE  [q EXCEPT ![i] = e] \in Seq(X) /\ IsEdited([q EXCEPT ![i] = e], q, e)
<1>0. PICK a : a = [q EXCEPT ![i] = e]
  BY ZenonT(30)
<1>1. /\ a \in Seq(X) /\ DOMAIN a = 1..Len(q) /\ DOMAIN q = 1..Len(q)
      /\ \A j \in 1..Len(q) : a[j] = IF j = i THEN e ELSE q[j]
  BY <1>0
<1>2. \A j \in 1..Len(q) : a[j].id = q[j].id
  BY <1>1
<1>3. Ids(a) = Ids(q) /\ Range(a) \subseteq Range(q) \cup {e}
  BY <1>1, <1>2 DEF Ids, Range
<1>4. Distinct(q) => Distinct(a)
  BY <1>1, <1>2 DEF Distinct
<1>5. Distinct(q) => \A f \in Range(a) : f.id = e.id => f = e
  BY <1>1, <1>2 DEF Distinct, Range
<1> QED BY <1>0, <1>1, <1>3, <1>4, <1>5, ZenonT(30) DEF IsEdited

-----------------------------------------------------------------------------
(* The parts of the invariant *)

\* The messages the agent's inbox holds.
Inboxed == Ids(inbox.followups) \cup Ids(inbox.steps)

\* The messages the log says are queued.
Journaled == Ids(journal.followups) \cup Ids(journal.steps)

\* A send in progress.
Calls == [pc : {"append", "deliver", "wake"}, id : Messages,
          target : {"followup", "steer", "inject"}, attached : BOOLEAN]

\* What reserve_update returns: the message, and where it was.
Reservations == [id : Messages, update : {"edit", "remove", "steer"},
                 source : {"next-turn", "next-step"}, start : Nat, message : Entries]

\* The queues the log stands for.
Journals == [followups : Seq(Entries), steps : Seq(Entries), enqueued : SUBSET Messages]

\* The inbox of an agent.
Inboxes == [followups : Seq(Entries), steps : Seq(Entries),
            injected : SUBSET Messages, reserved : SUBSET Messages]

\* The driver task of an agent.
Drivers == [pc : {"stopped", "wait", "claim", "settle", "claimAppend", "claimCommit", "turn",
                  "stepClaim", "stepAppend", "stepCommit", "post"},
            claim : Seq(Entries), turn : Seq(Entries), step : 0..MaxSteps]

\* A queue update that holds its reservation.
QueueUpdates == [pc : {"append", "commit"}, attached : BOOLEAN, r : Reservations]

\* What became of a message, as its sender sees it.
Fates == {"unsent", "sending", "accepted", "nextStep", "rejected", "removed", "dropped"}

\* Every variable has its type, and only step entries are injected.
Shape ==
  /\ journal \in Journals /\ transcript \in Seq(Entries)
  /\ agent \in {"absent", "live", "cancelled"}
  /\ inbox \in Inboxes /\ inbox.injected \subseteq Ids(inbox.steps)
  /\ woken \in BOOLEAN /\ stops \in 0..MaxStops
  /\ driver \in Drivers
  /\ sender \in [Senders -> {NoSend} \cup Calls]
  /\ update \in {NoUpdate} \cup QueueUpdates
  /\ fate \in [Messages -> Fates]

\* No queue holds a message twice.
OncePerPlace ==
  /\ Distinct(transcript) /\ Distinct(driver.claim) /\ Distinct(driver.turn)
  /\ Distinct(inbox.followups) /\ Distinct(inbox.steps)
  /\ Distinct(journal.followups) /\ Distinct(journal.steps)

\* No message is in two places, save that the log also names what the inbox holds.
OnePlace ==
  /\ Ids(inbox.followups) \cap Ids(inbox.steps) = {}
  /\ Ids(journal.followups) \cap Ids(journal.steps) = {}
  /\ Ids(transcript) \cap (Ids(driver.turn) \cup Ids(driver.claim) \cup Inboxed \cup Journaled) = {}
  /\ Ids(driver.turn) \cap (Ids(driver.claim) \cup Inboxed) = {}

\* An agent that was cancelled or disposed, its inbox cleared.
Gone == agent # "live" /\ inbox = EmptyInbox

\* What the driver claimed stays reserved until the claim is committed.
ClaimIsHeld == Ids(driver.claim) \subseteq inbox.reserved \/ Gone

\* Where there is no agent, no call is attached to one.
AbsentIsClean ==
  agent = "absent" =>
    /\ inbox = EmptyInbox /\ driver.pc = "stopped"
    /\ \A p \in Senders : sender[p].pc # "idle" => ~sender[p].attached
    /\ update.pc # "idle" => ~update.attached

\* The message has reached no queue of the agent and no update.
Untouched(m) ==
  /\ m \notin Ids(transcript) \cup Ids(driver.turn) \cup Ids(driver.claim) \cup Inboxed
  /\ update.pc # "idle" => update.r.id # m

\* The send has not delivered its message yet.
Sending(p) == sender[p].pc \in {"append", "deliver"}

\* A message no one sent is nowhere.
UnsentIsNowhere ==
  \A m \in Messages : fate[m] = "unsent" =>
    /\ Untouched(m) /\ m \notin Journaled
    /\ \A p \in Senders : sender[p].pc # "idle" => sender[p].id # m

\* Two sends carry different messages, and until its append a send's message is
\* nowhere else; until its delivery it is in no queue of the agent it goes to.
SendersApart ==
  \A p \in Senders : Sending(p) =>
    /\ \A q \in Senders : Sending(q) /\ sender[q].id = sender[p].id => q = p
    /\ sender[p].pc = "append" => Untouched(sender[p].id) /\ sender[p].id \notin Journaled
    /\ sender[p].attached => Untouched(sender[p].id)

\* The message of an update is reserved, in the queue it was found in, and in no
\* claim, turn or transcript.
UpdateIsHeld ==
  update.pc # "idle" =>
    /\ update.r.message.id = update.r.id
    /\ update.r.id \notin Ids(transcript) \cup Ids(driver.turn) \cup Ids(driver.claim)
    /\ update.attached \/ agent = "absent"
    /\ update.r.id \in inbox.reserved \/ Gone
    /\ update.r.id \notin inbox.injected
    /\ update.r.source = "next-turn" => update.r.id \notin Ids(inbox.steps)
    /\ update.r.source = "next-step" => update.r.id \notin Ids(inbox.followups)

\* The entries of the inbox, the claim and the turn.
Held == Range(inbox.followups) \cup Range(inbox.steps) \cup Range(driver.claim) \cup Range(driver.turn)

\* The entries of the log's queues.
Logged == Range(journal.followups) \cup Range(journal.steps)

\* An edit of the message is logged and not yet in the inbox.
Editing(m) == update.pc = "commit" /\ update.r.update = "edit" /\ update.r.id = m

\* Two entries of one message are equal, except while an edit is being committed,
\* and then the log has the new one.
OneContent ==
  /\ \A e, f \in Held \cup Logged : e.id = f.id => e = f \/ Editing(e.id)
  /\ \A e \in Logged : Editing(e.id) => e = update.r.message
  /\ \A p \in Senders : Sending(p) /\ sender[p].attached =>
       \A e \in Logged : e.id = sender[p].id => e = Entry(e.id, "sent")

\* The inductive invariant.
IInv == /\ Shape /\ OncePerPlace /\ OnePlace /\ ClaimIsHeld /\ AbsentIsClean
        /\ UnsentIsNowhere /\ SendersApart /\ UpdateIsHeld /\ OneContent

\* Fewer entries have fewer ids.
LEMMA FewerIds ==
  ASSUME NEW q, NEW r, Range(q) \subseteq Range(r)
  PROVE  Ids(q) \subseteq Ids(r)
BY IdsOfRange

\* The invariant holds of the initial state.
LEMMA InitInv == Init => IInv
<1> SUFFICES ASSUME Init PROVE IInv
  OBVIOUS
<1> USE DEF Init, EmptyJournal, EmptyInbox, DriverAt, NoSend, NoUpdate
<1>1. Ids(<<>>) = {} /\ Range(<<>>) = {} /\ Distinct(<<>>)
  BY EmptyQueue
<1>2. Shape
  <2>1. journal \in Journals /\ transcript \in Seq(Entries)
    BY DEF Journals
  <2>2. inbox \in Inboxes /\ inbox.injected \subseteq Ids(inbox.steps)
    BY DEF Inboxes
  <2>3. driver \in Drivers
    BY QueueAssumption DEF Drivers
  <2>4. stops \in 0..MaxStops
    BY QueueAssumption
  <2> QED BY <2>1, <2>2, <2>3, <2>4, ZenonT(30) DEF Shape, Fates
<1>3. OncePerPlace /\ OnePlace /\ ClaimIsHeld
  BY <1>1 DEF OncePerPlace, OnePlace, ClaimIsHeld, Inboxed, Journaled
<1>4. AbsentIsClean
  BY DEF AbsentIsClean
<1>5. UnsentIsNowhere /\ SendersApart /\ UpdateIsHeld
  BY <1>1 DEF UnsentIsNowhere, SendersApart, UpdateIsHeld, Untouched, Inboxed, Journaled, Sending
<1>6. OneContent
  BY <1>1 DEF OneContent, Held, Logged, Editing, Sending
<1> QED BY <1>2, <1>3, <1>4, <1>5, <1>6 DEF IInv

\* A step that leaves no queue with more, and no call in progress with another
\* message, keeps the invariant.
LEMMA Fewer ==
  ASSUME IInv, Shape', OncePerPlace', ClaimIsHeld', AbsentIsClean',
         transcript' = transcript,
         Range(journal'.followups) \subseteq Range(journal.followups),
         Range(journal'.steps) \subseteq Range(journal.steps),
         Range(inbox'.followups) \subseteq Range(inbox.followups),
         Range(inbox'.steps) \subseteq Range(inbox.steps),
         inbox'.injected \subseteq inbox.injected,
         Range(driver'.claim) \subseteq Range(driver.claim),
         Range(driver'.turn) \subseteq Range(driver.turn),
         \A p \in Senders : \/ sender'[p].pc = "idle"
                            \/ /\ sender'[p].pc = sender[p].pc /\ sender'[p].id = sender[p].id
                               /\ sender'[p].attached => sender[p].attached,
         \/ update'.pc = "idle"
         \/ /\ update'.pc = update.pc /\ update'.r = update.r
            /\ update'.attached \/ agent' = "absent"
            /\ update.r.id \in inbox'.reserved \/ Gone',
         \/ update'.pc = update.pc
         \/ ~(update.pc = "commit" /\ update.r.update = "edit")
         \/ Held' = {},
         \A m \in Messages : fate'[m] = "unsent" => fate[m] = "unsent"
  PROVE  IInv'
<1>1. /\ Ids(journal'.followups) \subseteq Ids(journal.followups)
      /\ Ids(journal'.steps) \subseteq Ids(journal.steps)
      /\ Ids(inbox'.followups) \subseteq Ids(inbox.followups)
      /\ Ids(inbox'.steps) \subseteq Ids(inbox.steps)
      /\ Ids(driver'.claim) \subseteq Ids(driver.claim)
      /\ Ids(driver'.turn) \subseteq Ids(driver.turn)
  BY FewerIds
<1>2. /\ Inboxed' \subseteq Inboxed /\ Journaled' \subseteq Journaled
      /\ Held' \subseteq Held /\ Logged' \subseteq Logged
  BY <1>1 DEF Inboxed, Journaled, Held, Logged
<1>3. OnePlace'
  BY <1>1, <1>2 DEF OnePlace, IInv
<1>4. ASSUME NEW m, Untouched(m) PROVE Untouched(m)'
  BY <1>1, <1>2, <1>4 DEF Untouched
<1>5. UnsentIsNowhere'
  BY <1>2, <1>4 DEF UnsentIsNowhere, IInv
<1>6. SendersApart'
  BY <1>2, <1>4 DEF SendersApart, IInv, Sending
<1>7. UpdateIsHeld'
  BY <1>1, <1>2 DEF UpdateIsHeld, IInv
<1>8. OneContent'
  <2>1. \A e, f \in (Held \cup Logged)' : e.id = f.id => e = f \/ Editing(e.id)'
    BY <1>2, ZenonT(30) DEF OneContent, IInv, Editing
  <2>2. \A e \in Logged' : Editing(e.id)' => e = update'.r.message
    BY <1>2 DEF OneContent, IInv, Editing
  <2>3. \A p \in Senders : Sending(p)' /\ sender'[p].attached =>
          \A e \in Logged' : e.id = sender'[p].id => e = Entry(e.id, "sent")
    BY <1>2 DEF OneContent, IInv, Sending
  <2> QED BY <2>1, <2>2, <2>3, ZenonT(30) DEF OneContent
<1> QED BY <1>3, <1>5, <1>6, <1>7, <1>8 DEF IInv

\* Dropping messages makes none of them unsent.
LEMMA DropFates ==
  ASSUME fate \in [Messages -> Fates], NEW ids
  PROVE  /\ Drop(ids) \in [Messages -> Fates]
         /\ \A m \in Messages : Drop(ids)[m] = "unsent" => fate[m] = "unsent"
BY DEF Drop, Fates

\* A driver that is running belongs to an agent that is there.
LEMMA RunningIsPresent ==
  ASSUME IInv, driver.pc # "stopped"
  PROVE  agent # "absent"
BY DEF IInv, AbsentIsClean, DriverAt

\* A step of the driver that touches no queue, and at most lets go of its
\* claim and its turn.
LEMMA DriverMoves ==
  ASSUME IInv, driver.pc # "stopped", driver' \in Drivers,
         driver'.claim \in {driver.claim, <<>>}, driver'.turn \in {driver.turn, <<>>},
         UNCHANGED <<journal, transcript, agent, inbox, sender, update, stops>>,
         woken' \in BOOLEAN, fate' \in [Messages -> Fates],
         \A m \in Messages : fate'[m] = "unsent" => fate[m] = "unsent"
  PROVE  IInv'
<1>1. Ids(<<>>) = {} /\ Range(<<>>) = {} /\ Distinct(<<>>)
  BY EmptyQueue
<1>2. Shape'
  BY DEF IInv, Shape
<1>3. OncePerPlace'
  BY <1>1 DEF IInv, OncePerPlace
<1>4. Ids(driver'.claim) \subseteq Ids(driver.claim)
  BY <1>1
<1>5. ClaimIsHeld'
  BY <1>4 DEF IInv, ClaimIsHeld, Gone
<1>6. AbsentIsClean'
  BY RunningIsPresent DEF AbsentIsClean
<1>7. Range(driver'.claim) \subseteq Range(driver.claim) /\ Range(driver'.turn) \subseteq Range(driver.turn)
  BY <1>1
<1>8. update.pc # "idle" => /\ update.attached \/ agent = "absent"
                            /\ update.r.id \in inbox.reserved \/ Gone
  BY DEF IInv, UpdateIsHeld
<1>9. Gone' = Gone
  BY DEF Gone
<1> QED BY <1>2, <1>3, <1>5, <1>6, <1>7, <1>8, <1>9, Fewer

\* The driver waking up keeps the invariant.
LEMMA DriverWakeStep == ASSUME IInv, DriverWake PROVE IInv'
<1>1. driver' \in Drivers /\ driver'.claim = driver.claim /\ driver'.turn = driver.turn
  BY DEF DriverWake, Go, IInv, Shape, Drivers
<1>2. driver.pc # "stopped" /\ woken' \in BOOLEAN /\ fate' = fate /\ fate \in [Messages -> Fates]
  BY ZenonT(30) DEF DriverWake, IInv, Shape
<1>3. UNCHANGED <<journal, transcript, agent, inbox, sender, update, stops>>
  BY DEF DriverWake
<1> QED BY <1>1, <1>2, <1>3, DriverMoves

\* The driver finding its queue empty keeps the invariant.
LEMMA DriverSettleStep == ASSUME IInv, DriverSettle PROVE IInv'
<1>1. driver' \in Drivers /\ driver'.claim = driver.claim /\ driver'.turn = driver.turn
  BY ZenonT(30) DEF DriverSettle, Go, IInv, Shape, Drivers
<1>2. driver.pc # "stopped" /\ woken' \in BOOLEAN /\ fate' = fate /\ fate \in [Messages -> Fates]
  BY ZenonT(30) DEF DriverSettle, IInv, Shape
<1>3. UNCHANGED <<journal, transcript, agent, inbox, sender, update, stops>>
  BY DEF DriverSettle
<1> QED BY <1>1, <1>2, <1>3, DriverMoves

\* A driver at a place with nothing in its hands.
LEMMA DriverAtPlace ==
  ASSUME NEW pc \in {"stopped", "wait", "claim"}
  PROVE  DriverAt(pc) \in Drivers /\ DriverAt(pc).claim = <<>> /\ DriverAt(pc).turn = <<>>
BY QueueAssumption DEF DriverAt, Drivers

\* Starting the turn keeps the invariant.
LEMMA DriverTurnStartStep == ASSUME IInv, DriverTurnStart PROVE IInv'
<1>1. /\ driver.pc # "stopped" /\ woken' \in BOOLEAN /\ fate \in [Messages -> Fates]
      /\ UNCHANGED <<journal, transcript, agent, inbox, sender, update, stops>>
  BY DEF DriverTurnStart, IInv, Shape
<1>2. CASE driver' = DriverAt("claim") /\ fate' = Drop(Ids(driver.turn))
  BY <1>1, <1>2, DriverAtPlace, DropFates, DriverMoves
<1>3. CASE driver' = [driver EXCEPT !.pc = "stepClaim", !.step = 1] /\ UNCHANGED fate
  <2>0. 1 \in 0..MaxSteps
    BY QueueAssumption
  <2>1. driver' \in Drivers /\ driver'.claim = driver.claim /\ driver'.turn = driver.turn
    BY <1>3, <2>0, ZenonT(30) DEF IInv, Shape, Drivers
  <2> QED BY <1>1, <1>3, <2>1, DriverMoves
<1> QED BY <1>2, <1>3, ZenonT(30) DEF DriverTurnStart

\* A refused step keeps the invariant.
LEMMA DriverStepRefusedStep == ASSUME IInv, DriverStepRefused PROVE IInv'
<1>1. /\ driver.pc # "stopped" /\ woken' \in BOOLEAN /\ fate \in [Messages -> Fates]
      /\ UNCHANGED <<journal, transcript, agent, inbox, sender, update, stops>>
      /\ driver' = DriverAt("claim") /\ fate' = Drop(Ids(driver.turn))
  BY DEF DriverStepRefused, IInv, Shape
<1> QED BY <1>1, DriverAtPlace, DropFates, DriverMoves

\* A refused post of the turn's messages keeps the invariant.
LEMMA DriverPostRefusedStep == ASSUME IInv, DriverPostRefused PROVE IInv'
<1>1. /\ driver.pc # "stopped" /\ woken' \in BOOLEAN /\ fate \in [Messages -> Fates]
      /\ UNCHANGED <<journal, transcript, agent, inbox, sender, update, stops>>
      /\ driver' = DriverAt("claim") /\ fate' = Drop(Ids(driver.turn))
  BY DEF DriverPostRefused, IInv, Shape
<1> QED BY <1>1, DriverAtPlace, DropFates, DriverMoves

\* Going on to the next step keeps the invariant.
LEMMA DriverNextStepStep == ASSUME IInv, DriverNextStep PROVE IInv'
<1>1. /\ driver.pc # "stopped" /\ woken' \in BOOLEAN /\ fate' = fate /\ fate \in [Messages -> Fates]
      /\ UNCHANGED <<journal, transcript, agent, inbox, sender, update, stops>>
  BY DEF DriverNextStep, IInv, Shape
<1>2. driver \in Drivers /\ driver' = [driver EXCEPT !.pc = "stepClaim", !.step = driver.step + 1]
  BY DEF DriverNextStep, IInv, Shape
<1>3. driver.step + 1 \in 0..MaxSteps
  <2>1. MaxSteps \in Nat
    BY QueueAssumption
  <2>2. driver.step \in 0..MaxSteps /\ driver.step < MaxSteps
    BY <1>2 DEF DriverNextStep, Drivers
  <2> QED BY <2>1, <2>2
<1>4. driver' \in Drivers /\ driver'.claim = driver.claim /\ driver'.turn = driver.turn
  BY <1>2, <1>3, ZenonT(30) DEF Drivers
<1> QED BY <1>1, <1>4, DriverMoves

\* Ending the turn keeps the invariant.
LEMMA DriverTurnEndStep == ASSUME IInv, DriverTurnEnd PROVE IInv'
<1>1. /\ driver.pc # "stopped" /\ woken' \in BOOLEAN /\ fate' = fate /\ fate \in [Messages -> Fates]
      /\ UNCHANGED <<journal, transcript, agent, inbox, sender, update, stops>>
      /\ driver' = DriverAt("claim")
  BY DEF DriverTurnEnd, IInv, Shape
<1> QED BY <1>1, DriverAtPlace, DriverMoves

\* The driver stopping keeps the invariant.
LEMMA DriverStopStep == ASSUME IInv, DriverStop PROVE IInv'
<1>1. /\ driver.pc # "stopped" /\ woken' \in BOOLEAN /\ fate' = fate /\ fate \in [Messages -> Fates]
      /\ UNCHANGED <<journal, transcript, agent, inbox, sender, update, stops>>
  BY DEF DriverStop, IInv, Shape
<1>2. driver' \in Drivers /\ driver'.claim = driver.claim /\ driver'.turn = driver.turn
  BY ZenonT(30) DEF DriverStop, Go, IInv, Shape, Drivers
<1> QED BY <1>1, <1>2, DriverMoves

\* A journal with one of its queues replaced.
LEMMA WithQueueIs ==
  ASSUME NEW j \in Journals, NEW target, NEW q \in Seq(Entries)
  PROVE  /\ WithQueue(j, target, q) \in Journals
         /\ WithQueue(j, target, q).enqueued = j.enqueued
         /\ target = "next-turn" => /\ WithQueue(j, target, q).followups = q
                                    /\ WithQueue(j, target, q).steps = j.steps
         /\ target # "next-turn" => /\ WithQueue(j, target, q).followups = j.followups
                                    /\ WithQueue(j, target, q).steps = q
BY ZenonT(30) DEF WithQueue, Journals

\* Splicing entries out of a journal.
LEMMA SpliceOut ==
  ASSUME NEW j \in Journals, NEW target, NEW start \in Nat, NEW removed \in Nat,
         CanSplice(j, target, start, removed, <<>>)
  PROVE  LET k == Splice(j, target, start, removed, <<>>)
         IN /\ k \in Journals
            /\ Range(k.followups) \subseteq Range(j.followups)
            /\ Range(k.steps) \subseteq Range(j.steps)
            /\ Distinct(j.followups) => Distinct(k.followups)
            /\ Distinct(j.steps) => Distinct(k.steps)
<1> DEFINE q == Queue(j, target)
           a == Replaced(q, start, removed, <<>>)
<1>1. q \in Seq(Entries) /\ start + removed <= Len(q)
  BY DEF Queue, Journals, CanSplice
<1>2. a \in Seq(Entries) /\ Range(a) \subseteq Range(q) /\ (Distinct(q) => Distinct(a))
  <2> HIDE DEF q
  <2> QED BY <1>1, RemoveStretch
<1> HIDE DEF a
<1>3. Splice(j, target, start, removed, <<>>) = WithQueue(j, target, a)
  BY DEF Splice, a
<1>4. CASE target = "next-turn"
  BY <1>2, <1>3, <1>4, WithQueueIs DEF Queue
<1>5. CASE target # "next-turn"
  BY <1>2, <1>3, <1>5, WithQueueIs DEF Queue
<1> QED BY <1>4, <1>5

\* What the invariant says of the update and of the senders when neither changes.
LEMMA CallsStay ==
  ASSUME IInv, UNCHANGED <<agent, sender, update>>, inbox'.reserved = inbox.reserved,
         inbox = EmptyInbox => inbox' = EmptyInbox
  PROVE  /\ \/ update'.pc = "idle"
            \/ /\ update'.pc = update.pc /\ update'.r = update.r
               /\ update'.attached \/ agent' = "absent"
               /\ update.r.id \in inbox'.reserved \/ Gone'
         /\ \A p \in Senders : \/ sender'[p].pc = "idle"
                               \/ /\ sender'[p].pc = sender[p].pc /\ sender'[p].id = sender[p].id
                                  /\ sender'[p].attached => sender[p].attached
BY DEF IInv, UpdateIsHeld, Gone

\* Logging that the claim is consumed keeps the invariant.
LEMMA DriverClaimAppendStep == ASSUME IInv, DriverClaimAppend PROVE IInv'
<1>1. /\ driver.pc # "stopped" /\ journal \in Journals /\ driver \in Drivers
      /\ UNCHANGED <<transcript, agent, inbox, woken, sender, update, fate, stops>>
  BY ZenonT(30) DEF DriverClaimAppend, IInv, Shape
<1>2. driver' \in Drivers /\ driver'.claim = driver.claim /\ driver'.turn = driver.turn
  BY <1>1 DEF DriverClaimAppend, Go, Drivers
<1>3. /\ journal' \in Journals
      /\ Range(journal'.followups) \subseteq Range(journal.followups)
      /\ Range(journal'.steps) \subseteq Range(journal.steps)
      /\ Distinct(journal'.followups) /\ Distinct(journal'.steps)
  <2>1. Distinct(journal.followups) /\ Distinct(journal.steps)
    BY DEF IInv, OncePerPlace
  <2>2. CASE DurableClaim
    <3>1. PICK t, n : t = ClaimTarget /\ n = Len(driver.claim)
      BY ZenonT(30)
    <3>2. CanSplice(journal, t, 0, n, <<>>) /\ journal' = Splice(journal, t, 0, n, <<>>)
      BY <2>2, <3>1 DEF DriverClaimAppend, ClaimAccepted
    <3>3. n \in Nat /\ 0 \in Nat
      BY <1>1, <3>1 DEF Drivers
    <3> QED BY <1>1, <2>1, <3>2, <3>3, SpliceOut, ZenonT(30)
  <2>3. CASE ~DurableClaim
    BY <1>1, <2>1, <2>3 DEF DriverClaimAppend
  <2> QED BY <2>2, <2>3
<1>4. Shape'
  BY <1>1, <1>2, <1>3 DEF IInv, Shape
<1>5. OncePerPlace' /\ ClaimIsHeld'
  BY <1>1, <1>2, <1>3 DEF IInv, OncePerPlace, ClaimIsHeld, Gone
<1>6. AbsentIsClean'
  BY <1>1, RunningIsPresent DEF AbsentIsClean
<1> QED BY <1>1, <1>2, <1>3, <1>4, <1>5, <1>6, CallsStay, Fewer, ZenonT(30)

\* An inbox with no entries, injections or reservations is the empty one.
LEMMA NothingInbox ==
  ASSUME NEW ib \in Inboxes, ib.followups = <<>>, ib.steps = <<>>, ib.injected = {}, ib.reserved = {}
  PROVE  ib = EmptyInbox
<1>1. EmptyInbox \in Inboxes
  BY DEF EmptyInbox, Inboxes
<1>2. /\ EmptyInbox.followups = <<>> /\ EmptyInbox.steps = <<>>
      /\ EmptyInbox.injected = {} /\ EmptyInbox.reserved = {}
  BY DEF EmptyInbox
<1>3. ASSUME NEW a \in Inboxes, NEW b \in Inboxes, a.followups = b.followups, a.steps = b.steps,
             a.injected = b.injected, a.reserved = b.reserved
      PROVE  a = b
  BY <1>3 DEF Inboxes
<1> QED BY <1>1, <1>2, <1>3, ZenonT(30)

\* Letting go of reservations.
LEMMA UnreserveIs ==
  ASSUME NEW ib \in Inboxes, NEW ids
  PROVE  /\ Unreserve(ib, ids) \in Inboxes
         /\ Unreserve(ib, ids).followups = ib.followups /\ Unreserve(ib, ids).steps = ib.steps
         /\ Unreserve(ib, ids).injected = ib.injected
         /\ Unreserve(ib, ids).reserved = ib.reserved \ ids
         /\ ib = EmptyInbox => Unreserve(ib, ids) = EmptyInbox
<1>1. /\ Unreserve(ib, ids) \in Inboxes
      /\ Unreserve(ib, ids).followups = ib.followups /\ Unreserve(ib, ids).steps = ib.steps
      /\ Unreserve(ib, ids).injected = ib.injected
      /\ Unreserve(ib, ids).reserved = ib.reserved \ ids
  BY DEF Unreserve, Inboxes
<1>2. ASSUME ib = EmptyInbox PROVE Unreserve(ib, ids) = EmptyInbox
  <2>1. ib.followups = <<>> /\ ib.steps = <<>> /\ ib.injected = {} /\ ib.reserved = {}
    BY <1>2 DEF EmptyInbox
  <2> QED BY <1>1, <2>1, NothingInbox
<1> QED BY <1>1, <1>2

\* A claim that fails gives its reservation back, and the turn's messages up.
LEMMA ClaimDropped ==
  ASSUME IInv, driver.pc # "stopped", NEW ids, fate' = Drop(ids),
         driver' \in {DriverAt("wait"), DriverAt("claim")},
         inbox' = Unreserve(inbox, Ids(driver.claim)),
         UNCHANGED <<journal, transcript, agent, woken, sender, update, stops>>
  PROVE  IInv'
<1>1. inbox \in Inboxes /\ fate \in [Messages -> Fates]
  BY ZenonT(30) DEF IInv, Shape
<1>2. driver' \in Drivers /\ driver'.claim = <<>> /\ driver'.turn = <<>>
  BY <1>1, DriverAtPlace
<1>3. Ids(<<>>) = {} /\ Range(<<>>) = {} /\ Distinct(<<>>)
  BY EmptyQueue
<1>4. /\ inbox' \in Inboxes /\ inbox'.followups = inbox.followups /\ inbox'.steps = inbox.steps
      /\ inbox'.injected = inbox.injected /\ inbox'.reserved = inbox.reserved \ Ids(driver.claim)
      /\ inbox = EmptyInbox => inbox' = EmptyInbox
  BY <1>1, UnreserveIs
<1>5. Shape'
  BY <1>1, <1>2, <1>4, DropFates DEF IInv, Shape
<1>6. OncePerPlace' /\ ClaimIsHeld'
  BY <1>1, <1>2, <1>3, <1>4 DEF IInv, OncePerPlace, ClaimIsHeld, Gone
<1>7. AbsentIsClean'
  BY <1>1, RunningIsPresent DEF AbsentIsClean
<1>8. update.pc # "idle" => /\ update.attached \/ agent = "absent"
                            /\ update.r.id \in inbox'.reserved \/ Gone'
  BY <1>1, <1>4 DEF IInv, UpdateIsHeld, Gone
<1> QED BY <1>1, <1>2, <1>3, <1>4, <1>5, <1>6, <1>7, <1>8, DropFates, Fewer

\* A refused claim keeps the invariant.
LEMMA DriverClaimRefusedStep == ASSUME IInv, DriverClaimRefused PROVE IInv'
<1>1. PICK ids : ids = Ids(driver.turn)
  OBVIOUS
<1>2. /\ driver.pc # "stopped"
      /\ UNCHANGED <<journal, transcript, agent, woken, sender, update, stops>>
      /\ driver' \in {DriverAt("wait"), DriverAt("claim")}
      /\ inbox' = Unreserve(inbox, Ids(driver.claim)) /\ fate' = Drop(ids)
  BY <1>1, ZenonT(30) DEF DriverClaimRefused
<1> QED BY <1>2, ClaimDropped

\* The end of a call in progress, whatever its sender is told.
LEMMA SendEnds ==
  ASSUME IInv, NEW p \in Senders, sender[p].pc # "idle",
         UNCHANGED <<journal, transcript, agent, inbox, driver, update, stops>>,
         woken' \in BOOLEAN, sender' = [sender EXCEPT ![p] = NoSend],
         NEW told \in Fates, told # "unsent",
         fate' \in {fate, [fate EXCEPT ![sender[p].id] = told]}
  PROVE  IInv'
<1>1. sender \in [Senders -> {NoSend} \cup Calls] /\ fate \in [Messages -> Fates]
  BY DEF IInv, Shape
<1>2. sender' \in [Senders -> {NoSend} \cup Calls] /\ fate' \in [Messages -> Fates]
  BY <1>1
<1>3. \A q \in Senders : sender'[q].pc = "idle" \/ sender'[q] = sender[q]
  BY <1>1 DEF NoSend
<1>4. \A m \in Messages : fate'[m] = "unsent" => fate[m] = "unsent"
  BY <1>1
<1>5. Shape' /\ OncePerPlace' /\ ClaimIsHeld'
  BY <1>2 DEF IInv, Shape, OncePerPlace, ClaimIsHeld, Gone
<1>6. AbsentIsClean'
  BY <1>3 DEF IInv, AbsentIsClean
<1>7. update.pc # "idle" => /\ update.attached \/ agent = "absent"
                            /\ update.r.id \in inbox'.reserved \/ Gone'
  BY DEF IInv, UpdateIsHeld, Gone
<1> QED BY <1>3, <1>4, <1>5, <1>6, <1>7, Fewer

\* A refused append of a send keeps the invariant.
LEMMA SendRefusedStep == ASSUME IInv, NEW p \in Senders, SendRefused(p) PROVE IInv'
<1>1. /\ UNCHANGED <<journal, transcript, agent, inbox, woken, driver, update, stops>>
      /\ sender' = [sender EXCEPT ![p] = NoSend] /\ sender[p].pc # "idle"
      /\ fate' = [fate EXCEPT ![sender[p].id] = "rejected"]
  BY DEF SendRefused
<1>2. woken \in BOOLEAN /\ "rejected" \in Fates
  BY DEF IInv, Shape, Fates
<1> QED BY <1>1, <1>2, SendEnds, ZenonT(30)

\* The wake-up after a send keeps the invariant.
LEMMA SendWakeStep == ASSUME IInv, NEW p \in Senders, SendWake(p) PROVE IInv'
<1>1. /\ UNCHANGED <<journal, transcript, agent, inbox, driver, update, stops>>
      /\ sender' = [sender EXCEPT ![p] = NoSend] /\ sender[p].pc # "idle"
  BY DEF SendWake
<1>2. woken' \in BOOLEAN
  BY DEF SendWake
<1>3. PICK id : id = sender[p].id
  OBVIOUS
<1>4. fate \in [Messages -> Fates]
  BY DEF IInv, Shape
<1>5. \E told \in Fates : told # "unsent" /\ fate' \in {fate, [fate EXCEPT ![id] = told]}
  <2> DEFINE v == IF fate[id] # "sending" THEN fate[id]
                  ELSE IF ~Reachable(p) THEN "rejected"
                  ELSE IF sender[p].target = "followup" THEN "accepted"
                  ELSE "nextStep"
  <2>1. fate' = [fate EXCEPT ![id] = v]
    BY <1>3 DEF SendWake
  <2>2. CASE fate[id] # "sending"
    <3>1. v = fate[id]
      BY <2>2
    <3> HIDE DEF v
    <3>2. fate' = fate
      BY <1>4, <2>1, <3>1
    <3> QED BY <3>2 DEF Fates
  <2>3. CASE fate[id] = "sending"
    <3>1. v \in {"rejected", "accepted", "nextStep"}
      BY <2>3
    <3> HIDE DEF v
    <3>2. v \in Fates /\ v # "unsent"
      BY <3>1 DEF Fates
    <3> QED BY <2>1, <3>2, ZenonT(30)
  <2> QED BY <2>2, <2>3
<1> QED BY <1>1, <1>2, <1>3, <1>5, SendEnds, ZenonT(30)

\* A refused queue update keeps the invariant.
LEMMA UpdateRefusedStep == ASSUME IInv, UpdateRefused PROVE IInv'
<1>1. /\ UNCHANGED <<journal, transcript, agent, woken, driver, sender, fate, stops>>
      /\ update.pc = "append" /\ update' = NoUpdate /\ update'.pc = "idle"
      /\ inbox' = IF update.attached THEN Unreserve(inbox, {update.r.id}) ELSE inbox
      /\ inbox \in Inboxes
  BY DEF UpdateRefused, NoUpdate, IInv, Shape
<1>2. /\ inbox' \in Inboxes /\ inbox'.followups = inbox.followups /\ inbox'.steps = inbox.steps
      /\ inbox'.injected = inbox.injected
      /\ inbox.reserved \ {update.r.id} \subseteq inbox'.reserved
      /\ inbox = EmptyInbox => inbox' = EmptyInbox
  BY <1>1, UnreserveIs
<1>3. update.r.id \notin Ids(driver.claim)
  BY <1>1 DEF IInv, UpdateIsHeld
<1>4. Shape'
  BY <1>1, <1>2, ZenonT(30) DEF IInv, Shape
<1>5. OncePerPlace' /\ ClaimIsHeld'
  BY <1>1, <1>2, <1>3 DEF IInv, OncePerPlace, ClaimIsHeld, Gone
<1>6. AbsentIsClean'
  BY <1>1, <1>2 DEF IInv, AbsentIsClean
<1> QED BY <1>1, <1>2, <1>4, <1>5, <1>6, Fewer

\* The empty inbox and what is in it.
LEMMA EmptyInboxIs ==
  /\ EmptyInbox \in Inboxes /\ EmptyInbox.followups = <<>> /\ EmptyInbox.steps = <<>>
  /\ EmptyInbox.injected = {} /\ EmptyInbox.reserved = {}
BY DEF EmptyInbox, Inboxes

\* An agent that stops taking messages: cancelled or released, its inbox kept or cleared.
LEMMA AgentStops ==
  ASSUME IInv, agent = "live", agent' = "cancelled", stops < MaxStops, stops' = stops + 1,
         inbox' \in {inbox, EmptyInbox},
         UNCHANGED <<journal, transcript, woken, driver, sender, update, fate>>
  PROVE  IInv'
<1>1. Ids(<<>>) = {} /\ Range(<<>>) = {} /\ Distinct(<<>>)
  BY EmptyQueue
<1>2. inbox \in Inboxes /\ inbox.injected \subseteq Ids(inbox.steps)
  BY ZenonT(30) DEF IInv, Shape
<1>3. /\ inbox' \in Inboxes /\ inbox'.injected \subseteq Ids(inbox'.steps)
      /\ inbox'.injected \subseteq inbox.injected
      /\ Range(inbox'.followups) \subseteq Range(inbox.followups)
      /\ Range(inbox'.steps) \subseteq Range(inbox.steps)
  BY <1>1, <1>2, EmptyInboxIs
<1>4. stops' \in 0..MaxStops
  <2>1. stops \in 0..MaxStops
    BY DEF IInv, Shape
  <2>2. MaxStops \in Nat
    BY QueueAssumption
  <2> QED BY <2>1, <2>2
<1>5. Shape'
  BY <1>3, <1>4 DEF IInv, Shape
<1>6. OncePerPlace'
  BY <1>1 DEF IInv, OncePerPlace, EmptyInbox
<1>7. ClaimIsHeld'
  BY DEF IInv, ClaimIsHeld, Gone
<1>8. AbsentIsClean'
  BY DEF AbsentIsClean
<1>9. update.pc # "idle" => /\ update.attached \/ agent = "absent"
                            /\ update.r.id \in inbox'.reserved \/ Gone'
  BY DEF IInv, UpdateIsHeld, Gone
<1> QED BY <1>3, <1>5, <1>6, <1>7, <1>8, <1>9, Fewer

\* Cancelling the agent keeps the invariant.
LEMMA CancelStep == ASSUME IInv, NEW keep \in BOOLEAN, Cancel(keep) PROVE IInv'
BY AgentStops DEF Cancel

\* Releasing the agent keeps the invariant.
LEMMA ReleaseStep == ASSUME IInv, Release PROVE IInv'
BY AgentStops DEF Release

\* Disposing of the agent keeps the invariant.
LEMMA DisposeStep == ASSUME IInv, Dispose PROVE IInv'
<1>1. /\ agent = "cancelled" /\ driver.pc = "stopped" /\ agent' = "absent" /\ inbox' = EmptyInbox
      /\ woken' \in BOOLEAN
      /\ UNCHANGED <<journal, transcript, driver, fate, stops>>
  BY ZenonT(30) DEF Dispose
<1>2. Ids(<<>>) = {} /\ Range(<<>>) = {} /\ Distinct(<<>>)
  BY EmptyQueue
<1>3. sender \in [Senders -> {NoSend} \cup Calls] /\ update \in {NoUpdate} \cup QueueUpdates
  BY DEF IInv, Shape
<1>4. ASSUME NEW p \in Senders
      PROVE  /\ sender'[p] \in {NoSend} \cup Calls
             /\ sender'[p].pc = sender[p].pc
             /\ sender[p].pc # "idle" => sender'[p].id = sender[p].id /\ ~sender'[p].attached
  <2>1. sender'[p] = IF sender[p].pc = "idle" THEN NoSend ELSE [sender[p] EXCEPT !.attached = FALSE]
    BY DEF Dispose, Detach
  <2>2. CASE sender[p].pc = "idle"
    BY <2>1, <2>2 DEF NoSend
  <2>3. CASE sender[p].pc # "idle"
    <3>1. sender[p] \in Calls
      BY <1>3, <2>3 DEF NoSend
    <3> QED BY <2>1, <2>3, <3>1, ZenonT(30) DEF Calls
  <2> QED BY <2>2, <2>3
<1>5. sender' \in [Senders -> {NoSend} \cup Calls]
  <2>1. sender' = [p \in Senders |-> sender'[p]]
    BY DEF Dispose, Detach
  <2> QED BY <1>4, <2>1
<1>6. /\ update' \in {NoUpdate} \cup QueueUpdates /\ update'.pc = update.pc
      /\ update.pc # "idle" => update'.r = update.r /\ ~update'.attached
  <2>1. CASE update.pc = "idle"
    BY <1>3, <2>1 DEF Dispose, Detach
  <2>2. CASE update.pc # "idle"
    <3>1. update \in QueueUpdates
      BY <1>3, <2>2 DEF NoUpdate
    <3> QED BY <2>2, <3>1, ZenonT(30) DEF Dispose, Detach, QueueUpdates
  <2> QED BY <2>1, <2>2
<1>7. Shape'
  BY <1>1, <1>5, <1>6, EmptyInboxIs DEF IInv, Shape
<1>8. OncePerPlace'
  BY <1>1, <1>2, EmptyInboxIs DEF IInv, OncePerPlace
<1>9. Gone' /\ ClaimIsHeld'
  BY <1>1 DEF Gone, ClaimIsHeld
<1>10. AbsentIsClean'
  BY <1>1, <1>4, <1>6 DEF AbsentIsClean
<1> QED BY <1>1, <1>2, <1>4, <1>6, <1>7, <1>8, <1>9, <1>10, EmptyInboxIs, Fewer

\* A crash of the process keeps the invariant.
LEMMA CrashStep == ASSUME IInv, Crash PROVE IInv'
<1>1. /\ agent' = "absent" /\ inbox' = EmptyInbox /\ driver' = DriverAt("stopped")
      /\ sender' = [p \in Senders |-> NoSend] /\ update' = NoUpdate
      /\ UNCHANGED <<journal, transcript>> /\ woken' \in BOOLEAN
      /\ stops < MaxStops /\ stops' = stops + 1
  BY ZenonT(30) DEF Crash
<1>2. Ids(<<>>) = {} /\ Range(<<>>) = {} /\ Distinct(<<>>)
  BY EmptyQueue
<1>3. update'.pc = "idle" /\ \A p \in Senders : sender'[p].pc = "idle"
  BY <1>1 DEF NoSend, NoUpdate
<1>4. DriverAt("stopped") \in Drivers /\ driver'.claim = <<>> /\ driver'.turn = <<>>
  BY <1>1, DriverAtPlace
<1>5. fate' \in [Messages -> Fates] /\ \A m \in Messages : fate'[m] = "unsent" => fate[m] = "unsent"
  <2>1. fate \in [Messages -> Fates]
    BY DEF IInv, Shape
  <2>2. \A m \in Messages : fate'[m] \in {fate[m], "rejected", "dropped"}
    BY DEF Crash
  <2>3. fate' = [m \in Messages |-> fate'[m]]
    BY DEF Crash
  <2>4. \A m \in Messages : fate'[m] \in Fates
    BY <2>1, <2>2 DEF Fates
  <2> QED BY <2>2, <2>3, <2>4
<1>6. stops' \in 0..MaxStops
  <2>1. stops \in 0..MaxStops
    BY DEF IInv, Shape
  <2>2. MaxStops \in Nat
    BY QueueAssumption
  <2> QED BY <1>1, <2>1, <2>2
<1>7. Shape'
  BY <1>1, <1>4, <1>5, <1>6, EmptyInboxIs DEF IInv, Shape
<1>8. OncePerPlace'
  BY <1>1, <1>2, <1>4, EmptyInboxIs DEF IInv, OncePerPlace
<1>9. ClaimIsHeld' /\ AbsentIsClean'
  BY <1>1, <1>3 DEF ClaimIsHeld, Gone, AbsentIsClean, DriverAt
<1>10. Held' = {}
  BY <1>1, <1>2, <1>4, EmptyInboxIs DEF Held
<1> QED BY <1>1, <1>2, <1>3, <1>4, <1>5, <1>7, <1>8, <1>9, <1>10, EmptyInboxIs, Fewer

\* What appending to a journal that does not have the id makes of it.
Enqueued(j, e, k) ==
  /\ k \in Journals
  /\ Ids(k.followups) \cup Ids(k.steps) = Ids(j.followups) \cup Ids(j.steps) \cup {e.id}
  /\ Range(k.followups) \cup Range(k.steps) = Range(j.followups) \cup Range(j.steps) \cup {e}
  /\ Distinct(j.followups) => Distinct(k.followups)
  /\ Distinct(j.steps) => Distinct(k.steps)
  /\ Ids(j.followups) \cap Ids(j.steps) = {} => Ids(k.followups) \cap Ids(k.steps) = {}

\* Enqueueing an entry whose id the journal does not have.
LEMMA EnqueueIs ==
  ASSUME NEW j \in Journals, NEW e \in Entries, NEW target, CanEnqueue(j, e)
  PROVE  Enqueued(j, e, Enqueue(j, e, target))
<1> DEFINE q == Queue(j, target)
           a == Append(q, e)
           w == WithQueue(j, target, a)
           k == Enqueue(j, e, target)
<1>1. q \in Seq(Entries) /\ e.id \notin Ids(q) /\ e.id \notin Ids(j.followups) /\ e.id \notin Ids(j.steps)
  BY DEF Queue, Journals, CanEnqueue
<1>2. /\ a \in Seq(Entries) /\ Range(a) = Range(q) \cup {e} /\ Ids(a) = Ids(q) \cup {e.id}
      /\ Distinct(q) => Distinct(a)
  <2> HIDE DEF q
  <2> QED BY <1>1, AppendQueue
<1> HIDE DEF a
<1>3. /\ w \in Journals
      /\ target = "next-turn" => w.followups = a /\ w.steps = j.steps
      /\ target # "next-turn" => w.followups = j.followups /\ w.steps = a
  BY <1>2, WithQueueIs
<1>4. k = [w EXCEPT !.enqueued = @ \cup {e.id}]
  BY DEF Enqueue, a
<1> HIDE DEF w
<1>5. k \in Journals /\ k.followups = w.followups /\ k.steps = w.steps
  <2>1. e.id \in Messages
    BY DEF Entries
  <2> QED BY <1>3, <1>4, <2>1, ZenonT(30) DEF Journals
<1> SUFFICES Enqueued(j, e, k)
  OBVIOUS
<1> HIDE DEF k
<1>6. CASE target = "next-turn"
  <2>1. q = j.followups /\ k.followups = a /\ k.steps = j.steps
    BY <1>3, <1>5, <1>6 DEF Queue
  <2> HIDE DEF q
  <2> QED BY <1>1, <1>2, <1>5, <2>1, ZenonT(30) DEF Enqueued
<1>7. CASE target # "next-turn"
  <2>1. q = j.steps /\ k.followups = j.followups /\ k.steps = a
    BY <1>3, <1>5, <1>7 DEF Queue
  <2> HIDE DEF q
  <2> QED BY <1>1, <1>2, <1>5, <2>1, ZenonT(30) DEF Enqueued
<1> QED BY <1>6, <1>7

\* The sender of a call and its message.
LEMMA CallIs ==
  ASSUME IInv, NEW p \in Senders, sender[p].pc # "idle"
  PROVE  /\ sender[p] \in Calls /\ sender[p].id \in Messages /\ fate[sender[p].id] # "unsent"
         /\ Entry(sender[p].id, "sent") \in Entries /\ Entry(sender[p].id, "sent").id = sender[p].id
<1>1. sender[p] \in Calls
  <2>1. sender \in [Senders -> {NoSend} \cup Calls]
    BY ZenonT(30) DEF IInv, Shape
  <2>2. NoSend.pc = "idle"
    BY DEF NoSend
  <2> QED BY <2>1, <2>2, ZenonT(30)
<1>2. sender[p].id \in Messages
  BY <1>1 DEF Calls
<1> QED BY <1>1, <1>2, ZenonT(30) DEF IInv, UnsentIsNowhere, Entry, Entries

\* Logging a sent message keeps the invariant.
LEMMA SendAppendStep == ASSUME IInv, NEW p \in Senders, SendAppend(p) PROVE IInv'
<1> DEFINE id == sender[p].id
           e == Entry(id, "sent")
<1>1. /\ sender[p].pc = "append" /\ CanEnqueue(journal, e)
      /\ journal' = Enqueue(journal, e, TargetName(sender[p].target))
      /\ sender' = [sender EXCEPT ![p].pc = "deliver"]
      /\ UNCHANGED <<transcript, agent, inbox, woken, driver, update, fate, stops>>
  BY DEF SendAppend
<1>2. sender[p] \in Calls /\ id \in Messages /\ e \in Entries /\ e.id = id /\ fate[id] # "unsent"
  BY <1>1, CallIs
<1>3. Untouched(id) /\ id \notin Journaled
  BY <1>1 DEF IInv, SendersApart, Sending
<1> HIDE DEF e
<1>4. /\ journal' \in Journals /\ Journaled' = Journaled \cup {id} /\ Logged' = Logged \cup {e}
      /\ Distinct(journal'.followups) /\ Distinct(journal'.steps)
      /\ Ids(journal'.followups) \cap Ids(journal'.steps) = {}
  <2>1. PICK t : t = TargetName(sender[p].target)
    OBVIOUS
  <2>2. /\ journal \in Journals /\ Distinct(journal.followups) /\ Distinct(journal.steps)
        /\ Ids(journal.followups) \cap Ids(journal.steps) = {}
    BY DEF IInv, Shape, OncePerPlace, OnePlace
  <2>3. journal' = Enqueue(journal, e, t) /\ CanEnqueue(journal, e)
    BY <1>1, <2>1
  <2>4. /\ journal' \in Journals
        /\ Ids(journal'.followups) \cup Ids(journal'.steps)
             = Ids(journal.followups) \cup Ids(journal.steps) \cup {e.id}
        /\ Range(journal'.followups) \cup Range(journal'.steps)
             = Range(journal.followups) \cup Range(journal.steps) \cup {e}
        /\ Distinct(journal'.followups) /\ Distinct(journal'.steps)
        /\ Ids(journal'.followups) \cap Ids(journal'.steps) = {}
    <3>1. Enqueued(journal, e, journal')
      BY <1>2, <2>2, <2>3, EnqueueIs, ZenonT(30)
    <3> QED BY <2>2, <3>1 DEF Enqueued
  <2> QED BY <1>2, <2>4 DEF Journaled, Logged
<1>5. /\ sender' \in [Senders -> {NoSend} \cup Calls]
      /\ sender'[p] = [sender[p] EXCEPT !.pc = "deliver"]
      /\ sender'[p].pc = "deliver" /\ sender'[p].id = id /\ sender'[p].attached = sender[p].attached
      /\ \A q \in Senders : q # p => sender'[q] = sender[q]
  <2>1. sender \in [Senders -> {NoSend} \cup Calls]
    BY DEF IInv, Shape
  <2>2. [sender[p] EXCEPT !.pc = "deliver"] \in Calls
    BY <1>2 DEF Calls
  <2>3. sender'[p] = [sender[p] EXCEPT !.pc = "deliver"] /\ \A q \in Senders : q # p => sender'[q] = sender[q]
    BY <1>1, <2>1
  <2>4. sender' = [sender EXCEPT ![p] = [sender[p] EXCEPT !.pc = "deliver"]]
    BY <1>1, <2>1
  <2>5. sender' \in [Senders -> {NoSend} \cup Calls]
    BY <2>1, <2>2, <2>4
  <2> QED BY <1>2, <2>3, <2>5 DEF Calls
<1>6. Inboxed' = Inboxed /\ Held' = Held /\ Gone' = Gone
  BY <1>1 DEF Inboxed, Held, Gone
<1>7. \A m : Untouched(m)' <=> Untouched(m)
  BY <1>1, <1>6 DEF Untouched
<1>8. Shape'
  BY <1>1, <1>4, <1>5 DEF IInv, Shape
<1>9. OncePerPlace' /\ ClaimIsHeld'
  BY <1>1, <1>4, <1>6 DEF IInv, OncePerPlace, ClaimIsHeld
<1>10. OnePlace'
  BY <1>1, <1>3, <1>4, <1>6 DEF IInv, OnePlace, Untouched
<1>11. AbsentIsClean'
  BY <1>1, <1>5 DEF IInv, AbsentIsClean
<1>12. UnsentIsNowhere'
  BY <1>1, <1>2, <1>4, <1>5, <1>7 DEF IInv, UnsentIsNowhere
<1>13. SendersApart'
  BY <1>1, <1>4, <1>5, <1>7 DEF IInv, SendersApart, Sending
<1>14. UpdateIsHeld'
  BY <1>1, <1>6 DEF IInv, UpdateIsHeld
<1>15. OneContent'
  <2>1. \A f \in Held \cup Logged : f.id # id
    <3>1. \A f \in Held : f.id \in Inboxed \cup Ids(driver.claim) \cup Ids(driver.turn)
      BY IdsOfRange DEF Held, Inboxed
    <3>2. \A f \in Logged : f.id \in Journaled
      BY IdsOfRange DEF Logged, Journaled
    <3> QED BY <1>3, <3>1, <3>2 DEF Untouched
  <2>2. \A m : Editing(m)' <=> Editing(m)
    BY <1>1 DEF Editing
  <2>3. \A f, g \in Held \cup Logged \cup {e} : f.id = g.id => f = g \/ Editing(f.id)
    BY <1>2, <2>1 DEF IInv, OneContent
  <2>4. \A f \in Logged \cup {e} : Editing(f.id) => f = update.r.message
    BY <1>2, <1>3, ZenonT(30) DEF IInv, OneContent, Editing, Untouched
  <2>5. \A q \in Senders : Sending(q)' /\ sender'[q].attached =>
          \A f \in Logged' : f.id = sender'[q].id => f = Entry(f.id, "sent")
    <3> SUFFICES ASSUME NEW q \in Senders, Sending(q)', sender'[q].attached,
                        NEW f \in Logged', f.id = sender'[q].id
                 PROVE  f = Entry(f.id, "sent")
      OBVIOUS
    <3>1. CASE q = p
      BY <1>2, <1>4, <1>5, <2>1, <3>1, ZenonT(30) DEF e
    <3>2. CASE q # p
      <4>1. Sending(q) /\ sender[q] = sender'[q] /\ sender[q].id # id
        BY <1>1, <1>5, <3>2 DEF Sending, IInv, SendersApart
      <4> QED BY <1>2, <1>4, <4>1, ZenonT(30) DEF IInv, OneContent
    <3> QED BY <3>1, <3>2
  <2> QED BY <1>1, <1>4, <1>6, <2>2, <2>3, <2>4, <2>5 DEF OneContent
<1> QED BY <1>8, <1>9, <1>10, <1>11, <1>12, <1>13, <1>14, <1>15 DEF IInv

\* k is the inbox ib with the entry e in addition.
Received(ib, e, k) ==
  /\ k \in Inboxes /\ k.reserved = ib.reserved
  /\ Ids(k.followups) \subseteq Ids(ib.followups) \cup {e.id}
  /\ Ids(k.steps) \subseteq Ids(ib.steps) \cup {e.id}
  /\ Range(k.followups) \cup Range(k.steps) = Range(ib.followups) \cup Range(ib.steps) \cup {e}
  /\ Distinct(ib.followups) => Distinct(k.followups)
  /\ Distinct(ib.steps) => Distinct(k.steps)
  /\ Ids(ib.followups) \cap Ids(ib.steps) = {} => Ids(k.followups) \cap Ids(k.steps) = {}
  /\ k.injected \subseteq ib.injected \cup {e.id}
  /\ ib.injected \subseteq Ids(ib.steps) => k.injected \subseteq Ids(k.steps)

\* Sending to an inbox that does not have the id.
LEMMA SendIs ==
  ASSUME NEW ib \in Inboxes, NEW e \in Entries, NEW target \in {"followup", "steer", "inject"},
         e.id \notin Ids(ib.followups), e.id \notin Ids(ib.steps)
  PROVE  Received(ib, e, Send(ib, e, target))
<1> DEFINE k == Send(ib, e, target)
<1>1. e.id \in Messages /\ ib.followups \in Seq(Entries) /\ ib.steps \in Seq(Entries)
  BY DEF Entries, Inboxes
<1>2. CASE target = "followup"
  <2> DEFINE a == Append(ib.followups, e)
  <2>1. /\ a \in Seq(Entries) /\ Range(a) = Range(ib.followups) \cup {e}
        /\ Ids(a) = Ids(ib.followups) \cup {e.id} /\ (Distinct(ib.followups) => Distinct(a))
    BY <1>1, AppendQueue
  <2>2. k = [ib EXCEPT !.followups = a]
    BY <1>2 DEF Send
  <2> HIDE DEF a
  <2>3. /\ k \in Inboxes /\ k.reserved = ib.reserved /\ k.followups = a /\ k.steps = ib.steps
        /\ k.injected = ib.injected
    BY <1>1, <2>1, <2>2, ZenonT(30) DEF Inboxes
  <2> HIDE DEF k
  <2> QED BY <1>1, <2>1, <2>3, ZenonT(30) DEF k, Received
<1>3. CASE target # "followup"
  <2> DEFINE a == Append(ib.steps, e)
  <2>1. /\ a \in Seq(Entries) /\ Range(a) = Range(ib.steps) \cup {e}
        /\ Ids(a) = Ids(ib.steps) \cup {e.id} /\ (Distinct(ib.steps) => Distinct(a))
    BY <1>1, AppendQueue
  <2>2. k = [ib EXCEPT !.steps = a] \/ k = [ib EXCEPT !.steps = a, !.injected = @ \cup {e.id}]
    BY <1>3 DEF Send
  <2> HIDE DEF a
  <2>3. /\ k \in Inboxes /\ k.reserved = ib.reserved /\ k.steps = a /\ k.followups = ib.followups
        /\ k.injected = ib.injected \/ k.injected = ib.injected \cup {e.id}
    <3>1. CASE k = [ib EXCEPT !.steps = a]
      BY <1>1, <2>1, <3>1, ZenonT(30) DEF Inboxes
    <3>2. CASE k = [ib EXCEPT !.steps = a, !.injected = @ \cup {e.id}]
      BY <1>1, <2>1, <3>2, ZenonT(30) DEF Inboxes
    <3> QED BY <2>2, <3>1, <3>2
  <2> HIDE DEF k
  <2> QED BY <1>1, <2>1, <2>3, ZenonT(30) DEF k, Received
<1> QED BY <1>2, <1>3

\* Putting a logged message in the inbox keeps the invariant.
LEMMA SendDeliverStep == ASSUME IInv, NEW p \in Senders, SendDeliver(p) PROVE IInv'
<1> DEFINE id == sender[p].id
           e == Entry(id, "sent")
<1>1. /\ sender[p].pc = "deliver"
      /\ inbox' = IF Reachable(p) THEN Send(inbox, e, sender[p].target) ELSE inbox
      /\ UNCHANGED <<journal, transcript, agent, woken, driver, update, stops>>
  BY DEF SendDeliver
<1>2. sender[p] \in Calls /\ id \in Messages /\ e \in Entries /\ e.id = id /\ fate[id] # "unsent"
  BY <1>1, CallIs
<1>3. /\ sender \in [Senders -> {NoSend} \cup Calls] /\ fate \in [Messages -> Fates]
      /\ woken \in BOOLEAN
  BY DEF IInv, Shape
<1>4. CASE ~Reachable(p)
  <2>1. sender' = [sender EXCEPT ![p] = NoSend] /\ fate' = [fate EXCEPT ![id] = "rejected"]
    BY <1>4 DEF SendDeliver
  <2> QED BY <1>1, <1>3, <1>4, <2>1, SendEnds, ZenonT(30) DEF Fates
<1>5. CASE Reachable(p)
  <2>1. sender[p].attached /\ agent = "live"
    BY <1>5 DEF Reachable
  <2>2. Untouched(id)
    BY <1>1, <2>1, ZenonT(30) DEF IInv, SendersApart, Sending
  <2>3. /\ inbox \in Inboxes /\ inbox.injected \subseteq Ids(inbox.steps)
        /\ id \notin Ids(inbox.followups) /\ id \notin Ids(inbox.steps)
        /\ Distinct(inbox.followups) /\ Distinct(inbox.steps)
        /\ Ids(inbox.followups) \cap Ids(inbox.steps) = {}
    BY <2>2, ZenonT(30) DEF IInv, Shape, Untouched, Inboxed, OncePerPlace, OnePlace
  <2> HIDE DEF e
  <2>4. PICK t \in {"followup", "steer", "inject"} : t = sender[p].target
    BY <1>2, ZenonT(30) DEF Calls
  <2>5. inbox' = Send(inbox, e, t)
    BY <1>1, <1>5, <2>4
  <2>6. /\ inbox' \in Inboxes /\ inbox'.reserved = inbox.reserved
        /\ Ids(inbox'.followups) \subseteq Ids(inbox.followups) \cup {id}
        /\ Ids(inbox'.steps) \subseteq Ids(inbox.steps) \cup {id}
        /\ Range(inbox'.followups) \cup Range(inbox'.steps)
             = Range(inbox.followups) \cup Range(inbox.steps) \cup {e}
        /\ Distinct(inbox'.followups) /\ Distinct(inbox'.steps)
        /\ Ids(inbox'.followups) \cap Ids(inbox'.steps) = {}
        /\ inbox'.injected \subseteq inbox.injected \cup {id}
        /\ inbox'.injected \subseteq Ids(inbox'.steps)
    <3>1. e \in Entries /\ e.id = id /\ e.id \notin Ids(inbox.followups) /\ e.id \notin Ids(inbox.steps)
      BY <1>2, <2>3, ZenonT(30)
    <3> HIDE DEF id
    <3>2. Received(inbox, e, inbox')
      BY <2>3, <2>5, <3>1, SendIs
    <3> QED BY <2>3, <3>1, <3>2, ZenonT(30) DEF Received
  <2>7. Inboxed' \subseteq Inboxed \cup {id} /\ Held' = Held \cup {e} /\ Logged' = Logged /\ Journaled' = Journaled
    BY <1>1, <2>6, ZenonT(30) DEF Inboxed, Held, Logged, Journaled
  <2>8. /\ sender'[p] \in {NoSend, [sender[p] EXCEPT !.pc = "wake"]}
        /\ ~Sending(p)' /\ (sender'[p].pc # "idle" => sender'[p].id = id)
        /\ sender' \in [Senders -> {NoSend} \cup Calls]
        /\ \A q \in Senders : q # p => sender'[q] = sender[q]
    <3>1. PICK s \in {NoSend, [sender[p] EXCEPT !.pc = "wake"]} : sender' = [sender EXCEPT ![p] = s]
      BY ZenonT(30) DEF SendDeliver
    <3>2. s \in {NoSend} \cup Calls /\ s.pc \in {"idle", "wake"} /\ (s.pc # "idle" => s.id = id)
      BY <1>2, <3>1 DEF Calls, NoSend
    <3> QED BY <1>3, <3>1, <3>2 DEF Sending
  <2>9. fate' \in [Messages -> Fates] /\ \A m \in Messages : fate'[m] = "unsent" => fate[m] = "unsent" /\ m # id
    <3>1. fate' \in {fate, [fate EXCEPT ![id] = "nextStep"]}
      BY <1>5 DEF SendDeliver
    <3> QED BY <1>2, <1>3, <3>1 DEF Fates
  <2>10. ASSUME NEW m, Untouched(m), m # id PROVE Untouched(m)'
    BY <1>1, <2>7, <2>10, ZenonT(30) DEF Untouched
  <2>11. Shape'
    BY <1>1, <2>6, <2>8, <2>9 DEF IInv, Shape
  <2>12. OncePerPlace' /\ ClaimIsHeld'
    BY <1>1, <2>1, <2>6, ZenonT(30) DEF IInv, OncePerPlace, ClaimIsHeld, Gone
  <2>13. OnePlace'
    <3>1. OnePlace /\ Untouched(id) /\ Journaled' = Journaled /\ Inboxed' \subseteq Inboxed \cup {id}
      BY <2>2, <2>7 DEF IInv
    <3>2. journal' = journal /\ transcript' = transcript /\ driver' = driver
      BY <1>1
    <3>3. Ids(inbox'.followups) \cap Ids(inbox'.steps) = {}
      BY <2>6
    <3> HIDE DEF id
    <3>4. Ids(transcript) \cap (Ids(driver.turn) \cup Ids(driver.claim) \cup Inboxed' \cup Journaled') = {}
      BY <3>1 DEF OnePlace, Untouched
    <3>5. Ids(driver.turn) \cap (Ids(driver.claim) \cup Inboxed') = {}
      BY <3>1 DEF OnePlace, Untouched
    <3> QED BY <3>1, <3>2, <3>3, <3>4, <3>5, ZenonT(30) DEF OnePlace
  <2>14. AbsentIsClean'
    BY <1>1, <2>1 DEF AbsentIsClean
  <2>15. UnsentIsNowhere'
    BY <2>7, <2>8, <2>9, <2>10 DEF IInv, UnsentIsNowhere
  <2>16. SendersApart'
    <3>1. \A q \in Senders : Sending(q)' => q # p /\ Sending(q) /\ sender'[q] = sender[q] /\ sender[q].id # id
      BY <1>1, <2>8 DEF IInv, SendersApart, Sending
    <3> QED BY <2>7, <2>10, <3>1, ZenonT(30) DEF IInv, SendersApart
  <2>17. UpdateIsHeld'
    <3>1. update.pc # "idle" => update.r.id # id
      BY <2>2 DEF Untouched
    <3> QED BY <1>1, <2>1, <2>6, <3>1, ZenonT(30) DEF IInv, UpdateIsHeld, Gone
  <2>18. OneContent'
    <3>1. \A f \in Held : f.id # id
      <4>1. \A f \in Held : f.id \in Inboxed \cup Ids(driver.claim) \cup Ids(driver.turn)
        BY IdsOfRange DEF Held, Inboxed
      <4> QED BY <2>2, <4>1 DEF Untouched
    <3>2. \A f \in Logged : f.id = id => f = e
      BY <1>1, <1>2, <2>1, ZenonT(30) DEF IInv, OneContent, Sending, e
    <3>3. \A m : Editing(m)' <=> Editing(m)
      BY <1>1 DEF Editing
    <3>4. \A f, g \in Held \cup Logged \cup {e} : f.id = g.id => f = g \/ Editing(f.id)
      BY <1>2, <3>1, <3>2 DEF IInv, OneContent
    <3>5. \A f \in Logged : Editing(f.id) => f = update.r.message
      BY DEF IInv, OneContent
    <3>6. \A q \in Senders : Sending(q)' /\ sender'[q].attached =>
            \A f \in Logged : f.id = sender'[q].id => f = Entry(f.id, "sent")
      <4>1. \A q \in Senders : Sending(q)' => Sending(q) /\ sender'[q] = sender[q]
        BY <2>8 DEF Sending
      <4> QED BY <4>1, ZenonT(30) DEF IInv, OneContent
    <3> QED BY <1>1, <2>7, <3>3, <3>4, <3>5, <3>6, ZenonT(30) DEF OneContent
  <2> QED BY <2>11, <2>12, <2>13, <2>14, <2>15, <2>16, <2>17, <2>18 DEF IInv
<1> QED BY <1>4, <1>5

\* Setting the agent up without a send keeps the invariant.
LEMMA EnsureAgentStep ==
  ASSUME IInv, EnsureAgent
  PROVE  IInv'
<1>1. /\ agent = "absent" /\ update.pc = "idle"
      /\ agent' = "live" /\ woken' \in BOOLEAN /\ driver' = DriverAt("wait")
      /\ inbox' = [EmptyInbox EXCEPT !.followups = journal.followups]
      /\ UNCHANGED <<journal, transcript, sender, update, fate, stops>>
  BY ZenonT(30) DEF EnsureAgent, SetUpAgent
<1>2. journal \in Journals
  BY ZenonT(30) DEF IInv, Shape
<1>3. Journaled' = Journaled /\ Logged' = Logged
  BY <1>1, ZenonT(30) DEF Journaled, Logged
<1>4. Ids(<<>>) = {} /\ Range(<<>>) = {} /\ Distinct(<<>>)
  BY EmptyQueue
<1>5. driver' \in Drivers /\ driver'.claim = <<>> /\ driver'.turn = <<>>
  BY <1>1, DriverAtPlace
<1>6. /\ inbox' \in Inboxes /\ inbox'.followups = journal.followups /\ inbox'.steps = <<>>
      /\ inbox'.injected = {} /\ inbox'.reserved = {}
  <2>1. journal.followups \in Seq(Entries)
    BY <1>2 DEF Journals
  <2> QED BY <1>1, <2>1, EmptyInboxIs DEF Inboxes
<1>7. Inboxed' \subseteq Journaled /\ Held' \subseteq Logged
  BY <1>4, <1>5, <1>6 DEF Inboxed, Journaled, Held, Logged
<1>8. ASSUME NEW n, Untouched(n), n \notin Journaled PROVE Untouched(n)'
  BY <1>1, <1>4, <1>5, <1>7, <1>8 DEF Untouched
<1>9. \A q \in Senders : (Sending(q)' <=> Sending(q)) /\ sender'[q] = sender[q]
  BY <1>1, ZenonT(30) DEF Sending
<1>10. \A q \in Senders : Sending(q) => ~sender[q].attached
  BY <1>1 DEF IInv, AbsentIsClean, Sending
<1>11. Shape'
  BY <1>1, <1>5, <1>6 DEF IInv, Shape
<1>12. OncePerPlace' /\ ClaimIsHeld'
  BY <1>1, <1>4, <1>5, <1>6, ZenonT(30) DEF IInv, OncePerPlace, ClaimIsHeld
<1>13. OnePlace'
  BY <1>1, <1>3, <1>4, <1>5, <1>6, <1>7, ZenonT(30) DEF IInv, OnePlace
<1>14. AbsentIsClean'
  BY <1>1 DEF AbsentIsClean
<1>15. UnsentIsNowhere'
  BY <1>1, <1>3, <1>8, ZenonT(30) DEF IInv, UnsentIsNowhere
<1>16. SendersApart'
  <2> SUFFICES ASSUME NEW q \in Senders, Sending(q)'
               PROVE  /\ \A r \in Senders : Sending(r)' /\ sender'[r].id = sender'[q].id => r = q
                      /\ sender'[q].pc = "append" => Untouched(sender[q].id)' /\ sender'[q].id \notin Journaled'
                      /\ sender'[q].attached => Untouched(sender[q].id)'
    BY ZenonT(30) DEF SendersApart
  <2>1. PICK n : n = sender'[q].id
    OBVIOUS
  <2>2. Untouched(n)' => Untouched(sender[q].id)'
    BY <2>1, ZenonT(30) DEF Untouched
  <2> QED BY <1>3, <1>8, <1>9, <1>10, <2>1, <2>2, ZenonT(30) DEF IInv, SendersApart
<1>17. UpdateIsHeld'
  BY <1>1 DEF UpdateIsHeld
<1>18. OneContent'
  <2>1. \A n : ~Editing(n) /\ ~Editing(n)'
    BY <1>1 DEF Editing
  <2>2. \A f, g \in (Held \cup Logged)' : f.id = g.id => f = g
    BY <1>3, <1>7, <2>1, ZenonT(30) DEF IInv, OneContent
  <2> QED BY <1>3, <1>9, <1>10, <2>1, <2>2, ZenonT(30) DEF OneContent
<1> QED BY <1>11, <1>12, <1>13, <1>14, <1>15, <1>16, <1>17, <1>18 DEF IInv

\* Beginning a send keeps the invariant.
LEMMA SendBeginStep ==
  ASSUME IInv, NEW p \in Senders, NEW m \in Messages, NEW target \in TargetsOf(p), SendBegin(p, m, target)
  PROVE  IInv'
<1>1. /\ sender[p].pc = "idle" /\ fate[m] = "unsent"
      /\ p = Host => update.pc = "idle"
      /\ fate' = [fate EXCEPT ![m] = "sending"]
      /\ UNCHANGED <<journal, transcript, update, stops>>
  BY DEF SendBegin
<1>2. /\ sender \in [Senders -> {NoSend} \cup Calls] /\ fate \in [Messages -> Fates]
      /\ journal \in Journals
  BY ZenonT(30) DEF IInv, Shape
<1>3. /\ Untouched(m) /\ m \notin Journaled
      /\ \A q \in Senders : sender[q].pc # "idle" => sender[q].id # m
  BY <1>1, ZenonT(30) DEF IInv, UnsentIsNowhere
<1>4. /\ sender' \in [Senders -> {NoSend} \cup Calls] /\ sender'[p].pc \in {"append", "deliver"}
      /\ sender'[p].id = m /\ sender'[p].attached
      /\ \A q \in Senders : q # p => sender'[q] = sender[q]
  <2>1. PICK s : /\ s = [pc |-> IF p \in Volatile THEN "deliver" ELSE "append",
                         id |-> m, target |-> target, attached |-> TRUE]
                 /\ sender' = [sender EXCEPT ![p] = s]
    BY ZenonT(30) DEF SendBegin
  <2>2. target \in {"followup", "steer", "inject"}
    BY DEF TargetsOf
  <2>3. s \in Calls /\ s.pc \in {"append", "deliver"} /\ s.id = m /\ s.attached
    BY <2>1, <2>2 DEF Calls
  <2> HIDE DEF Calls
  <2> QED BY <1>2, <2>1, <2>3
<1>5. fate' \in [Messages -> Fates] /\ \A n \in Messages : fate'[n] = "unsent" => fate[n] = "unsent" /\ n # m
  BY <1>1, <1>2 DEF Fates
<1>6. Journaled' = Journaled /\ Logged' = Logged
  BY <1>1, ZenonT(30) DEF Journaled, Logged
<1>7. \A q \in Senders : Sending(q)' /\ q # p => Sending(q) /\ sender'[q] = sender[q] /\ sender[q].id # m
  BY <1>3, <1>4, ZenonT(30) DEF Sending
<1>8. Ids(<<>>) = {} /\ Range(<<>>) = {} /\ Distinct(<<>>)
  BY EmptyQueue
<1>9. CASE p = Host /\ agent = "absent"
  <2>1. /\ agent' = "live" /\ woken' \in BOOLEAN /\ driver' = DriverAt("wait")
        /\ inbox' = [EmptyInbox EXCEPT !.followups = journal.followups]
        /\ update.pc = "idle"
    BY <1>1, <1>9, ZenonT(30) DEF SendBegin, SetUpAgent
  <2>2. driver' \in Drivers /\ driver'.claim = <<>> /\ driver'.turn = <<>>
    BY <2>1, DriverAtPlace
  <2>3. /\ inbox' \in Inboxes /\ inbox'.followups = journal.followups /\ inbox'.steps = <<>>
        /\ inbox'.injected = {} /\ inbox'.reserved = {}
    <3>1. journal.followups \in Seq(Entries)
      BY <1>2 DEF Journals
    <3> QED BY <2>1, <3>1, EmptyInboxIs DEF Inboxes
  <2>4. Inboxed' \subseteq Journaled /\ Held' \subseteq Logged
    BY <1>8, <2>2, <2>3 DEF Inboxed, Journaled, Held, Logged
  <2>5. ASSUME NEW n, Untouched(n), n \notin Journaled PROVE Untouched(n)'
    BY <1>1, <1>8, <2>1, <2>2, <2>4, <2>5 DEF Untouched
  <2>6. Shape'
    BY <1>1, <1>4, <1>5, <1>8, <2>1, <2>2, <2>3 DEF IInv, Shape
  <2>7. OncePerPlace' /\ ClaimIsHeld'
    BY <1>1, <1>8, <2>2, <2>3, ZenonT(30) DEF IInv, OncePerPlace, ClaimIsHeld
  <2>8. OnePlace'
    BY <1>1, <1>6, <1>8, <2>2, <2>3, <2>4, ZenonT(30) DEF IInv, OnePlace
  <2>9. AbsentIsClean'
    BY <2>1 DEF AbsentIsClean
  <2>10. UnsentIsNowhere'
    BY <1>4, <1>5, <1>6, <2>5 DEF IInv, UnsentIsNowhere
  <2>11. \A q \in Senders : Sending(q)' /\ q # p => ~sender'[q].attached
    BY <1>7, <1>9 DEF IInv, AbsentIsClean, Sending
  <2>12. SendersApart'
    <3> SUFFICES ASSUME NEW q \in Senders, Sending(q)'
                 PROVE  /\ \A r \in Senders : Sending(r)' /\ sender'[r].id = sender'[q].id => r = q
                        /\ sender'[q].pc = "append" => Untouched(sender[q].id)' /\ sender'[q].id \notin Journaled'
                        /\ sender'[q].attached => Untouched(sender[q].id)'
      BY ZenonT(30) DEF SendersApart
    <3>1. PICK n : n = sender'[q].id
      OBVIOUS
    <3>2. Untouched(n)' => Untouched(sender[q].id)'
      BY <3>1, ZenonT(30) DEF Untouched
    <3>3. \A r \in Senders : Sending(r)' /\ sender'[r].id = sender'[q].id => r = q
      BY <1>4, <1>7, ZenonT(30) DEF IInv, SendersApart
    <3>4. CASE q = p
      BY <1>3, <1>4, <1>6, <2>5, <3>1, <3>2, <3>3, <3>4, ZenonT(30)
    <3>5. CASE q # p
      BY <1>6, <1>7, <2>5, <2>11, <3>1, <3>2, <3>3, <3>5, ZenonT(30) DEF IInv, SendersApart
    <3> QED BY <3>4, <3>5, ZenonT(30)
  <2>13. UpdateIsHeld'
    BY <1>1, <2>1 DEF UpdateIsHeld
  <2>14. OneContent'
    <3>1. \A n : ~Editing(n) /\ ~Editing(n)'
      BY <1>1, <2>1 DEF Editing
    <3>2. \A f, g \in (Held \cup Logged)' : f.id = g.id => f = g
      BY <1>6, <2>4, <3>1, ZenonT(30) DEF IInv, OneContent
    <3>3. \A f \in Logged : f.id # m
      BY <1>3, IdsOfRange DEF Logged, Journaled
    <3> QED BY <1>4, <1>6, <2>11, <3>1, <3>2, <3>3, ZenonT(30) DEF OneContent
  <2> QED BY <2>6, <2>7, <2>8, <2>9, <2>10, <2>12, <2>13, <2>14 DEF IInv
<1>10. CASE ~(p = Host /\ agent = "absent")
  <2>1. agent # "absent" /\ UNCHANGED <<agent, inbox, woken, driver>>
    BY <1>10 DEF SendBegin
  <2>2. Inboxed' = Inboxed /\ Held' = Held /\ Gone' = Gone
    BY <2>1, ZenonT(30) DEF Inboxed, Held, Gone
  <2>3. \A n : Untouched(n)' <=> Untouched(n)
    BY <1>1, <2>1, <2>2 DEF Untouched
  <2>4. Shape' /\ OncePerPlace' /\ ClaimIsHeld' /\ OnePlace' /\ AbsentIsClean'
    BY <1>1, <1>4, <1>5, <1>6, <2>1, <2>2, ZenonT(30) DEF IInv, Shape, OncePerPlace, ClaimIsHeld, OnePlace, AbsentIsClean
  <2>5. UnsentIsNowhere'
    BY <1>4, <1>5, <1>6, <2>3, ZenonT(30) DEF IInv, UnsentIsNowhere
  <2>6. SendersApart'
    <3> SUFFICES ASSUME NEW q \in Senders, Sending(q)'
                 PROVE  /\ \A r \in Senders : Sending(r)' /\ sender'[r].id = sender'[q].id => r = q
                        /\ sender'[q].pc = "append" => Untouched(sender[q].id)' /\ sender'[q].id \notin Journaled'
                        /\ sender'[q].attached => Untouched(sender[q].id)'
      BY ZenonT(30) DEF SendersApart
    <3>1. PICK n : n = sender'[q].id
      OBVIOUS
    <3>2. Untouched(n)' => Untouched(sender[q].id)'
      BY <3>1, ZenonT(30) DEF Untouched
    <3>3. \A r \in Senders : Sending(r)' /\ sender'[r].id = sender'[q].id => r = q
      BY <1>4, <1>7, ZenonT(30) DEF IInv, SendersApart
    <3>4. CASE q = p
      BY <1>3, <1>4, <1>6, <2>3, <3>1, <3>2, <3>3, <3>4, ZenonT(30)
    <3>5. CASE q # p
      BY <1>6, <1>7, <2>3, <3>1, <3>2, <3>3, <3>5, ZenonT(30) DEF IInv, SendersApart
    <3> QED BY <3>4, <3>5, ZenonT(30)
  <2>7. UpdateIsHeld'
    BY <1>1, <2>1, <2>2, ZenonT(30) DEF IInv, UpdateIsHeld
  <2>8. OneContent'
    <3>1. \A n : Editing(n)' <=> Editing(n)
      BY <1>1 DEF Editing
    <3>2. \A f \in Logged : f.id # m
      BY <1>3, IdsOfRange DEF Logged, Journaled
    <3>3. \A q \in Senders : Sending(q)' /\ sender'[q].attached =>
            \A f \in Logged : f.id = sender'[q].id => f = Entry(f.id, "sent")
      BY <1>4, <1>7, <3>2, ZenonT(30) DEF IInv, OneContent
    <3> QED BY <1>1, <1>6, <2>2, <3>1, <3>3, ZenonT(30) DEF IInv, OneContent
  <2> QED BY <2>4, <2>5, <2>6, <2>7, <2>8 DEF IInv
<1> QED BY <1>9, <1>10

\* The reservation of an update names a pending message and its place.
LEMMA ReservationIs ==
  ASSUME NEW ib \in Inboxes, NEW id \in Messages, NEW u \in {"edit", "remove", "steer"},
         id \in Ids(ib.followups) \cup Ids(ib.steps), Ids(ib.followups) \cap Ids(ib.steps) = {}
  PROVE  LET r == UpdateReservation(ib, id, u)
         IN /\ r \in Reservations /\ r.id = id /\ r.message.id = id
            /\ r.source = "next-turn" => id \notin Ids(ib.steps)
            /\ r.source = "next-step" => id \notin Ids(ib.followups)
<1> DEFINE followup == id \in Ids(ib.followups)
           source == IF followup THEN "next-turn" ELSE "next-step"
<1>1. PICK q : q = IF followup THEN ib.followups ELSE ib.steps
  OBVIOUS
<1>2. q \in Seq(Entries) /\ id \in Ids(q)
  BY <1>1 DEF Inboxes
<1>3. PICK i : i = PendingIndex(q, id)
  OBVIOUS
<1>4. i \in 1..Len(q) /\ q[i].id = id
  BY <1>2, <1>3, PendingPlace
<1>5. i - 1 \in Nat /\ q[i] \in Entries
  BY <1>2, <1>4
<1>6. PICK msg : msg = IF u = "edit" THEN Entry(id, "edited") ELSE q[i]
  OBVIOUS
<1>7. msg \in Entries /\ msg.id = id
  BY <1>4, <1>5, <1>6 DEF Entry, Entries
<1>8. UpdateReservation(ib, id, u)
        = [id |-> id, update |-> u, source |-> source, start |-> i - 1, message |-> msg]
  BY <1>1, <1>3, <1>6 DEF UpdateReservation
<1>9. source \in {"next-turn", "next-step"} /\ (source = "next-turn" <=> followup)
  OBVIOUS
<1> HIDE DEF source
<1> QED BY <1>5, <1>7, <1>8, <1>9 DEF Reservations

\* Reserving a queued message for an update keeps the invariant.
LEMMA UpdateReserveStep ==
  ASSUME IInv, NEW m \in Messages, NEW u \in Updates, UpdateReserve(m, u)
  PROVE  IInv'
<1>1. /\ update.pc = "idle" /\ agent = "live" /\ CanReserveUpdate(inbox, m, u, Running)
      /\ inbox' = Reserve(inbox, {m})
      /\ UNCHANGED <<journal, transcript, agent, woken, driver, sender, fate, stops>>
  BY DEF UpdateReserve
<1>2. /\ m \notin inbox.reserved /\ m \in Inboxed /\ m \notin inbox.injected
      /\ Ids(inbox.followups) \cap Ids(inbox.steps) = {} /\ inbox \in Inboxes
  BY <1>1, ZenonT(30) DEF CanReserveUpdate, Inboxed, IInv, OnePlace, Shape
<1>3. PICK r : r = UpdateReservation(inbox, m, u)
  OBVIOUS
<1>4. u \in {"edit", "remove", "steer"}
  BY QueueAssumption
<1>5. /\ r \in Reservations /\ r.id = m /\ r.message.id = m
      /\ r.source = "next-turn" => m \notin Ids(inbox.steps)
      /\ r.source = "next-step" => m \notin Ids(inbox.followups)
  BY <1>2, <1>3, <1>4, ReservationIs DEF Inboxed
<1>6. /\ update' \in QueueUpdates /\ update'.pc = "append" /\ update'.attached /\ update'.r = r
  <2>1. update' = [pc |-> "append", attached |-> TRUE, r |-> r]
    BY <1>3, ZenonT(30) DEF UpdateReserve
  <2> QED BY <1>5, <2>1 DEF QueueUpdates
<1>7. /\ inbox' \in Inboxes /\ inbox'.followups = inbox.followups /\ inbox'.steps = inbox.steps
      /\ inbox'.injected = inbox.injected /\ inbox'.reserved = inbox.reserved \cup {m}
  BY <1>1, <1>2 DEF Reserve, Inboxes
<1>8. Inboxed' = Inboxed /\ Held' = Held /\ Logged' = Logged /\ Journaled' = Journaled
  BY <1>1, <1>7, ZenonT(30) DEF Inboxed, Held, Logged, Journaled
<1>9. ASSUME NEW n, Untouched(n) PROVE Untouched(n)'
  <2>1. n # m
    BY <1>2, <1>9 DEF Untouched
  <2> QED BY <1>1, <1>5, <1>6, <1>8, <1>9, <2>1, ZenonT(30) DEF Untouched
<1>10. Shape' /\ OncePerPlace' /\ OnePlace'
  BY <1>1, <1>6, <1>7, <1>8, ZenonT(30) DEF IInv, Shape, OncePerPlace, OnePlace
<1>11. ClaimIsHeld' /\ AbsentIsClean'
  BY <1>1, <1>7, ZenonT(30) DEF IInv, ClaimIsHeld, AbsentIsClean, Gone
<1>12. UnsentIsNowhere'
  BY <1>1, <1>8, <1>9, ZenonT(30) DEF IInv, UnsentIsNowhere
<1>13. SendersApart'
  <2> SUFFICES ASSUME NEW q \in Senders, Sending(q)'
               PROVE  /\ \A s \in Senders : Sending(s)' /\ sender'[s].id = sender'[q].id => s = q
                      /\ sender'[q].pc = "append" => Untouched(sender[q].id)' /\ sender'[q].id \notin Journaled'
                      /\ sender'[q].attached => Untouched(sender[q].id)'
    BY DEF SendersApart
  <2>1. PICK n : n = sender[q].id
    OBVIOUS
  <2>2. Untouched(n)' => Untouched(sender[q].id)'
    BY <1>1, <2>1 DEF Untouched
  <2>3. \A s \in Senders : Sending(s)' <=> Sending(s)
    BY <1>1 DEF Sending
  <2> QED BY <1>1, <1>8, <1>9, <2>1, <2>2, <2>3, ZenonT(30) DEF IInv, SendersApart
<1>14. UpdateIsHeld'
  <2>1. m \notin Ids(driver.claim)
    BY <1>1, <1>2, ZenonT(30) DEF IInv, ClaimIsHeld, Gone
  <2>2. m \notin Ids(transcript) \cup Ids(driver.turn)
    BY <1>2 DEF IInv, OnePlace
  <2> QED BY <1>1, <1>2, <1>5, <1>6, <1>7, <2>1, <2>2, ZenonT(30) DEF UpdateIsHeld
<1>15. OneContent'
  <2>1. \A n : ~Editing(n) /\ ~Editing(n)'
    BY <1>1, <1>6, ZenonT(30) DEF Editing
  <2>2. \A q \in Senders : Sending(q)' <=> Sending(q)
    BY <1>1 DEF Sending
  <2> QED BY <1>1, <1>8, <2>1, <2>2, ZenonT(30) DEF IInv, OneContent
<1> QED BY <1>10, <1>11, <1>12, <1>13, <1>14, <1>15 DEF IInv
=============================================================================
