-------------------------- MODULE DashboardProofs --------------------------
(***************************************************************************)
(* Proofs about the dashboard: its live view, for any sessions, any length *)
(* of their logs and any cuts, and its list of sessions. Both filter with  *)
(* Picked; what it returns is shown from the end of the sequence.          *)
(***************************************************************************)
EXTENDS LiveView, Dashboard, SequenceTheorems, WellFoundedInduction, TLAPS
-----------------------------------------------------------------------------
(* Numbers *)

\* The order of the numbers.
Below == {ss \in Nat \X Nat : ss[1] < ss[2]}

\* Every set of numbers that is not empty has a smallest.
LEMMA Smallest ==
  ASSUME NEW S, S \subseteq Nat, S # {}
  PROVE  \E p \in S : \A q \in S : p <= q
<1>1. IsWellFoundedOn(Below, Nat)
  BY NatLessThanWellFounded, Zenon DEF OpToRel, Below
<1>2. PICK p \in S : \A q \in S : <<q, p>> \notin Below
  BY <1>1, WFMin, Zenon
<1>3. ASSUME NEW q \in S PROVE p <= q
  <2>1. q \in Nat /\ p \in Nat /\ <<q, p>> \notin Below
    BY <1>2
  <2>2. q < p => <<q, p>> \in Below
    BY <2>1 DEF Below
  <2> QED BY <2>1, <2>2
<1> QED BY <1>3

\* What holds at the end of a sequence and, if at one place, then at the place
\* before it, holds at the start.
LEMMA FromTheEnd ==
  ASSUME NEW n \in Nat, NEW S, n \in S, \A k \in 1 .. n - 1 : k + 1 \in S => k \in S, n > 0
  PROVE  1 .. n \subseteq S
<1> DEFINE back == {d \in Nat : d < n /\ n - d \notin S}
<1>1. SUFFICES ASSUME NEW k \in 1 .. n, k \notin S PROVE FALSE
  OBVIOUS
<1>2. n - k \in Nat /\ n - k < n /\ n - (n - k) = k
  BY <1>1
<1>3. n - k \in back
  BY <1>1, <1>2
<1>4. PICK d \in back : \A q \in back : d <= q
  BY <1>3, Smallest
<1>5. d \in Nat /\ d < n /\ n - d \notin S
  BY <1>4
<1> DEFINE j == n - d
<1>6. j \in 1 .. n - 1 /\ j \notin S
  <2>1. d # 0
    BY <1>5
  <2> QED BY <2>1, <1>5
<1>7. d - 1 \in Nat /\ d - 1 < n /\ d - 1 \notin back
  BY <1>4, <1>5, <1>6
<1>8. j + 1 = n - (d - 1)
  BY <1>5
<1>9. n - (d - 1) \in S
  BY <1>7
<1> HIDE DEF j
<1>10. j + 1 \in S
  BY <1>8, <1>9
<1> QED BY <1>6, <1>10
-----------------------------------------------------------------------------
(* The filter *)

\* A function that goes on as PickFrom says.
IsPickLoop(g, s, places) == g = [k \in 1 .. Len(s) + 1 |-> PickFrom(g, s, places, k)]

\* The function that Picked unfolds.
PickLoop(s, places) ==
  CHOOSE from : from = [k \in 1 .. Len(s) + 1 |-> PickFrom(from, s, places, k)]

\* A function that goes on as PickFrom says is what Picked begins with.
LEMMA PickedIs ==
  ASSUME NEW S, NEW s \in Seq(S), NEW places, NEW g,
         g = [k \in 1 .. Len(s) + 1 |-> PickFrom(g, s, places, k)]
  PROVE  Picked(s, places) = g[1]
<1> DEFINE f == PickLoop(s, places)
<1>1. f = [k \in 1 .. Len(s) + 1 |-> PickFrom(f, s, places, k)]
  BY DEF PickLoop
<1>2. Picked(s, places) = f[1]
  BY DEF Picked, PickLoop
<1> HIDE DEF f
<1> DEFINE L == Len(s)
           same == {k \in 1 .. L + 1 : f[k] = g[k]}
<1>3. L \in Nat
  BY LenProperties
<1>4. ASSUME NEW k \in 1 .. L + 1
      PROVE  f[k] = PickFrom(f, s, places, k) /\ g[k] = PickFrom(g, s, places, k)
  BY <1>1
<1>5. L + 1 \in same
  <2>1. L + 1 \in 1 .. L + 1 /\ L + 1 > L
    BY <1>3
  <2> QED BY <2>1, <1>4 DEF PickFrom
<1>6. ASSUME NEW k \in 1 .. (L + 1) - 1, k + 1 \in same PROVE k \in same
  <2>1. k \in 1 .. L + 1 /\ ~(k > L)
    BY <1>3
  <2>2. f[k + 1] = g[k + 1]
    BY <1>6
  <2> HIDE DEF L
  <2>3. PickFrom(f, s, places, k) = PickFrom(g, s, places, k)
    BY <2>2 DEF PickFrom
  <2>4. f[k] = g[k]
    BY <2>1, <2>3, <1>4
  <2> QED BY <2>1, <2>4
<1> HIDE DEF same, L
<1>7. 1 .. L + 1 \subseteq same
  BY <1>3, <1>5, <1>6, FromTheEnd
<1>8. 1 \in same
  BY <1>3, <1>7
<1> QED BY <1>2, <1>8 DEF same

\* There is such a function: it is built from the end of the sequence.
LEMMA PickLoopExists ==
  ASSUME NEW S, NEW s \in Seq(S), NEW places
  PROVE  \E g : IsPickLoop(g, s, places)
<1> DEFINE L == Len(s)
           Picks(g, n) == g = [k \in n .. L + 1 |-> PickFrom(g, s, places, k)]
           built == {n \in 1 .. L + 1 : \E g : Picks(g, n)}
<1>1. L \in Nat
  BY LenProperties
<1>2. L + 1 \in built
  <2> DEFINE g == [k \in L + 1 .. L + 1 |-> <<>>]
  <2>1. ASSUME NEW k \in L + 1 .. L + 1 PROVE PickFrom(g, s, places, k) = <<>>
    <3>1. k > L
      BY <1>1
    <3> QED BY <3>1 DEF PickFrom
  <2>2. g = [k \in L + 1 .. L + 1 |-> PickFrom(g, s, places, k)]
    BY <2>1
  <2>3. L + 1 \in 1 .. L + 1
    BY <1>1
  <2>4. \E h : Picks(h, L + 1)
    BY <2>2
  <2> QED BY <2>3, <2>4
<1>3. ASSUME NEW n \in 1 .. (L + 1) - 1, n + 1 \in built PROVE n \in built
  <2>1. n \in 1 .. L /\ n \in 1 .. L + 1
    BY <1>1
  <2>2. PICK f : Picks(f, n + 1)
    BY <1>3
  <2> DEFINE g == [k \in n .. L + 1 |-> IF k = n THEN PickFrom(f, s, places, n) ELSE f[k]]
  <2>3. ASSUME NEW k \in n .. L + 1 PROVE g[k] = PickFrom(g, s, places, k)
    <3>1. CASE k = L + 1
      <4>1. k > L /\ k # n /\ k \in n + 1 .. L + 1
        BY <1>1, <2>1, <3>1
      <4>2. g[k] = f[k] /\ f[k] = PickFrom(f, s, places, k)
        BY <4>1, <2>2
      <4> QED BY <4>1, <4>2 DEF PickFrom
    <3>2. CASE k # L + 1
      <4>1. k \in n .. L /\ k + 1 \in n + 1 .. L + 1 /\ k + 1 \in n .. L + 1 /\ k + 1 # n
        BY <1>1, <2>1, <3>2
      <4>2. g[k + 1] = f[k + 1]
        BY <4>1
      <4>3. g[k] = PickFrom(f, s, places, k)
        <5>1. CASE k = n
          BY <5>1
        <5>2. CASE k # n
          <6>1. k \in n + 1 .. L + 1
            BY <1>1, <2>1, <5>2
          <6> QED BY <5>2, <6>1, <2>2
        <5> QED BY <5>1, <5>2
      <4> HIDE DEF g, L
      <4>4. PickFrom(f, s, places, k) = PickFrom(g, s, places, k)
        BY <4>2 DEF PickFrom
      <4> QED BY <4>3, <4>4
    <3> QED BY <3>1, <3>2
  <2>4. g = [k \in n .. L + 1 |-> g[k]]
    OBVIOUS
  <2> HIDE DEF g
  <2>5. Picks(g, n)
    BY <2>3, <2>4
  <2> QED BY <2>1, <2>5
<1>4. 1 .. L + 1 \subseteq built
  <2> HIDE DEF built, L
  <2> QED BY <1>1, <1>2, <1>3, FromTheEnd
<1>5. PICK g : Picks(g, 1)
  BY <1>1, <1>4
<1> QED BY <1>5 DEF IsPickLoop

\* What is picked are elements of the sequence at those places.
THEOREM PickedIsASequence ==
  ASSUME NEW S, NEW s \in Seq(S), NEW places
  PROVE  Picked(s, places) \in Seq({s[k] : k \in places \cap (1 .. Len(s))})
<1> DEFINE L == Len(s)
           T == Seq({s[k] : k \in places \cap (1 .. L)})
<1>1. PICK g : g = [k \in 1 .. L + 1 |-> PickFrom(g, s, places, k)]
  <2>1. PICK g : IsPickLoop(g, s, places)
    BY PickLoopExists
  <2> QED BY <2>1 DEF IsPickLoop
<1> DEFINE fits == {k \in 1 .. L + 1 : g[k] \in T}
<1>2. L \in Nat
  BY LenProperties
<1>3. L + 1 \in fits
  <2>1. L + 1 > L /\ L + 1 \in 1 .. L + 1
    BY <1>2
  <2>2. g[L + 1] = <<>>
    BY <1>1, <2>1 DEF PickFrom
  <2> QED BY <2>1, <2>2, EmptySeq
<1>4. ASSUME NEW k \in 1 .. (L + 1) - 1, k + 1 \in fits PROVE k \in fits
  <2>1. k \in 1 .. L + 1 /\ ~(k > L) /\ k \in 1 .. L
    BY <1>2
  <2>2. g[k] = (IF k \in places THEN <<s[k]>> ELSE <<>>) \o g[k + 1]
    <3> HIDE DEF T
    <3> QED BY <1>1, <2>1 DEF PickFrom
  <2>3. (IF k \in places THEN <<s[k]>> ELSE <<>>) \in T
    <3> DEFINE E == {s[j] : j \in places \cap (1 .. L)}
    <3>1. CASE k \in places
      <4>1. s[k] \in E
        BY <2>1, <3>1
      <4> HIDE DEF E
      <4> QED BY <3>1, <4>1
    <3>2. CASE k \notin places
      BY <3>2, EmptySeq
    <3> QED BY <3>1, <3>2
  <2>4. g[k + 1] \in T
    BY <1>4
  <2>5. g[k] \in T
    BY <2>2, <2>3, <2>4, ConcatProperties
  <2> QED BY <2>1, <2>5
<1>5. 1 .. L + 1 \subseteq fits
  <2> HIDE DEF fits, L, T
  <2> QED BY <1>2, <1>3, <1>4, FromTheEnd
<1>6. g[1] \in T
  BY <1>2, <1>5
<1> QED BY <1>1, <1>6, PickedIs

\* A filter that everything passes returns the sequence.
LEMMA PickedAll ==
  ASSUME NEW S, NEW s \in Seq(S), NEW places, 1 .. Len(s) \subseteq places
  PROVE  Picked(s, places) = s
<1> DEFINE L == Len(s)
           g == [k \in 1 .. L + 1 |-> SubSeq(s, k, L)]
<1>1. L \in Nat
  BY LenProperties
<1>2. ASSUME NEW k \in 1 .. L + 1 PROVE g[k] = PickFrom(g, s, places, k)
  <2>1. CASE k > L
    <3>1. SubSeq(s, k, L) = <<>>
      BY <1>1, <2>1, SubSeqEmpty
    <3> QED BY <2>1, <3>1 DEF PickFrom
  <2>2. CASE ~(k > L)
    <3>1. k \in 1 .. L /\ k + 1 \in 1 .. L + 1
      BY <1>1, <2>2
    <3>2. SubSeq(s, k, L) = <<s[k]>> \o SubSeq(s, k + 1, L)
      BY <1>1, <3>1, SubSeqRecursiveFirst
    <3>3. k \in places
      BY <3>1
    <3>4. PickFrom(g, s, places, k) = <<s[k]>> \o g[k + 1]
      BY <2>2, <3>3 DEF PickFrom
    <3>5. g[k + 1] = SubSeq(s, k + 1, L) /\ g[k] = SubSeq(s, k, L)
      BY <3>1
    <3> QED BY <3>2, <3>4, <3>5
  <2> QED BY <2>1, <2>2
<1>3. g = [k \in 1 .. L + 1 |-> g[k]] /\ g[1] = SubSeq(s, 1, L)
  BY <1>1
<1> HIDE DEF g
<1>4. g = [k \in 1 .. L + 1 |-> PickFrom(g, s, places, k)]
  BY <1>2, <1>3
<1>5. Picked(s, places) = SubSeq(s, 1, L)
  BY <1>3, <1>4, PickedIs
<1> QED BY <1>5, SubSeqFull
-----------------------------------------------------------------------------
(* The tail *)

\* Half of a number, and whether it is even.
LEMMA Halves ==
  ASSUME NEW k \in Nat
  PROVE  k \div 2 \in Nat /\ k % 2 \in {0, 1} /\ k = 2 * (k \div 2) + (k % 2)
OBVIOUS

\* A number is twice its half, or one more.
LEMMA HalfIs ==
  ASSUME NEW k \in Nat, NEW h \in Nat, NEW b \in {0, 1}, k = 2 * h + b
  PROVE  k \div 2 = h /\ k % 2 = b
<1>1. k \div 2 \in Nat /\ k % 2 \in {0, 1} /\ k = 2 * (k \div 2) + (k % 2)
  BY Halves
<1> DEFINE d == k \div 2
           m == k % 2
<1>2. d \in Nat /\ m \in {0, 1} /\ 2 * d + m = 2 * h + b
  BY <1>1
<1> HIDE DEF d, m
<1>3. d = h /\ m = b
  BY <1>2
<1> QED BY <1>3 DEF d, m

\* The numbers from `a` + 1 on, `n` of them.
From(a, n) == [k \in 1 .. n |-> a + k]

\* They are a sequence.
LEMMA FromIsASequence ==
  ASSUME NEW a \in Nat, NEW n \in Nat
  PROVE  /\ From(a, n) \in Seq(Nat) /\ Len(From(a, n)) = n
         /\ \A k \in 1 .. n : From(a, n)[k] = a + k
<1>1. From(a, n) \in [1 .. n -> Nat]
  BY DEF From
<1>2. From(a, n) \in Seq(Nat)
  BY <1>1
<1>3. DOMAIN From(a, n) = 1 .. n
  BY DEF From
<1>4. Len(From(a, n)) = n
  BY <1>2, <1>3, LenProperties
<1> QED BY <1>2, <1>4 DEF From

\* And go on with those behind them.
LEMMA FromJoins ==
  ASSUME NEW a \in Nat, NEW n \in Nat, NEW m \in Nat
  PROVE  From(a, n) \o From(a + n, m) = From(a, n + m)
<1> DEFINE s == From(a, n)
           t == From(a + n, m)
           u == From(a, n + m)
<1>1. /\ s \in Seq(Nat) /\ Len(s) = n /\ \A k \in 1 .. n : s[k] = a + k
      /\ t \in Seq(Nat) /\ Len(t) = m /\ \A k \in 1 .. m : t[k] = (a + n) + k
      /\ u \in Seq(Nat) /\ Len(u) = n + m /\ \A k \in 1 .. n + m : u[k] = a + k
  <2>1. a + n \in Nat /\ n + m \in Nat
    OBVIOUS
  <2>2. s \in Seq(Nat) /\ Len(s) = n /\ \A k \in 1 .. n : s[k] = a + k
    BY FromIsASequence
  <2>3. t \in Seq(Nat) /\ Len(t) = m /\ \A k \in 1 .. m : t[k] = (a + n) + k
    BY <2>1, FromIsASequence
  <2>4. u \in Seq(Nat) /\ Len(u) = n + m /\ \A k \in 1 .. n + m : u[k] = a + k
    BY <2>1, FromIsASequence
  <2> HIDE DEF s, t, u
  <2> QED BY <2>2, <2>3, <2>4
<1> HIDE DEF s, t, u
<1>2. /\ s \o t \in Seq(Nat) /\ Len(s \o t) = n + m
      /\ \A k \in 1 .. n + m : (s \o t)[k] = IF k <= n THEN s[k] ELSE t[k - n]
  BY <1>1, ConcatProperties, ZenonT(60)
<1>3. ASSUME NEW k \in 1 .. n + m PROVE (s \o t)[k] = u[k]
  <2>1. CASE k <= n
    BY <1>1, <1>2, <2>1
  <2>2. CASE ~(k <= n)
    <3>1. k - n \in 1 .. m
      BY <2>2
    <3> QED BY <1>1, <1>2, <2>2, <3>1, SMTT(40)
  <2> QED BY <2>1, <2>2
<1>4. s \o t = u
  BY <1>1, <1>2, <1>3, SeqEqual
<1> QED BY <1>4 DEF s, t, u

\* One that is even is the end of a line, and the one before it its start.
LEMMA FeedIsEven ==
  ASSUME NEW c \in Nat, NEW n \in Nat, NEW k \in 1 .. n
  PROVE  Parses(From(2 * c, n), k) <=> k % 2 = 0
<1> DEFINE u == From(2 * c, n)
<1>1. \A j \in 1 .. n : u[j] = 2 * c + j
  BY FromIsASequence
<1> HIDE DEF u
<1>2. ASSUME NEW j \in 1 .. n PROVE IsFeed(u[j]) <=> j % 2 = 0
  <2>1. j = 2 * (j \div 2) + (j % 2) /\ j \div 2 \in Nat /\ j % 2 \in {0, 1}
    BY Halves
  <2>2. PICK h \in Nat, b \in {0, 1} : h = j \div 2 /\ b = j % 2
    BY <2>1
  <2>3. u[j] = 2 * (c + h) + b /\ u[j] \in Nat /\ c + h \in Nat
    BY <1>1, <2>1, <2>2
  <2>4. u[j] % 2 = b
    BY <2>3, HalfIs
  <2> QED BY <2>2, <2>4 DEF IsFeed
<1>3. CASE k % 2 = 0
  <2>1. k = 2 * (k \div 2) /\ k \div 2 \in Nat
    BY <1>3, Halves
  <2>2. k > 1
    BY <2>1
  <2>3. k - 1 \in 1 .. n /\ u[k - 1] = u[k] - 1
    BY <1>1, <2>2
  <2>4. k > 2 => IsFeed(u[k - 2])
    <3>1. ASSUME k > 2 PROVE IsFeed(u[k - 2])
      <4>1. PICK h \in Nat : h = k \div 2
        BY <2>1
      <4>2. k - 2 \in 1 .. n /\ k - 2 = 2 * (h - 1) + 0 /\ h - 1 \in Nat /\ k - 2 \in Nat
        BY <2>1, <3>1, <4>1
      <4>3. (k - 2) % 2 = 0
        BY <4>2, HalfIs
      <4> QED BY <1>2, <4>2, <4>3
    <3> QED BY <3>1
  <2> QED BY <1>2, <1>3, <2>2, <2>3, <2>4 DEF Parses, u
<1>4. CASE k % 2 # 0
  BY <1>2, <1>4 DEF Parses, u
<1> QED BY <1>3, <1>4

\* What is drained of units that begin with a line: its lines.
LEMMA LinesAreWhole ==
  ASSUME NEW c \in Nat, NEW n \in Nat
  PROVE  Lines(From(2 * c, n)) = From(c, n \div 2)
<1> DEFINE u == From(2 * c, n)
           s == [k \in DOMAIN u |-> u[k] \div 2]
           places == {k \in DOMAIN u : Parses(u, k)}
           g == [k \in 1 .. n + 1 |-> From(c + (k - 1) \div 2, n \div 2 - (k - 1) \div 2)]
<1>1. DOMAIN u = 1 .. n /\ \A k \in 1 .. n : u[k] = 2 * c + k
  BY DEF From
<1>2. ASSUME NEW k \in 1 .. n
      PROVE  /\ s[k] = c + k \div 2 /\ s[k] \in Nat
             /\ k \in places <=> k % 2 = 0
  <2>1. k \div 2 \in Nat /\ k % 2 \in {0, 1} /\ k = 2 * (k \div 2) + (k % 2)
    BY Halves
  <2>2. PICK h \in Nat, b \in {0, 1} : h = k \div 2 /\ b = k % 2
    BY <2>1
  <2>3. 2 * c + k \in Nat /\ c + h \in Nat /\ 2 * c + k = 2 * (c + h) + b
    BY <2>1, <2>2
  <2>4. (2 * c + k) \div 2 = c + h
    BY <2>3, HalfIs
  <2>5. u[k] = 2 * c + k
    BY <1>1
  <2>6. s[k] = c + h
    BY <1>1, <2>4, <2>5
  <2>7. Parses(u, k) <=> k % 2 = 0
    BY FeedIsEven
  <2> HIDE DEF u
  <2> QED BY <1>1, <2>2, <2>6, <2>7
<1>3. s \in Seq(Nat) /\ Len(s) = n
  <2> HIDE DEF u
  <2>1. s = [k \in 1 .. n |-> s[k]] /\ \A k \in 1 .. n : s[k] \in Nat
    BY <1>1, <1>2
  <2>2. DOMAIN s = 1 .. n
    BY <1>1
  <2> HIDE DEF s
  <2>3. s \in [1 .. n -> Nat]
    BY <2>1
  <2>4. s \in Seq(Nat)
    BY <2>3
  <2> QED BY <2>2, <2>4, LenProperties
<1> HIDE DEF u, s, places
<1>4. ASSUME NEW k \in 1 .. n + 1 PROVE g[k] = PickFrom(g, s, places, k)
  <2>1. CASE k = n + 1
    <3>1. k - 1 = n /\ n \div 2 \in Nat /\ n \div 2 - n \div 2 = 0 /\ k > Len(s)
      BY <1>3, <2>1, Halves
    <3>2. g[k] = From(c + n \div 2, 0)
      BY <3>1
    <3>3. From(c + n \div 2, 0) = <<>>
      BY DEF From
    <3> QED BY <3>1, <3>2, <3>3 DEF PickFrom
  <2>2. CASE k # n + 1
    <3>1. k \in 1 .. n /\ k + 1 \in 1 .. n + 1 /\ ~(k > Len(s)) /\ (k + 1) - 1 = k /\ k - 1 \in Nat
      BY <1>3, <2>2
    <3>2. PICK h \in Nat, b \in {0, 1} : h = k \div 2 /\ b = k % 2 /\ k = 2 * h + b
      BY <3>1, Halves
    <3>3. PICK d \in Nat, e \in {0, 1} : d = n \div 2 /\ e = n % 2 /\ n = 2 * d + e
      BY Halves
    <3>4. h <= d /\ d - h \in Nat
      BY <3>1, <3>2, <3>3
    <3>5. g[k + 1] = From(c + h, d - h)
      BY <3>1, <3>2, <3>3
    <3>6. CASE b = 1
      <4>1. k - 1 = 2 * h + 0
        BY <3>1, <3>2, <3>6
      <4>2. (k - 1) \div 2 = h
        BY <3>1, <4>1, HalfIs
      <4>3. g[k] = From(c + h, d - h)
        BY <3>3, <4>2
      <4>4. From(c + h, d - h) \in Seq(Nat)
        <5>1. c + h \in Nat
          BY <3>2
        <5> QED BY <3>4, <5>1, FromIsASequence
      <4>5. <<>> \o From(c + h, d - h) = From(c + h, d - h)
        BY <4>4, ConcatEmptySeq
      <4>6. k \notin places
        <5>1. k % 2 # 0
          BY <3>2, <3>6
        <5> QED BY <1>2, <3>1, <5>1
      <4> HIDE DEF g
      <4> QED BY <3>1, <3>5, <4>3, <4>5, <4>6 DEF PickFrom
    <3>7. CASE b = 0
      <4>1. h - 1 \in Nat /\ k - 1 = 2 * (h - 1) + 1
        BY <3>1, <3>2, <3>7
      <4>2. (k - 1) \div 2 = h - 1
        BY <3>1, <4>1, HalfIs
      <4>3. g[k] = From(c + (h - 1), d - (h - 1))
        BY <3>3, <4>2
      <4>4. k \in places /\ s[k] = c + h
        BY <1>2, <3>1, <3>2, <3>7
      <4>5. From(c + (h - 1), 1) = <<c + h>>
        <5>1. From(c + (h - 1), 1) = [j \in 1 .. 1 |-> c + h]
          <6>1. \A j \in 1 .. 1 : (c + (h - 1)) + j = c + h
            BY <4>1
          <6> QED BY <6>1 DEF From
        <5> QED BY <5>1
      <4>6. From(c + (h - 1), 1) \o From((c + (h - 1)) + 1, d - h) = From(c + (h - 1), 1 + (d - h))
        <5> DEFINE f == c + (h - 1)
                   m == d - h
        <5>1. f \in Nat /\ m \in Nat
          BY <3>4, <4>1
        <5> HIDE DEF f, m
        <5>2. From(f, 1) \o From(f + 1, m) = From(f, 1 + m)
          BY <5>1, FromJoins, ZenonT(60)
        <5> QED BY <5>2 DEF f, m
      <4>7. (c + (h - 1)) + 1 = c + h /\ 1 + (d - h) = d - (h - 1)
        BY <3>4, <4>1
      <4>8. <<c + h>> \o From(c + h, d - h) = From(c + (h - 1), d - (h - 1))
        BY <4>5, <4>6, <4>7
      <4> HIDE DEF g
      <4> QED BY <3>1, <3>5, <4>3, <4>4, <4>8 DEF PickFrom
    <3> QED BY <3>6, <3>7
  <2> QED BY <2>1, <2>2
<1>5. g = [k \in 1 .. n + 1 |-> g[k]] /\ 1 \in 1 .. n + 1
  OBVIOUS
<1>6. g[1] = From(c, n \div 2)
  <2>1. 0 \div 2 = 0
    BY HalfIs
  <2>2. n \div 2 \in Nat
    BY Halves
  <2>3. g[1] = From(c + 0, n \div 2 - 0)
    BY <1>5, <2>1
  <2> QED BY <2>2, <2>3
<1> HIDE DEF g
<1>7. g = [k \in 1 .. Len(s) + 1 |-> PickFrom(g, s, places, k)]
  BY <1>3, <1>4, <1>5
<1>8. Picked(s, places) = g[1]
  BY <1>3, <1>7, PickedIs
<1>9. Lines(u) = Picked(s, places)
  BY DEF Lines, s, places
<1> QED BY <1>6, <1>8, <1>9 DEF u

\* What is left is the start of a line, if its end is not there yet.
LEMMA RestIsTheStart ==
  ASSUME NEW c \in Nat, NEW n \in Nat
  PROVE  Rest(From(2 * c, n)) = From(2 * (c + n \div 2), n % 2)
<1> DEFINE u == From(2 * c, n)
           feeds == {i \in 1 .. Len(u) : IsFeed(u[i])}
           last == SelectLastInSeq(u, IsFeed)
<1>1. u \in Seq(Nat) /\ Len(u) = n /\ \A k \in 1 .. n : u[k] = 2 * c + k /\ u[k] \in Nat
  <2>1. 2 * c \in Nat
    OBVIOUS
  <2>2. u \in Seq(Nat) /\ Len(u) = n /\ \A k \in 1 .. n : u[k] = 2 * c + k
    BY <2>1, FromIsASequence
  <2> HIDE DEF u
  <2> QED BY <2>2
<1>2. PICK d \in Nat, e \in {0, 1} : d = n \div 2 /\ e = n % 2 /\ n = 2 * d + e
  BY Halves
<1> HIDE DEF u
<1>3. ASSUME NEW k \in 1 .. n PROVE IsFeed(u[k]) <=> k % 2 = 0
  <2>1. k = 2 * (k \div 2) + (k % 2) /\ k \div 2 \in Nat /\ k % 2 \in {0, 1}
    BY Halves
  <2>2. PICK h \in Nat, b \in {0, 1} : h = k \div 2 /\ b = k % 2
    BY <2>1
  <2>3. u[k] = 2 * (c + h) + b /\ u[k] \in Nat /\ c + h \in Nat
    BY <1>1, <2>1, <2>2
  <2>4. u[k] % 2 = b
    BY <2>3, HalfIs
  <2> QED BY <2>2, <2>4 DEF IsFeed
<1>4. last = 2 * d
  <2>1. last = IF feeds # {} THEN Max(feeds) ELSE 0
    BY DEF SelectLastInSeq
  <2>2. ASSUME NEW k \in feeds PROVE k \in 1 .. n /\ k <= 2 * d
    <3>1. k \in 1 .. n /\ k % 2 = 0
      BY <1>1, <1>3
    <3>2. PICK h \in Nat : k = 2 * h
      BY <3>1, Halves
    <3> QED BY <1>2, <3>1, <3>2
  <2>3. CASE d = 0
    <3>1. feeds = {}
      <4>1. ASSUME NEW k \in feeds PROVE FALSE
        BY <2>2, <2>3
      <4> QED BY <4>1
    <3> QED BY <2>1, <2>3, <3>1
  <2>4. CASE d # 0
    <3>1. 2 * d \in 1 .. n /\ 2 * d = 2 * d + 0
      BY <1>2, <2>4
    <3>2. (2 * d) % 2 = 0
      BY <3>1, HalfIs
    <3>3. 2 * d \in feeds
      BY <1>1, <1>3, <3>1, <3>2
    <3> DEFINE top == 2 * d
    <3>4. top \in feeds /\ \A k \in feeds : k <= top /\ k \in Int
      BY <2>2, <3>3
    <3>5. \A x \in feeds : (\A y \in feeds : x >= y) => x = top
      <4> HIDE DEF feeds, top
      <4> SUFFICES ASSUME NEW x \in feeds, \A y \in feeds : x >= y PROVE x = top
        OBVIOUS
      <4>1. x >= top /\ x <= top /\ x \in Int /\ top \in Int
        BY <3>4
      <4> QED BY <4>1
    <3>6. \A y \in feeds : top >= y
      <4> HIDE DEF feeds
      <4> QED BY <3>4
    <3> HIDE DEF feeds, top
    <3>7. Max(feeds) = top
      BY <3>4, <3>5, <3>6, Zenon DEF Max
    <3> QED BY <2>1, <3>4, <3>7 DEF top
  <2> QED BY <2>3, <2>4
<1> DEFINE r == SubSeq(u, 2 * d + 1, n)
           f == From(2 * (c + d), e)
<1>5. /\ r \in Seq(Nat) /\ Len(r) = e
      /\ \A i \in 1 .. e : r[i] = u[2 * d + 1 + i - 1]
  <2>1. \A i \in 2 * d + 1 .. n : u[i] \in Nat
    BY <1>1
  <2>2. /\ r \in Seq(Nat)
        /\ Len(r) = IF 2 * d + 1 <= n THEN n - (2 * d + 1) + 1 ELSE 0
        /\ \A i \in 1 .. n - (2 * d + 1) + 1 : r[i] = u[2 * d + 1 + i - 1]
    BY <2>1, SubSeqProperties
  <2> HIDE DEF r
  <2>3. Len(r) = e /\ n - (2 * d + 1) + 1 = e
    BY <1>2, <2>2
  <2> QED BY <2>2, <2>3
<1>6. f \in Seq(Nat) /\ Len(f) = e /\ \A k \in 1 .. e : f[k] = 2 * (c + d) + k
  <2>1. 2 * (c + d) \in Nat /\ e \in Nat
    BY <1>2
  <2> QED BY <2>1, FromIsASequence
<1> HIDE DEF r, f
<1>7. ASSUME NEW i \in 1 .. e PROVE r[i] = f[i]
  <2>1. 2 * d + 1 + i - 1 = 2 * d + i /\ 2 * d + i \in 1 .. n
    BY <1>2
  <2>2. u[2 * d + i] = 2 * c + (2 * d + i)
    BY <1>1, <2>1
  <2> QED BY <1>5, <1>6, <2>1, <2>2
<1>8. r = f
  BY <1>2, <1>5, <1>6, <1>7, SeqEqual
<1>9. Rest(u) = SubSeq(u, last + 1, Len(u))
  BY DEF Rest
<1>10. Rest(u) = r
  BY <1>1, <1>4, <1>9 DEF r
<1>11. f = From(2 * (c + n \div 2), n % 2)
  BY <1>2 DEF f
<1> QED BY <1>8, <1>10, <1>11 DEF u

\* How the tail stands when it has read `o` units of a log.
TailAt(o) == [offset |-> o, partial |-> From(2 * (o \div 2), o % 2)]

\* A read returns the lines that end in it, and leaves the tail where it ended,
\* whatever the places at which it began and ended (eventSource.ts:75).
THEOREM ReadsAreWhole ==
  ASSUME NEW o \in Nat, NEW size \in Nat, o <= size
  PROVE  ReadTo(TailAt(o), size) =
           [records |-> From(o \div 2, size \div 2 - o \div 2), tail |-> TailAt(size)]
<1>1. PICK c \in Nat, b \in {0, 1} : c = o \div 2 /\ b = o % 2 /\ o = 2 * c + b
  BY Halves
<1>2. PICK d \in Nat, e \in {0, 1} : d = size \div 2 /\ e = size % 2 /\ size = 2 * d + e
  BY Halves
<1> DEFINE n == size - 2 * c
           all == From(2 * c, b) \o From(o, size - o)
<1>3. n \in Nat /\ n = 2 * (d - c) + e /\ d - c \in Nat
  BY <1>1, <1>2
<1>4. n \div 2 = d - c /\ n % 2 = e
  <2> HIDE DEF n
  <2> QED BY <1>2, <1>3, HalfIs
<1>5. all = From(2 * c, n)
  <2> DEFINE a == 2 * c
             m == size - o
  <2>1. a \in Nat /\ m \in Nat /\ b \in Nat /\ a + b = o /\ b + m = n
    BY <1>1
  <2> HIDE DEF a, m, n
  <2>2. From(a, b) \o From(a + b, m) = From(a, b + m)
    BY <2>1, FromJoins, ZenonT(60)
  <2> QED BY <2>1, <2>2 DEF a, m
<1>6. Lines(all) = From(c, d - c)
  <2> HIDE DEF n, all
  <2> QED BY <1>3, <1>4, <1>5, LinesAreWhole
<1>7. Rest(all) = From(2 * d, e)
  <2>1. c + (d - c) = d
    BY <1>1, <1>2
  <2> HIDE DEF n, all
  <2>2. Rest(all) = From(2 * (c + (d - c)), e)
    BY <1>3, <1>4, <1>5, RestIsTheStart
  <2> QED BY <2>1, <2>2
<1>8. Resume(TailAt(o), size) = TailAt(o)
  <2>1. TailAt(o).offset = o /\ ~(size < o)
    BY DEF TailAt
  <2> QED BY <2>1 DEF Resume
<1>9. TailAt(o).partial = From(2 * c, b) /\ TailAt(o).offset = o
  BY <1>1 DEF TailAt
<1>10. [k \in 1 .. (size - o) |-> o + k] = From(o, size - o)
  BY DEF From
<1>11. ReadTo(TailAt(o), size) =
         [records |-> Lines(all), tail |-> [offset |-> size, partial |-> Rest(all)]]
  BY <1>8, <1>9, <1>10 DEF ReadTo
<1>12. TailAt(size) = [offset |-> size, partial |-> From(2 * d, e)]
  BY <1>2 DEF TailAt
<1> HIDE DEF all
<1> QED BY <1>1, <1>2, <1>6, <1>7, <1>11, <1>12
-----------------------------------------------------------------------------
(* The live view *)

\* The effects of the follower, and the logs.
EffectType ==
  [session : Sessions, aborted : BOOLEAN, size : Nat, tail : [offset : Nat, partial : Seq(Nat)],
   pc : {"creating", "idle", "read", "boot", "replay", "over"},
   present : BOOLEAN, events : Seq(Nat), pending : Nat, rendered : Nat,
   collected : BOOLEAN, exit : BOOLEAN, screen : Seq(Nat), drawn : BOOLEAN,
   last : {"none", "pending", "following", "exited", "collected"},
   renderer : {"new", "up", "gone"}, disposed : BOOLEAN, applied : Seq(Nat)]
LogType == [state : {"absent", "there", "gone"}, units : Nat]

\* An effect has drawn the first records of its log and holds those up to where
\* its tail is. While it polls, the log is as long as it found it, or longer.
EffectInv(e, file) ==
  /\ e \in EffectType
  /\ e.rendered <= e.pending /\ e.pending <= file.units \div 2
  /\ e.applied = From(0, e.rendered) /\ e.screen = From(0, e.rendered)
  /\ e.events = From(e.rendered, e.pending - e.rendered)
  /\ e.exit => e.pending = Records
  /\ file.state # "gone" =>
       e.tail = TailAt(e.tail.offset) /\ e.tail.offset <= file.units /\ e.pending = e.tail.offset \div 2
  /\ e.pc = "read" => e.tail.offset <= e.size /\ e.size <= file.units

\* What is shown is of the last effect, and is the start of its log.
FrameInv ==
  frame # NoFrame =>
    /\ follow # <<>> /\ frame.by = Len(follow)
    /\ \E n \in Nat : /\ n <= Whole(follow[Len(follow)].session) /\ frame.screen = From(0, n)
                      /\ frame.status = "exited" => n = Records

\* What the logs are, what every effect holds of its own, and what is shown.
ViewInv ==
  /\ log \in [Sessions -> LogType]
  /\ \A s \in Sessions : /\ log[s].units <= 2 * Records
                         /\ log[s].state = "absent" => log[s].units = 0
  /\ follow \in Seq(EffectType)
  /\ \A i \in 1 .. Len(follow) : /\ EffectInv(follow[i], log[follow[i].session])
                                 /\ i < Len(follow) => follow[i].aborted
  /\ FrameInv

\* Half of a number grows with it.
LEMMA HalfGrows ==
  ASSUME NEW k \in Nat, NEW l \in Nat, k <= l
  PROVE  k \div 2 \in Nat /\ l \div 2 \in Nat /\ k \div 2 <= l \div 2
<1>1. PICK c \in Nat, b \in {0, 1} : c = k \div 2 /\ b = k % 2 /\ k = 2 * c + b
  BY Halves
<1>2. PICK d \in Nat, g \in {0, 1} : d = l \div 2 /\ g = l % 2 /\ l = 2 * d + g
  BY Halves
<1>3. c <= d
  BY <1>1, <1>2
<1> QED BY <1>1, <1>2, <1>3

\* Nothing an effect knows of a log is undone when the log grows or goes.
LEMMA EffectStays ==
  ASSUME NEW e, NEW file \in LogType, NEW after \in LogType, EffectInv(e, file),
         file.units <= after.units, after.state # "gone" => file.state # "gone"
  PROVE  EffectInv(e, after)
<1>1. file.units \in Nat /\ after.units \in Nat
  BY DEF LogType
<1>2. file.units \div 2 \in Nat /\ after.units \div 2 \in Nat /\ file.units \div 2 <= after.units \div 2
  BY <1>1, HalfGrows
<1>3. e.pending \in Nat /\ e.size \in Nat /\ e.tail.offset \in Nat
  BY DEF EffectInv, EffectType
<1>4. e.pending <= file.units \div 2
  BY DEF EffectInv
<1>5. e.pending <= after.units \div 2
  <2> DEFINE c == file.units \div 2
             d == after.units \div 2
  <2>1. c \in Nat /\ d \in Nat /\ c <= d /\ e.pending <= c
    BY <1>2, <1>4
  <2> HIDE DEF c, d
  <2>2. e.pending <= d
    BY <1>3, <2>1
  <2> QED BY <2>2 DEF d
<1>6. after.state # "gone" => e.tail.offset <= after.units
  BY <1>1, <1>3 DEF EffectInv
<1>7. e.pc = "read" => e.size <= after.units
  BY <1>1, <1>3 DEF EffectInv
<1> QED BY <1>5, <1>6, <1>7 DEF EffectInv

\* A log that grows or goes takes nothing from the view.
LEMMA LogStepKeeps ==
  ASSUME ViewInv, NEW s \in Sessions, CreateLog(s) \/ GrowLog(s) \/ CollectLog(s)
  PROVE  ViewInv'
<1>1. /\ log \in [Sessions -> LogType] /\ Records \in Nat
      /\ UNCHANGED <<follow, frame, error, failures>>
  BY LiveViewAssumption DEF ViewInv, CreateLog, GrowLog, CollectLog, viewVars
<1>2. \A x \in Sessions : log[x] \in LogType /\ log[x].units \in Nat
  BY <1>1 DEF LogType
<1>3. /\ log' \in [Sessions -> LogType]
      /\ \A x \in Sessions : /\ log'[x].units <= 2 * Records
                             /\ log'[x].state = "absent" => log'[x].units = 0
                             /\ log[x].units <= log'[x].units
                             /\ log'[x].state # "gone" => log[x].state # "gone"
  <2>1. CASE CreateLog(s)
    <3>1. log' = [log EXCEPT ![s].state = "there"] /\ log[s].state = "absent"
      BY <2>1 DEF CreateLog
    <3>2. /\ log' \in [Sessions -> LogType]
          /\ \A x \in Sessions : log'[x].units = log[x].units
          /\ \A x \in Sessions : x # s => log'[x] = log[x]
          /\ log'[s].state = "there"
      BY <1>1, <1>2, <3>1 DEF LogType
    <3> QED BY <1>2, <3>1, <3>2 DEF ViewInv
  <2>2. CASE GrowLog(s)
    <3>1. PICK n \in 1 .. 2 : /\ log[s].units + n <= 2 * Records
                              /\ log' = [log EXCEPT ![s].units = @ + n]
      BY <2>2 DEF GrowLog
    <3>2. log[s].state = "there"
      BY <2>2 DEF GrowLog
    <3>3. /\ log' \in [Sessions -> LogType]
          /\ \A x \in Sessions : x # s => log'[x] = log[x]
          /\ log'[s].units = log[s].units + n /\ log'[s].state = log[s].state
      BY <1>1, <1>2, <3>1 DEF LogType
    <3> QED BY <1>2, <3>1, <3>2, <3>3 DEF ViewInv
  <2>3. CASE CollectLog(s)
    <3>1. log' = [log EXCEPT ![s].state = "gone"]
      BY <2>3 DEF CollectLog
    <3>2. /\ log' \in [Sessions -> LogType]
          /\ \A x \in Sessions : log'[x].units = log[x].units
          /\ \A x \in Sessions : x # s => log'[x] = log[x]
          /\ log'[s].state = "gone"
      BY <1>1, <1>2, <3>1 DEF LogType
    <3> QED BY <1>2, <3>1, <3>2 DEF ViewInv
  <2> QED BY <2>1, <2>2, <2>3
<1>4. \A x \in Sessions : log'[x] \in LogType
  BY <1>3
<1>5. ASSUME NEW i \in 1 .. Len(follow)
      PROVE  EffectInv(follow[i], log'[follow[i].session])
  <2>1. EffectInv(follow[i], log[follow[i].session])
    BY DEF ViewInv
  <2>2. follow[i].session \in Sessions
    BY <2>1 DEF EffectInv, EffectType
  <2> QED BY <1>2, <1>3, <1>4, <2>1, <2>2, EffectStays
<1>6. FrameInv'
  <2>1. SUFFICES ASSUME frame # NoFrame
                 PROVE  /\ follow # <<>> /\ frame.by = Len(follow)
                        /\ \E n \in Nat :
                             /\ n <= log'[follow[Len(follow)].session].units \div 2
                             /\ frame.screen = From(0, n) /\ (frame.status = "exited" => n = Records)
    BY <1>1 DEF FrameInv, Whole, NoFrame
  <2>2. /\ follow # <<>> /\ frame.by = Len(follow)
        /\ \E n \in Nat :
             /\ n <= log[follow[Len(follow)].session].units \div 2
             /\ frame.screen = From(0, n) /\ (frame.status = "exited" => n = Records)
    BY <2>1 DEF ViewInv, FrameInv, Whole
  <2>3. PICK n \in Nat :
          /\ n <= log[follow[Len(follow)].session].units \div 2
          /\ frame.screen = From(0, n) /\ (frame.status = "exited" => n = Records)
    BY <2>2
  <2>4. Len(follow) \in 1 .. Len(follow)
    BY <2>2, LenProperties, EmptySeq DEF ViewInv
  <2>5. follow[Len(follow)].session \in Sessions
    BY <2>4 DEF ViewInv, EffectInv, EffectType
  <2> DEFINE k == log[follow[Len(follow)].session].units
             l == log'[follow[Len(follow)].session].units
  <2>6. k \in Nat /\ l \in Nat /\ k <= l /\ n <= k \div 2
    BY <1>2, <1>3, <1>4, <2>3, <2>5 DEF LogType
  <2> HIDE DEF k, l
  <2>7. k \div 2 \in Nat /\ l \div 2 \in Nat /\ k \div 2 <= l \div 2
    BY <2>6, HalfGrows
  <2>8. n <= l \div 2
    BY <2>6, <2>7
  <2> QED BY <2>2, <2>3, <2>8 DEF l
<1> QED BY <1>1, <1>3, <1>5, <1>6 DEF ViewInv

\* One effect changes, and the frame, if at all, to what a tick of it ends with.
LEMMA PutKeeps ==
  ASSUME ViewInv, NEW i \in 1 .. Len(follow), NEW e,
         EffectInv(e, log[follow[i].session]), e.session = follow[i].session,
         follow[i].aborted => e.aborted, UNCHANGED log, follow' = [follow EXCEPT ![i] = e],
         \/ UNCHANGED frame
         \/ /\ ~e.aborted /\ (e.exit /\ ~e.collected => e.rendered = e.pending)
            /\ frame' = [by |-> i, status |-> Status(e), screen |-> e.screen]
  PROVE  ViewInv'
<1>1. /\ follow \in Seq(EffectType) /\ e \in EffectType
      /\ \A j \in 1 .. Len(follow) : /\ EffectInv(follow[j], log[follow[j].session])
                                     /\ j < Len(follow) => follow[j].aborted
  BY DEF ViewInv, EffectInv
<1>2. Len(follow) \in Nat /\ Len(follow) \in 1 .. Len(follow) /\ follow # <<>>
  BY <1>1, LenProperties, EmptySeq
<1>3. follow' \in Seq(EffectType) /\ Len(follow') = Len(follow)
  BY <1>1, ExceptSeq
<1>4. \A j \in 1 .. Len(follow) : follow'[j] = IF j = i THEN e ELSE follow[j]
  BY <1>1, <1>2, ExceptSeq
<1>5. \A j \in 1 .. Len(follow) : follow'[j].session = follow[j].session
  BY <1>4
<1>6. ASSUME NEW j \in 1 .. Len(follow)
      PROVE  /\ EffectInv(follow'[j], log[follow'[j].session])
             /\ j < Len(follow) => follow'[j].aborted
  <2>1. CASE j = i
    BY <1>1, <1>4, <2>1
  <2>2. CASE j # i
    BY <1>1, <1>4, <2>2
  <2> QED BY <2>1, <2>2
<1>7. follow' # <<>>
  BY <1>2, <1>3, EmptySeq
<1>8. FrameInv'
  <2>1. SUFFICES ASSUME frame' # NoFrame
                 PROVE  /\ frame'.by = Len(follow)
                        /\ \E n \in Nat :
                             /\ n <= log[follow[Len(follow)].session].units \div 2
                             /\ frame'.screen = From(0, n) /\ (frame'.status = "exited" => n = Records)
    BY <1>2, <1>3, <1>5, <1>7 DEF FrameInv, Whole, NoFrame
  <2>2. CASE UNCHANGED frame
    BY <2>1, <2>2 DEF ViewInv, FrameInv, Whole
  <2>3. CASE /\ ~e.aborted /\ (e.exit /\ ~e.collected => e.rendered = e.pending)
             /\ frame' = [by |-> i, status |-> Status(e), screen |-> e.screen]
    <3>1. i = Len(follow)
      BY <1>1, <1>2, <2>3
    <3>2. frame'.by = i /\ frame'.status = Status(e) /\ frame'.screen = From(0, e.rendered)
      BY <2>3 DEF EffectInv
    <3>3. Status(e) = "exited" => e.exit /\ ~e.collected
      BY DEF Status
    <3>4. e.rendered \in Nat /\ e.pending \in Nat
      BY <1>1 DEF EffectType
    <3>5. e.rendered <= log[follow[i].session].units \div 2
      <4> DEFINE c == log[follow[i].session].units \div 2
      <4>1. follow[i].session \in Sessions
        BY <1>1 DEF EffectInv, EffectType
      <4>2. log[follow[i].session].units \in Nat
        BY <4>1 DEF ViewInv, LogType
      <4>3. c \in Nat
        BY <4>2, Halves
      <4>4. e.rendered <= e.pending /\ e.pending <= c
        BY DEF EffectInv
      <4> HIDE DEF c
      <4>5. e.rendered <= c
        BY <3>4, <4>3, <4>4
      <4> QED BY <4>5 DEF c
    <3>6. frame'.status = "exited" => e.rendered = Records
      BY <2>3, <3>2, <3>3 DEF EffectInv
    <3> QED BY <3>1, <3>2, <3>4, <3>5, <3>6
  <2> QED BY <2>2, <2>3
<1> QED BY <1>1, <1>3, <1>6, <1>8 DEF ViewInv

\* What does not touch what an effect knows of its log.
LEMMA SameKnowledge ==
  ASSUME NEW e, NEW d, NEW file, EffectInv(e, file), d \in EffectType,
         d.rendered = e.rendered, d.pending = e.pending, d.applied = e.applied,
         d.screen = e.screen, d.events = e.events, d.exit = e.exit, d.tail = e.tail,
         d.pc # "read" \/ (d.pc = e.pc /\ d.size = e.size)
  PROVE  EffectInv(d, file)
BY DEF EffectInv

\* A failure leaves an effect as it was.
LEMMA FailsKeeps ==
  ASSUME ViewInv, NEW i \in 1 .. Len(follow), NEW e,
         EffectInv(e, log[follow[i].session]), e.session = follow[i].session,
         follow[i].aborted => e.aborted, UNCHANGED log, Fails(i, e)
  PROVE  ViewInv'
<1> DEFINE d == [e EXCEPT !.pc = Idle(e)]
<1>1. e \in EffectType
  BY DEF EffectInv
<1>2. d \in EffectType /\ d.pc # "read" /\ d.session = e.session /\ d.aborted = e.aborted
  BY <1>1 DEF EffectType, Idle
<1>3. /\ d.rendered = e.rendered /\ d.pending = e.pending /\ d.applied = e.applied
      /\ d.screen = e.screen /\ d.events = e.events /\ d.exit = e.exit /\ d.tail = e.tail
  BY <1>1 DEF EffectType
<1>4. follow' = [follow EXCEPT ![i] = d] /\ UNCHANGED frame
  BY DEF Fails
<1> HIDE DEF d
<1>5. EffectInv(d, log[follow[i].session])
  BY <1>2, <1>3, SameKnowledge
<1> QED BY <1>2, <1>4, <1>5, PutKeeps

\* The end of a tick shows what was drawn. It says that the session exited only
\* when nothing is left to draw.
LEMMA EndTickKeeps ==
  ASSUME ViewInv, NEW i \in 1 .. Len(follow), NEW e, NEW changed \in BOOLEAN,
         EffectInv(e, log[follow[i].session]), e.session = follow[i].session,
         follow[i].aborted => e.aborted, UNCHANGED log, EndTick(i, e, changed),
         e.collected \/ e.rendered = e.pending
  PROVE  ViewInv'
<1> DEFINE news == ~e.aborted /\ (changed \/ Status(e) # e.last)
           d == [e EXCEPT !.pc = Idle(e), !.last = IF news THEN Status(e) ELSE @]
<1>1. e \in EffectType
  BY DEF EffectInv
<1>2. d \in EffectType /\ d.pc # "read" /\ d.session = e.session /\ d.aborted = e.aborted
  BY <1>1 DEF EffectType, Idle, Status
<1>3. /\ d.rendered = e.rendered /\ d.pending = e.pending /\ d.applied = e.applied
      /\ d.screen = e.screen /\ d.events = e.events /\ d.exit = e.exit /\ d.tail = e.tail
      /\ d.collected = e.collected /\ d.drawn = e.drawn
  BY <1>1 DEF EffectType
<1>4. /\ follow' = [follow EXCEPT ![i] = d]
      /\ frame' = IF news THEN [by |-> i, status |-> Status(e), screen |-> e.screen] ELSE frame
  BY DEF EndTick
<1>5. Status(d) = Status(e)
  BY <1>3 DEF Status
<1> HIDE DEF d
<1>6. EffectInv(d, log[follow[i].session])
  BY <1>2, <1>3, SameKnowledge
<1>7. CASE news
  <2>1. frame' = [by |-> i, status |-> Status(d), screen |-> d.screen]
    BY <1>3, <1>4, <1>5, <1>7
  <2>2. ~d.aborted /\ (d.exit /\ ~d.collected => d.rendered = d.pending)
    BY <1>2, <1>3, <1>7
  <2> HIDE DEF news
  <2> QED BY <1>2, <1>4, <1>6, <2>1, <2>2, PutKeeps
<1>8. CASE ~news
  <2>1. UNCHANGED frame
    BY <1>4, <1>8
  <2> HIDE DEF news
  <2> QED BY <1>2, <1>4, <1>6, <2>1, PutKeeps
<1> QED BY <1>7, <1>8

\* A render begins only where something is left to draw, and otherwise ends its tick.
LEMMA BeginRenderKeeps ==
  ASSUME ViewInv, NEW i \in 1 .. Len(follow), NEW e,
         EffectInv(e, log[follow[i].session]), e.session = follow[i].session,
         follow[i].aborted => e.aborted, UNCHANGED log, BeginRender(i, e)
  PROVE  ViewInv'
<1>1. e \in EffectType
  BY DEF EffectInv
<1>2. e.rendered \in Nat /\ e.pending \in Nat /\ e.rendered <= e.pending
  BY <1>1 DEF EffectInv, EffectType
<1>3. CASE e.collected \/ e.pending <= e.rendered \/ e.events = <<>>
  <2>1. EndTick(i, e, FALSE)
    BY <1>3 DEF BeginRender
  <2>2. e.events = <<>> => e.rendered = e.pending
    <3> DEFINE n == e.pending - e.rendered
    <3>1. n \in Nat /\ e.events = From(e.rendered, n)
      BY <1>2 DEF EffectInv
    <3> HIDE DEF n
    <3>2. Len(From(e.rendered, n)) = n
      BY <1>2, <3>1, FromIsASequence
    <3>3. e.events = <<>> => n = 0
      BY <3>1, <3>2
    <3> QED BY <1>2, <3>3 DEF n
  <2>3. e.collected \/ e.rendered = e.pending
    BY <1>2, <1>3, <2>2
  <2> QED BY <2>1, <2>3, EndTickKeeps
<1>4. CASE ~(e.collected \/ e.pending <= e.rendered \/ e.events = <<>>)
  <2>1. CASE e.disposed
    <3>1. Fails(i, e)
      BY <1>4, <2>1 DEF BeginRender
    <3> QED BY <3>1, FailsKeeps
  <2>2. CASE ~e.disposed
    <3> DEFINE d == [e EXCEPT !.pc = IF e.renderer = "up" THEN "replay" ELSE "boot"]
    <3>1. follow' = [follow EXCEPT ![i] = d] /\ UNCHANGED frame
      BY <1>4, <2>2 DEF BeginRender
    <3>2. d \in EffectType /\ d.pc # "read" /\ d.session = e.session /\ d.aborted = e.aborted
      BY <1>1 DEF EffectType
    <3>3. /\ d.rendered = e.rendered /\ d.pending = e.pending /\ d.applied = e.applied
          /\ d.screen = e.screen /\ d.events = e.events /\ d.exit = e.exit /\ d.tail = e.tail
      BY <1>1 DEF EffectType
    <3> HIDE DEF d
    <3>4. EffectInv(d, log[follow[i].session])
      BY <3>2, <3>3, SameKnowledge
    <3> QED BY <3>1, <3>2, <3>4, PutKeeps
  <2> QED BY <2>1, <2>2
<1> QED BY <1>3, <1>4

\* What the invariant says of one effect.
LEMMA OneEffect ==
  ASSUME ViewInv, NEW i \in 1 .. Len(follow)
  PROVE  /\ follow[i] \in EffectType /\ follow[i].session \in Sessions
         /\ EffectInv(follow[i], log[follow[i].session])
         /\ log[follow[i].session] \in LogType
         /\ log[follow[i].session].units <= 2 * Records
         /\ log[follow[i].session].state = "absent" => log[follow[i].session].units = 0
<1>1. EffectInv(follow[i], log[follow[i].session])
  BY DEF ViewInv
<1>2. follow[i] \in EffectType /\ follow[i].session \in Sessions
  BY <1>1 DEF EffectInv, EffectType
<1> QED BY <1>1, <1>2 DEF ViewInv

\* A tail that has read nothing.
LEMMA TailOfNothing == Tail0 = TailAt(0)
<1>1. 0 \div 2 = 0 /\ 0 % 2 = 0
  BY HalfIs
<1>2. From(0, 0) = <<>>
  BY DEF From
<1> QED BY <1>1, <1>2 DEF Tail0, TailAt

\* A poll fixes how long the log is, or finds that it is gone or not there yet.
LEMMA PollTickKeeps == ASSUME ViewInv, NEW i \in 1 .. Len(follow), PollTick(i) PROVE ViewInv'
<1> DEFINE f == follow[i]
           file == log[f.session]
<1>1. /\ f \in EffectType /\ f.session \in Sessions /\ EffectInv(f, file) /\ file \in LogType
      /\ file.state = "absent" => file.units = 0
  BY OneEffect
<1>2. f.pc = "idle" /\ UNCHANGED log
  BY DEF PollTick
<1>3. /\ f.pending \in Nat /\ f.rendered \in Nat /\ file.units \in Nat /\ f.tail.offset \in Nat
      /\ f.tail \in [offset : Nat, partial : Seq(Nat)]
  BY <1>1 DEF EffectType, LogType
<1>4. CASE file.state # "there"
  <2> DEFINE e == [f EXCEPT !.tail = Tail0, !.collected = @ \/ f.present]
  <2>1. BeginRender(i, e)
    BY <1>4 DEF PollTick
  <2>2. Tail0 \in [offset : Nat, partial : Seq(Nat)] /\ Tail0.offset = 0
    BY EmptySeq DEF Tail0
  <2>3. /\ e \in EffectType /\ e.session = f.session /\ e.aborted = f.aborted /\ e.tail = Tail0
        /\ e.rendered = f.rendered /\ e.pending = f.pending /\ e.applied = f.applied
        /\ e.screen = f.screen /\ e.events = f.events /\ e.exit = f.exit /\ e.pc = "idle"
    BY <1>1, <1>2, <2>2 DEF EffectType
  <2> HIDE DEF e
  <2>4. file.state # "gone" => e.pending = 0 /\ 0 \div 2 = 0
    <3>1. SUFFICES ASSUME file.state # "gone" PROVE e.pending = 0 /\ 0 \div 2 = 0
      OBVIOUS
    <3>2. file.units = 0
      BY <1>1, <1>4, <3>1 DEF LogType
    <3>3. 0 \div 2 = 0
      BY HalfIs
    <3>4. f.pending <= file.units \div 2
      BY <1>1 DEF EffectInv
    <3>5. f.pending <= 0
      BY <3>2, <3>3, <3>4
    <3> QED BY <1>3, <2>3, <3>3, <3>5
  <2>5. EffectInv(e, file)
    <3>1. file.state # "gone" =>
            e.tail = TailAt(e.tail.offset) /\ e.tail.offset <= file.units /\ e.pending = e.tail.offset \div 2
      BY <1>3, <2>2, <2>3, <2>4, TailOfNothing
    <3> HIDE DEF file, f
    <3> QED BY <1>1, <2>3, <3>1 DEF EffectInv
  <2> QED BY <1>2, <2>1, <2>3, <2>5, BeginRenderKeeps
<1>5. CASE file.state = "there"
  <2> DEFINE e == [f EXCEPT !.present = TRUE, !.tail = Resume(@, file.units)]
  <2>1. f.tail = TailAt(f.tail.offset) /\ f.tail.offset <= file.units
    BY <1>1, <1>5 DEF EffectInv
  <2>2. Resume(f.tail, file.units) = f.tail
    BY <1>3, <2>1 DEF Resume
  <2>3. /\ e \in EffectType /\ e.session = f.session /\ e.aborted = f.aborted /\ e.tail = f.tail
        /\ e.rendered = f.rendered /\ e.pending = f.pending /\ e.applied = f.applied
        /\ e.screen = f.screen /\ e.events = f.events /\ e.exit = f.exit /\ e.pc = "idle"
    BY <1>1, <1>2, <1>3, <2>2 DEF EffectType
  <2>4. IF file.units = e.tail.offset THEN BeginRender(i, e)
        ELSE /\ follow' = [follow EXCEPT ![i] = [e EXCEPT !.pc = "read", !.size = file.units]]
             /\ UNCHANGED <<frame, error>>
    BY <1>5 DEF PollTick
  <2> HIDE DEF e
  <2>5. EffectInv(e, file)
    <3> HIDE DEF file, f
    <3> QED BY <1>1, <2>3, SameKnowledge
  <2>6. CASE file.units = e.tail.offset
    BY <1>2, <2>3, <2>4, <2>5, <2>6, BeginRenderKeeps
  <2>7. CASE file.units # e.tail.offset
    <3> DEFINE d == [e EXCEPT !.pc = "read", !.size = file.units]
    <3>1. follow' = [follow EXCEPT ![i] = d] /\ UNCHANGED frame
      BY <2>4, <2>7
    <3>2. /\ d \in EffectType /\ d.pc = "read" /\ d.size = file.units
          /\ d.session = e.session /\ d.aborted = e.aborted
          /\ d.rendered = e.rendered /\ d.pending = e.pending /\ d.applied = e.applied
          /\ d.screen = e.screen /\ d.events = e.events /\ d.exit = e.exit /\ d.tail = e.tail
      BY <1>3, <2>3 DEF EffectType
    <3> HIDE DEF d
    <3>3. EffectInv(d, file)
      <4>1. d.tail.offset <= d.size /\ d.size <= file.units
        BY <1>3, <2>1, <2>3, <3>2
      <4> HIDE DEF file, f
      <4> QED BY <2>5, <3>2, <4>1 DEF EffectInv
    <3> QED BY <1>2, <2>3, <3>1, <3>2, <3>3, PutKeeps
  <2> QED BY <2>6, <2>7
<1> QED BY <1>4, <1>5

\* The records that a read adds go on where those before ended.
LEMMA IngestedKeeps ==
  ASSUME NEW f \in EffectType, NEW file \in LogType, EffectInv(f, file), f.pc = "read",
         file.state # "gone", file.units <= 2 * Records,
         NEW got, got = ReadTo(f.tail, f.size)
  PROVE  /\ EffectInv(Ingested([f EXCEPT !.tail = got.tail], got.records), file)
         /\ Ingested([f EXCEPT !.tail = got.tail], got.records).session = f.session
         /\ Ingested([f EXCEPT !.tail = got.tail], got.records).aborted = f.aborted
<1>1. PICK o \in Nat : o = f.tail.offset
  BY DEF EffectType
<1>2. PICK size \in Nat : size = f.size
  BY DEF EffectType
<1>3. PICK p \in Nat : p = f.pending
  BY DEF EffectType
<1>4. PICK r \in Nat : r = f.rendered
  BY DEF EffectType
<1>5. /\ o <= size /\ size <= file.units /\ f.tail = TailAt(o) /\ p = o \div 2
      /\ r <= p /\ file.units \in Nat /\ Records \in Nat \ {0}
  BY <1>1, <1>2, <1>3, <1>4, LiveViewAssumption DEF EffectInv, LogType
<1>6. PICK q \in Nat : q = size \div 2
  BY Halves
<1>7. p <= q /\ q <= file.units \div 2 /\ q <= Records
  <2>1. o \div 2 <= size \div 2 /\ size \div 2 <= file.units \div 2
    BY <1>5, HalfGrows
  <2>2. q <= Records
    <3>1. PICK b \in {0, 1} : size = 2 * q + b
      BY <1>6, Halves
    <3> QED BY <1>5, <3>1
  <2> QED BY <1>5, <1>6, <2>1, <2>2
<1> DEFINE n == q - p
           m == p - r
<1>8. n \in Nat /\ m \in Nat /\ r + m = p /\ m + n = q - r /\ p + n = q
  BY <1>5, <1>7
<1>9. got.records = From(p, n) /\ got.tail = TailAt(size)
  <2>1. ReadTo(TailAt(o), size) =
          [records |-> From(o \div 2, size \div 2 - o \div 2), tail |-> TailAt(size)]
    BY <1>5, ReadsAreWhole
  <2>2. got = ReadTo(TailAt(o), size)
    BY <1>2, <1>5
  <2>3. size \div 2 - o \div 2 = n
    BY <1>5, <1>6
  <2> QED BY <1>5, <2>1, <2>2, <2>3
<1> DEFINE g == [f EXCEPT !.tail = got.tail]
           recs == got.records
           d == Ingested(g, recs)
<1>10. TailAt(size) \in [offset : Nat, partial : Seq(Nat)] /\ TailAt(size).offset = size
  <2>1. size \div 2 \in Nat /\ size % 2 \in Nat
    BY Halves
  <2>2. 2 * (size \div 2) \in Nat
    BY <2>1
  <2>3. From(2 * (size \div 2), size % 2) \in Seq(Nat)
    BY <2>1, <2>2, FromIsASequence
  <2> QED BY <2>3 DEF TailAt
<1> HIDE DEF n, m
<1>11. /\ recs \in Seq(Nat) /\ Len(recs) = n /\ \A k \in 1 .. n : recs[k] = p + k
  <2>1. From(p, n) \in Seq(Nat) /\ Len(From(p, n)) = n /\ \A k \in 1 .. n : From(p, n)[k] = p + k
    BY <1>3, <1>8, FromIsASequence
  <2> QED BY <1>9, <2>1
<1>12. ToSet(recs) = {p + k : k \in 1 .. n}
  <2>1. DOMAIN recs = 1 .. n
    BY <1>11, LenProperties
  <2> HIDE DEF recs
  <2> QED BY <1>11, <2>1 DEF ToSet
<1>13. Max({p} \cup ToSet(recs)) = q
  <2> DEFINE S == {p} \cup {p + k : k \in 1 .. n}
  <2>1. \A x \in S : x \in Nat /\ x <= q
    BY <1>8
  <2>2. q \in S
    <3>1. CASE n = 0
      BY <1>8, <3>1
    <3>2. CASE n # 0
      <4>1. n \in 1 .. n /\ p + n = q
        BY <1>8, <3>2
      <4> QED BY <4>1
    <3> QED BY <3>1, <3>2
  <2> HIDE DEF S
  <2>3. \A x \in S : (\A y \in S : x >= y) => x = q
    <3> SUFFICES ASSUME NEW x \in S, \A y \in S : x >= y PROVE x = q
      OBVIOUS
    <3>1. x >= q /\ x <= q /\ x \in Nat
      BY <2>1, <2>2
    <3> QED BY <3>1
  <2>4. \A y \in S : q >= y
    BY <2>1
  <2>5. Max(S) = q
    BY <2>2, <2>3, <2>4, Zenon DEF Max
  <2> QED BY <1>12, <2>5 DEF S
<1>14. g \in EffectType /\ g.tail = TailAt(size)
       /\ g.events = f.events /\ g.pending = p /\ g.exit = f.exit
  BY <1>3, <1>9, <1>10 DEF EffectType
<1>15. f.events = From(r, m)
  BY <1>3, <1>4 DEF EffectInv, m
<1>16. f.events \o recs = From(r, q - r)
  <2>1. From(r, m) \o From(r + m, n) = From(r, m + n)
    <3> HIDE DEF recs, g, d
    <3>1. r \in Nat /\ m \in Nat /\ n \in Nat
      BY <1>4, <1>8
    <3> QED BY <3>1, FromJoins
  <2> HIDE DEF recs
  <2> QED BY <1>8, <1>9, <1>15, <2>1 DEF recs
<1>17. From(r, q - r) \in Seq(Nat)
  BY <1>5, <1>7, FromIsASequence
<1>18. d = [g EXCEPT !.events = From(r, q - r), !.pending = q,
                      !.exit = f.exit \/ Records \in ToSet(recs)]
  <2> HIDE DEF recs, g
  <2> QED BY <1>13, <1>14, <1>16 DEF Ingested
<1>19. (f.exit \/ Records \in ToSet(recs)) \in BOOLEAN
  BY DEF EffectType
<1>20. d \in EffectType /\ d.session = f.session /\ d.aborted = f.aborted
       /\ d.rendered = r /\ d.applied = f.applied /\ d.screen = f.screen /\ d.tail = TailAt(size)
       /\ d.events = From(r, q - r) /\ d.pending = q /\ d.size = size /\ d.pc = "read"
       /\ d.exit = (f.exit \/ Records \in ToSet(recs))
  <2> HIDE DEF recs, d
  <2> DEFINE x == (f.exit \/ Records \in ToSet(recs))
  <2>1. x \in BOOLEAN
    BY <1>19
  <2> HIDE DEF x
  <2>2. d = [g EXCEPT !.events = From(r, q - r), !.pending = q, !.exit = x]
    BY <1>18 DEF x
  <2>3. g.session = f.session /\ g.aborted = f.aborted /\ g.rendered = r /\ g.applied = f.applied
        /\ g.screen = f.screen /\ g.size = size /\ g.pc = "read"
    BY <1>2, <1>4 DEF EffectType
  <2> HIDE DEF g
  <2>4. d \in EffectType /\ d.session = g.session /\ d.aborted = g.aborted
        /\ d.rendered = g.rendered /\ d.applied = g.applied /\ d.screen = g.screen /\ d.tail = g.tail
        /\ d.events = From(r, q - r) /\ d.pending = q /\ d.size = g.size /\ d.pc = g.pc
        /\ d.exit = x
    BY <1>14, <1>17, <2>1, <2>2 DEF EffectType
  <2> QED BY <1>14, <2>3, <2>4 DEF x
<1>21. d.exit => q = Records
  <2>1. CASE f.exit
    BY <1>3, <1>5, <1>7, <2>1 DEF EffectInv
  <2>2. CASE Records \in ToSet(recs)
    <3>1. PICK k \in 1 .. n : Records = p + k
      BY <1>12, <2>2
    <3> QED BY <1>5, <1>7, <1>8, <3>1
  <2> QED BY <1>20, <2>1, <2>2
<1> HIDE DEF d
<1>22. EffectInv(d, file)
  <2>1. TailAt(size).offset = size
    BY <1>10
  <2>2. d.applied = From(0, r) /\ d.screen = From(0, r)
    BY <1>4, <1>20 DEF EffectInv
  <2>3. r <= q
    BY <1>5, <1>7
  <2> QED BY <1>5, <1>6, <1>7, <1>20, <1>21, <2>1, <2>2, <2>3 DEF EffectInv
<1> QED BY <1>20, <1>22 DEF d

\* What is read reaches from the tail to the length that the poll found.
LEMMA ReadKeeps == ASSUME ViewInv, NEW i \in 1 .. Len(follow), Read(i) PROVE ViewInv'
<1> DEFINE f == follow[i]
           file == log[f.session]
           got == ReadTo(f.tail, f.size)
           e == Ingested([f EXCEPT !.tail = got.tail], got.records)
<1>1. /\ f \in EffectType /\ f.session \in Sessions /\ EffectInv(f, file) /\ file \in LogType
      /\ file.units <= 2 * Records
  BY OneEffect
<1>2. f.pc = "read" /\ UNCHANGED log
  BY DEF Read
<1>3. CASE file.state = "gone"
  <2>1. Fails(i, f)
    BY <1>3 DEF Read
  <2> QED BY <1>1, <1>2, <2>1, FailsKeeps
<1>4. CASE file.state # "gone"
  <2>1. BeginRender(i, e)
    BY <1>4 DEF Read
  <2>2. EffectInv(e, file) /\ e.session = f.session /\ e.aborted = f.aborted
    <3> HIDE DEF f, file, got
    <3>1. got = ReadTo(f.tail, f.size)
      BY DEF got
    <3> QED BY <1>1, <1>2, <1>4, <3>1, IngestedKeeps
  <2> HIDE DEF e
  <2> QED BY <1>2, <2>1, <2>2, BeginRenderKeeps
<1> QED BY <1>3, <1>4

\* A renderer that boots, or fails to, has drawn what the effect held before.
LEMMA BootKeeps ==
  ASSUME ViewInv, NEW i \in 1 .. Len(follow), BootEnds(i) \/ BootFails(i)
  PROVE  ViewInv'
<1> DEFINE f == follow[i]
           up == [f EXCEPT !.renderer = "up"]
<1>1. f \in EffectType /\ EffectInv(f, log[f.session]) /\ UNCHANGED log /\ f.pc = "boot"
  BY OneEffect DEF BootEnds, BootFails
<1>2. /\ up \in EffectType /\ up.session = f.session /\ up.aborted = f.aborted /\ up.pc # "read"
      /\ up.rendered = f.rendered /\ up.pending = f.pending /\ up.applied = f.applied
      /\ up.screen = f.screen /\ up.events = f.events /\ up.exit = f.exit /\ up.tail = f.tail
  BY <1>1 DEF EffectType
<1>3. CASE BootFails(i)
  <2>1. Fails(i, f)
    BY <1>3 DEF BootFails
  <2> QED BY <1>1, <2>1, FailsKeeps
<1>4. CASE BootEnds(i) /\ f.disposed
  <2>1. Fails(i, up)
    BY <1>4 DEF BootEnds
  <2> HIDE DEF up
  <2>2. EffectInv(up, log[f.session])
    BY <1>1, <1>2, SameKnowledge
  <2> QED BY <1>1, <1>2, <2>1, <2>2, FailsKeeps
<1>5. CASE BootEnds(i) /\ ~f.disposed
  <2> DEFINE d == [up EXCEPT !.pc = "replay"]
  <2>1. follow' = [follow EXCEPT ![i] = d] /\ UNCHANGED frame
    BY <1>5 DEF BootEnds
  <2>2. /\ d \in EffectType /\ d.session = f.session /\ d.aborted = f.aborted /\ d.pc # "read"
        /\ d.rendered = f.rendered /\ d.pending = f.pending /\ d.applied = f.applied
        /\ d.screen = f.screen /\ d.events = f.events /\ d.exit = f.exit /\ d.tail = f.tail
    BY <1>1 DEF EffectType
  <2> HIDE DEF d
  <2>3. EffectInv(d, log[f.session])
    BY <1>1, <2>2, SameKnowledge
  <2> QED BY <1>1, <2>1, <2>2, <2>3, PutKeeps
<1> QED BY <1>3, <1>4, <1>5

\* A replay applies what is held, all of it, behind what was applied before.
LEMMA ReplayKeeps == ASSUME ViewInv, NEW i \in 1 .. Len(follow), Replay(i) PROVE ViewInv'
<1> DEFINE f == follow[i]
           Fresh(r) == r > (IF f.applied = <<>> THEN 0 ELSE Last(f.applied)) /\ r <= f.pending
           places == {k \in DOMAIN f.events : Fresh(f.events[k])}
           screen == f.applied \o Picked(f.events, places)
           d == [f EXCEPT !.applied = screen, !.screen = screen, !.drawn = TRUE,
                          !.rendered = f.pending, !.events = <<>>]
<1>1. f \in EffectType /\ EffectInv(f, log[f.session]) /\ UNCHANGED log /\ f.pc = "replay"
  BY OneEffect DEF Replay
<1>2. CASE f.disposed
  <2>1. Fails(i, f)
    BY <1>2 DEF Replay
  <2> QED BY <1>1, <2>1, FailsKeeps
<1>3. CASE ~f.disposed
  <2>1. EndTick(i, d, TRUE)
    BY <1>3 DEF Replay
  <2>2. PICK r \in Nat : r = f.rendered
    BY <1>1 DEF EffectType
  <2>3. PICK p \in Nat : p = f.pending
    BY <1>1 DEF EffectType
  <2> DEFINE m == p - r
  <2>4. r <= p /\ f.applied = From(0, r) /\ f.events = From(r, m)
    BY <1>1, <2>2, <2>3 DEF EffectInv
  <2>5. m \in Nat /\ r + m = p
    BY <2>2, <2>3, <2>4
  <2> HIDE DEF m
  <2>6. /\ f.events \in Seq(Nat) /\ Len(f.events) = m
        /\ \A k \in 1 .. m : f.events[k] = r + k
    <3>1. /\ From(r, m) \in Seq(Nat) /\ Len(From(r, m)) = m
          /\ \A k \in 1 .. m : From(r, m)[k] = r + k
      BY <2>2, <2>5, FromIsASequence
    <3> HIDE DEF f
    <3> QED BY <2>4, <3>1
  <2>7. r = IF f.applied = <<>> THEN 0 ELSE Last(f.applied)
    <3>1. /\ From(0, r) \in Seq(Nat) /\ Len(From(0, r)) = r
          /\ \A k \in 1 .. r : From(0, r)[k] = 0 + k
      BY <2>2, FromIsASequence
    <3> DEFINE a == From(0, r)
    <3>2. a \in Seq(Nat) /\ Len(a) = r /\ \A k \in 1 .. r : a[k] = 0 + k
      BY <3>1
    <3> HIDE DEF a, f
    <3>3. CASE r = 0
      <4>1. a = <<>>
        BY <3>2, <3>3, EmptySeq
      <4> QED BY <2>4, <3>3, <4>1 DEF a
    <3>4. CASE r # 0
      <4>1. a # <<>> /\ a[r] = r
        BY <2>2, <3>2, <3>4, EmptySeq
      <4>2. Last(a) = r
        BY <3>2, <4>1 DEF Last
      <4> QED BY <2>4, <4>1, <4>2 DEF a
    <3> QED BY <3>3, <3>4
  <2>8. ASSUME NEW k \in 1 .. m PROVE k \in places
    <3>1. k \in DOMAIN f.events
      BY <2>6, LenProperties
    <3>2. f.events[k] = r + k /\ r + k > r /\ r + k <= p
      BY <2>2, <2>3, <2>5, <2>6, SMTT(40)
    <3>3. Fresh(f.events[k])
      BY <2>3, <2>7, <3>2
    <3> HIDE DEF f, Fresh
    <3> QED BY <3>1, <3>3
  <2>9. 1 .. Len(f.events) \subseteq places
    <3> HIDE DEF f, places
    <3> QED BY <2>6, <2>8
  <2> HIDE DEF places
  <2>10. Picked(f.events, places) = f.events
    BY <2>6, <2>9, PickedAll
  <2>11. screen = From(0, p)
    <3>1. 0 + r = r /\ 0 \in Nat
      BY <2>2
    <3>2. From(0, r) \o From(0 + r, m) = From(0, r + m)
      BY <2>2, <2>5, FromJoins, ZenonT(60)
    <3> HIDE DEF f
    <3> QED BY <2>4, <2>5, <2>10, <3>1, <3>2
  <2> HIDE DEF screen
  <2>12. screen \in Seq(Nat)
    BY <2>3, <2>11, FromIsASequence
  <2>13. /\ d \in EffectType /\ d.session = f.session /\ d.aborted = f.aborted /\ d.pc # "read"
         /\ d.rendered = p /\ d.pending = p /\ d.applied = From(0, p)
         /\ d.screen = From(0, p) /\ d.events = <<>> /\ d.exit = f.exit /\ d.tail = f.tail
    <3>1. <<>> \in Seq(Nat)
      BY EmptySeq
    <3> QED BY <1>1, <2>3, <2>11, <2>12, <3>1 DEF EffectType
  <2> HIDE DEF d
  <2>14. EffectInv(d, log[f.session])
    <3>1. From(p, p - p) = <<>>
      <4>1. p - p = 0
        BY <2>3
      <4> QED BY <4>1 DEF From
    <3>2. /\ f.pending <= log[f.session].units \div 2
          /\ f.exit => f.pending = Records
          /\ log[f.session].state # "gone" =>
               /\ f.tail = TailAt(f.tail.offset) /\ f.tail.offset <= log[f.session].units
               /\ f.pending = f.tail.offset \div 2
      BY <1>1 DEF EffectInv
    <3> HIDE DEF f
    <3> QED BY <2>3, <2>13, <3>1, <3>2 DEF EffectInv
  <2> QED BY <1>1, <2>1, <2>13, <2>14, EndTickKeeps
<1> QED BY <1>2, <1>3

\* A follower that was created holds nothing yet.
LEMMA CreatedKeeps == ASSUME ViewInv, NEW i \in 1 .. Len(follow), Created(i) PROVE ViewInv'
<1> DEFINE f == follow[i]
           d == [f EXCEPT !.pc = Idle(f), !.disposed = f.aborted]
<1>1. f \in EffectType /\ EffectInv(f, log[f.session])
  BY OneEffect
<1>2. follow' = [follow EXCEPT ![i] = d] /\ UNCHANGED frame /\ UNCHANGED log
  BY DEF Created
<1>3. /\ d \in EffectType /\ d.session = f.session /\ d.aborted = f.aborted /\ d.pc # "read"
      /\ d.rendered = f.rendered /\ d.pending = f.pending /\ d.applied = f.applied
      /\ d.screen = f.screen /\ d.events = f.events /\ d.exit = f.exit /\ d.tail = f.tail
  BY <1>1 DEF EffectType, Idle
<1> HIDE DEF d
<1>4. EffectInv(d, log[f.session])
  BY <1>1, <1>3, SameKnowledge
<1> QED BY <1>2, <1>3, <1>4, PutKeeps

\* An effect that begins knows nothing, and whatever goes on in one that was left
\* is not shown any more.
LEMMA FollowKeeps == ASSUME ViewInv, NEW s \in Sessions, Follow(s) PROVE ViewInv'
<1> DEFINE n == Len(follow)
           left == [k \in DOMAIN follow |-> IF k = n THEN Left(follow[k]) ELSE follow[k]]
<1>1. /\ follow \in Seq(EffectType) /\ n \in Nat /\ DOMAIN follow = 1 .. n
      /\ \A i \in 1 .. n : follow[i] \in EffectType
  BY LenProperties, ElementOfSeq DEF ViewInv
<1>2. follow' = Append(left, Effect(s)) /\ frame' = NoFrame /\ UNCHANGED log
  BY DEF Follow
<1>3. ASSUME NEW i \in 1 .. n
      PROVE  /\ Left(follow[i]) \in EffectType /\ Left(follow[i]).session = follow[i].session
             /\ Left(follow[i]).aborted
             /\ EffectInv(Left(follow[i]), log[follow[i].session])
  <2> DEFINE f == follow[i]
             d == Left(f)
  <2>1. f \in EffectType /\ EffectInv(f, log[f.session])
    BY OneEffect
  <2>2. /\ d \in EffectType /\ d.session = f.session /\ d.aborted /\ (d.pc # "read" \/ d.pc = f.pc)
        /\ d.rendered = f.rendered /\ d.pending = f.pending /\ d.applied = f.applied /\ d.size = f.size
        /\ d.screen = f.screen /\ d.events = f.events /\ d.exit = f.exit /\ d.tail = f.tail
    BY <2>1, ZenonT(60) DEF EffectType, Left
  <2> HIDE DEF d
  <2>3. EffectInv(d, log[f.session])
    BY <2>1, <2>2, SameKnowledge
  <2> QED BY <2>2, <2>3 DEF d
<1>4. /\ Effect(s) \in EffectType /\ Effect(s).session = s
      /\ EffectInv(Effect(s), log[s])
  <2>1. <<>> \in Seq(Nat) /\ Tail0 \in [offset : Nat, partial : Seq(Nat)] /\ Tail0.offset = 0
    BY EmptySeq DEF Tail0
  <2>2. Effect(s) \in EffectType
    BY <2>1 DEF Effect, EffectType
  <2>3. From(0, 0) = <<>> /\ From(0, 0 - 0) = <<>>
    BY DEF From
  <2>4. log[s].units \in Nat
    BY DEF ViewInv, LogType
  <2>5. 0 <= log[s].units \div 2
    BY <2>4, Halves
  <2>6. 0 \div 2 = 0
    BY HalfIs
  <2> QED BY <2>1, <2>2, <2>3, <2>4, <2>5, <2>6, TailOfNothing DEF Effect, EffectInv
<1>5. left \in Seq(EffectType) /\ Len(left) = n
      /\ \A i \in 1 .. n : left[i] = IF i = n THEN Left(follow[i]) ELSE follow[i]
  <2>1. left \in [1 .. n -> EffectType]
    BY <1>1, <1>3
  <2>2. left \in Seq(EffectType) /\ DOMAIN left = 1 .. n
    BY <1>1, <2>1
  <2>3. Len(left) = n
    BY <1>1, <2>2, LenProperties
  <2> QED BY <1>1, <2>2, <2>3
<1> HIDE DEF left, n
<1>6. /\ follow' \in Seq(EffectType) /\ Len(follow') = n + 1
      /\ follow'[n + 1] = Effect(s) /\ \A i \in 1 .. n : follow'[i] = left[i]
  BY <1>2, <1>4, <1>5, AppendProperties
<1>7. ASSUME NEW i \in 1 .. n + 1
      PROVE  /\ EffectInv(follow'[i], log[follow'[i].session])
             /\ i < n + 1 => follow'[i].aborted
  <2>1. CASE i = n + 1
    BY <1>1, <1>4, <1>6, <2>1
  <2>2. CASE i # n + 1
    <3>1. i \in 1 .. n /\ follow'[i] = left[i]
      BY <1>1, <1>6, <2>2
    <3>2. CASE i = n
      <4>1. follow'[i] = Left(follow[i])
        BY <1>5, <3>1, <3>2
      <4> QED BY <1>3, <3>1, <4>1
    <3>3. CASE i # n
      <4>1. follow'[i] = follow[i] /\ i < n
        BY <1>1, <1>5, <3>1, <3>3
      <4> QED BY <3>1, <4>1 DEF ViewInv, n
    <3> QED BY <3>2, <3>3
  <2> QED BY <2>1, <2>2
<1>8. FrameInv'
  BY <1>2 DEF FrameInv, NoFrame
<1>9. /\ log' \in [Sessions -> LogType]
      /\ \A x \in Sessions : /\ log'[x].units <= 2 * Records
                             /\ log'[x].state = "absent" => log'[x].units = 0
  BY <1>2 DEF ViewInv
<1> QED BY <1>2, <1>6, <1>7, <1>8, <1>9 DEF ViewInv

\* Before anything is selected there is no effect and no frame.
LEMMA ViewInitInv == ASSUME ViewInit PROVE ViewInv
<1>1. follow = <<>> /\ frame = NoFrame
  BY DEF ViewInit
<1>2. Records \in Nat
  BY LiveViewAssumption
<1>3. log \in [Sessions -> LogType] /\ \A s \in Sessions : log[s].units = 0 /\ 0 <= 2 * Records
  BY <1>2 DEF ViewInit, LogType
<1> QED BY <1>1, <1>3, EmptySeq DEF ViewInv, FrameInv

\* Every step of the view and of the logs keeps the invariant.
LEMMA ViewStepInv == ASSUME ViewInv, [ViewNext]_allVars PROVE ViewInv'
<1>1. DOMAIN follow = 1 .. Len(follow)
  BY LenProperties DEF ViewInv
<1>2. CASE UNCHANGED allVars
  BY <1>2 DEF allVars, viewVars, ViewInv, FrameInv, Whole, NoFrame
<1>3. ASSUME NEW s \in Sessions, CreateLog(s) \/ GrowLog(s) \/ CollectLog(s) \/ Follow(s)
      PROVE  ViewInv'
  BY <1>3, LogStepKeeps, FollowKeeps
<1>4. ASSUME NEW i \in 1 .. Len(follow), GoesOn(i) \/ BootFails(i)
      PROVE  ViewInv'
  BY <1>4, CreatedKeeps, PollTickKeeps, ReadKeeps, BootKeeps, ReplayKeeps DEF GoesOn
<1> QED BY <1>1, <1>2, <1>3, <1>4 DEF ViewNext

\* A frame that is the start of its log shows one log.
LEMMA ViewInvIsTrue == ASSUME ViewInv PROVE ShowsOneLog
<1>1. SUFFICES ASSUME frame # NoFrame
               PROVE  /\ frame.by = Len(follow)
                      /\ frame.screen = [k \in 1..Len(frame.screen) |-> k]
                      /\ Len(frame.screen) <= Whole(follow[frame.by].session)
                      /\ frame.status = "exited" => Len(frame.screen) = Records
  BY DEF ShowsOneLog
<1>2. frame.by = Len(follow)
  BY <1>1 DEF ViewInv, FrameInv
<1>3. PICK n \in Nat : /\ n <= Whole(follow[Len(follow)].session) /\ frame.screen = From(0, n)
                       /\ frame.status = "exited" => n = Records
  BY <1>1 DEF ViewInv, FrameInv
<1>4. Len(From(0, n)) = n
  BY <1>3, FromIsASequence
<1>5. Len(frame.screen) = n
  BY <1>3, <1>4
<1>6. From(0, n) = [k \in 1 .. n |-> k]
  <2>1. \A k \in 1 .. n : 0 + k = k
    BY <1>3
  <2> QED BY <2>1 DEF From
<1> QED BY <1>2, <1>3, <1>5, <1>6

\* The view shows the log of the session that is followed now, each record once
\* and in order, whatever the cuts of its reads and whatever goes on in the views
\* that were left, and says that the session exited only together with its exit
\* record (eventSource.ts:45, liveViewFollower.ts:62, app.tsx:387).
THEOREM TheViewIsTrue == ViewSpec => []ShowsOneLog
<1>1. ViewInit => ViewInv
  BY ViewInitInv
<1>2. ViewInv /\ [ViewNext]_allVars => ViewInv'
  BY ViewStepInv
<1>3. ViewInv => ShowsOneLog
  BY ViewInvIsTrue
<1> QED BY <1>1, <1>2, <1>3, PTL DEF ViewSpec
-----------------------------------------------------------------------------
(* The list of sessions *)

\* What the state of the screens is made of, and its types.
OneOf == AllSessions \cup {NoSession}
Scopes == {"active", "all"}
Focuses == {"list", "live", "home"}

UiRecords ==
  [home : AllHomes, scope : Scopes, focus : Focuses, maximized : BOOLEAN,
   sessions : Seq(AllSessions), selected : OneOf, requested : OneOf,
   homes : Seq(ToSet(Homes)), homeIndex : Nat \ {0}, refreshed : BOOLEAN]
ScanRecords ==
  [alive : BOOLEAN, home : AllHomes, scope : Scopes,
   step : {"idle", "reading", "read", "over"}, found : Seq(AllSessions)]
ViewRecords ==
  [session : OneOf, present : BOOLEAN,
   status : {"none", "pending", "following", "collected"}]
SeenRecords ==
  [home : AllHomes, scope : Scopes, focus : Focuses, selected : OneOf,
   session : OneOf, collected : BOOLEAN]
RanRecords ==
  [home : AllHomes, scope : Scopes, session : OneOf, picker : Scopes \cup {"closed"}]

\* Every variable keeps its type.
DashboardTypes ==
  /\ stored \in [AllSessions -> {"active", "exited", "destroyed", "gone"}]
  /\ ui \in UiRecords
  /\ known \subseteq AllSessions
  /\ view \in ViewRecords
  /\ seen \in SeenRecords
  /\ ran \in RanRecords
  /\ scans \in Seq(ScanRecords)
  /\ load \in {"none", "loading"} /\ keys \in Nat

\* A list that a refresh has set since the home was opened shows only sessions
\* that the refreshes have seen since then.
DashboardInv == DashboardTypes /\ (ui.refreshed => Listed \subseteq known)

\* The row of the selection is one of the list.
LEMMA RowIsListed ==
  ASSUME NEW sessions \in Seq(AllSessions), NEW selected, sessions # <<>>
  PROVE  /\ SelectedIndex(sessions, selected) \in 1 .. Len(sessions)
         /\ sessions[SelectedIndex(sessions, selected)] \in AllSessions
<1>1. DOMAIN sessions = 1 .. Len(sessions) /\ Len(sessions) \in Nat /\ Len(sessions) # 0
  BY LenProperties, EmptySeq
<1>2. SelectedIndex(sessions, selected) \in 1 .. Len(sessions)
  <2>1. CASE selected \in ToSet(sessions)
    <3>1. \E k \in DOMAIN sessions : sessions[k] = selected
      BY <2>1 DEF ToSet
    <3>2. (CHOOSE k \in DOMAIN sessions : sessions[k] = selected) \in DOMAIN sessions
      BY <3>1
    <3> QED BY <1>1, <2>1, <3>2 DEF SelectedIndex
  <2>2. CASE selected \notin ToSet(sessions)
    BY <1>1, <2>2 DEF SelectedIndex
  <2> QED BY <2>1, <2>2
<1> QED BY <1>2, ElementOfSeq

\* What is rendered has its type.
LEMMA PictureType ==
  ASSUME DashboardTypes
  PROVE  Picture \in SeenRecords
<1>1. ui.sessions \in Seq(AllSessions)
  BY DEF DashboardTypes, UiRecords
<1>2. SelectedSession(ui.sessions, ui.selected) \in OneOf
  BY <1>1, RowIsListed DEF SelectedSession, OneOf
<1> QED BY <1>2 DEF Picture, DashboardTypes, UiRecords, SeenRecords

\* The sessions that a scan finds.
LEMMA VisibleType == \A home, scope : Visible(home, scope) \in Seq(AllSessions)
<1> SUFFICES ASSUME NEW home, NEW scope PROVE Visible(home, scope) \in Seq(AllSessions)
  OBVIOUS
<1> DEFINE places == {k \in DOMAIN Newest :
                        /\ HomeOf[Newest[k]] = home /\ stored[Newest[k]] \in {"active", "exited"}
                        /\ scope = "active" => stored[Newest[k]] = "active"}
           T == {Newest[k] : k \in places \cap (1 .. Len(Newest))}
<1>1. Newest \in Seq(AllSessions)
  BY DashboardAssumption
<1>2. Visible(home, scope) = Picked(Newest, places)
  BY DEF Visible
<1> HIDE DEF places
<1>3. Visible(home, scope) \in Seq(T)
  BY <1>1, <1>2, PickedIsASequence
<1>4. T \subseteq AllSessions
  BY <1>1, ElementOfSeq
<1> HIDE DEF T
<1> QED BY <1>3, <1>4, SeqMonotonic

\* A refresh lists what it has found and at most a session that was seen before.
LEMMA DisplayedType ==
  ASSUME NEW found \in Seq(AllSessions), NEW sightings \in SUBSET AllSessions,
         ToSet(found) \subseteq sightings
  PROVE  /\ Displayed(found, sightings) \in Seq(AllSessions)
         /\ ToSet(Displayed(found, sightings)) \subseteq sightings
         /\ seen.selected \notin {NoSession} /\ ~seen.collected /\ seen.selected \in sightings
              => seen.selected \in ToSet(Displayed(found, sightings))
<1> DEFINE s == seen.selected
<1>1. ASSUME s \in sightings
      PROVE  Append(found, s) \in Seq(AllSessions) /\ ToSet(Append(found, s)) = ToSet(found) \cup {s}
  <2> HIDE DEF s
  <2>1. s \in AllSessions
    BY <1>1
  <2>2. Len(found) \in Nat /\ DOMAIN found = 1 .. Len(found)
    BY LenProperties
  <2> DEFINE a == Append(found, s)
  <2>3. /\ a \in Seq(AllSessions) /\ Len(a) = Len(found) + 1 /\ a[Len(found) + 1] = s
        /\ \A k \in 1 .. Len(found) : a[k] = found[k]
    BY <2>1, AppendProperties
  <2>4. DOMAIN a = 1 .. Len(found) + 1
    BY <2>3, LenProperties
  <2> HIDE DEF a
  <2>5. ToSet(a) \subseteq ToSet(found) \cup {s}
    <3> SUFFICES ASSUME NEW k \in 1 .. Len(found) + 1 PROVE a[k] \in ToSet(found) \cup {s}
      BY <2>4 DEF ToSet
    <3>1. CASE k = Len(found) + 1
      BY <2>3, <3>1
    <3>2. CASE k # Len(found) + 1
      <4>1. k \in 1 .. Len(found)
        BY <2>2, <3>2
      <4> QED BY <2>2, <2>3, <4>1 DEF ToSet
    <3> QED BY <3>1, <3>2
  <2>6. ToSet(found) \cup {s} \subseteq ToSet(a)
    <3>1. ASSUME NEW k \in 1 .. Len(found) PROVE found[k] \in ToSet(a)
      <4>1. k \in DOMAIN a /\ a[k] = found[k]
        BY <2>2, <2>3, <2>4
      <4> QED BY <4>1 DEF ToSet
    <3>2. s \in ToSet(a)
      <4>1. Len(found) + 1 \in DOMAIN a
        BY <2>2, <2>4
      <4> QED BY <2>3, <4>1 DEF ToSet
    <3> QED BY <2>2, <3>1, <3>2 DEF ToSet
  <2> QED BY <2>3, <2>5, <2>6 DEF a
<1>2. CASE s \notin ToSet(found) \cup {NoSession} /\ ~seen.collected /\ s \in sightings
  <2>1. Displayed(found, sightings) = Append(found, s)
    BY <1>2 DEF Displayed
  <2> HIDE DEF s
  <2> QED BY <1>1, <1>2, <2>1 DEF s
<1>3. CASE ~(s \notin ToSet(found) \cup {NoSession} /\ ~seen.collected /\ s \in sightings)
  <2>1. Displayed(found, sightings) = found
    BY <1>3 DEF Displayed
  <2> QED BY <1>3, <2>1
<1> QED BY <1>2, <1>3

\* The list of the state, for another state of the screens with the same list.
LEMMA SameList ==
  ASSUME DashboardInv, UNCHANGED known, ui'.sessions = ui.sessions, ui'.refreshed = ui.refreshed
  PROVE  ui'.refreshed => Listed' \subseteq known'
BY DEF DashboardInv, Listed

\* It starts with what the command line asked for and a refresh of the home.
LEMMA DashboardInitInv == ASSUME Init PROVE DashboardInv
<1>1. PICK request \in Requests :
        ui = [home |-> Launched, scope |-> request.scope, focus |-> "list", maximized |-> FALSE,
              sessions |-> <<>>, selected |-> request.session, requested |-> request.session,
              homes |-> <<>>, homeIndex |-> 1, refreshed |-> FALSE]
  BY DEF Init
<1>2. request.scope \in Scopes /\ request.session \in OneOf /\ Launched \in AllHomes
  BY DashboardAssumption DEF Scopes, OneOf, AllHomes
<1>3. <<>> \in Seq(AllSessions) /\ <<>> \in Seq(ToSet(Homes))
  OBVIOUS
<1>4. SelectedSession(ui.sessions, ui.selected) = NoSession
  BY <1>1 DEF SelectedSession
<1>5. stored \in [AllSessions -> {"active", "exited", "destroyed", "gone"}]
  BY DEF Init
<1>6. ui \in UiRecords
  BY <1>1, <1>2, <1>3 DEF Focuses, UiRecords
<1>7. view \in ViewRecords
  BY DEF Init, NoView, OneOf, ViewRecords
<1>8. seen \in SeenRecords
  BY <1>4, <1>6 DEF Init, Picture, OneOf, UiRecords, SeenRecords
<1>9. ran \in RanRecords
  BY <1>8 DEF Init, Ran, SeenRecords, RanRecords
<1>10. scans \in Seq(ScanRecords)
  <2>1. Scan(ui.home, ui.scope) \in ScanRecords
    BY <1>3, <1>6 DEF Scan, ScanRecords, UiRecords
  <2> QED BY <2>1 DEF Init
<1>11. DashboardTypes
  BY <1>5, <1>6, <1>7, <1>8, <1>9, <1>10 DEF Init, DashboardTypes
<1> QED BY <1>1, <1>11 DEF DashboardInv

\* A session ends or is collected, the follower polls, React renders.
LEMMA OutsideKeeps ==
  ASSUME DashboardInv,
         (\E s \in AllSessions : SessionEnds(s) \/ SessionGoes(s)) \/ Follows \/ Render
  PROVE  DashboardInv'
<1> USE DEF DashboardInv
<1>1. ASSUME NEW s \in AllSessions, SessionEnds(s) \/ SessionGoes(s) PROVE DashboardInv'
  <2>1. stored' \in [AllSessions -> {"active", "exited", "destroyed", "gone"}]
    BY <1>1 DEF SessionEnds, SessionGoes, DashboardTypes
  <2>2. UNCHANGED <<ui, known, view, seen, ran, scans, load, keys>>
    BY <1>1 DEF SessionEnds, SessionGoes
  <2> QED BY <2>1, <2>2 DEF DashboardTypes, Listed
<1>2. CASE Follows
  <2>1. view' \in ViewRecords
    <3>1. view \in ViewRecords
      BY DEF DashboardTypes
    <3>2. \/ view' = [view EXCEPT !.present = TRUE, !.status = "following"]
          \/ view' = [view EXCEPT !.status = IF view.present THEN "collected" ELSE "pending"]
      BY <1>2 DEF Follows
    <3> QED BY <3>1, <3>2 DEF ViewRecords
  <2>2. UNCHANGED <<stored, ui, known, seen, ran, scans, load, keys>>
    BY <1>2 DEF Follows
  <2> QED BY <2>1, <2>2 DEF DashboardTypes, Listed
<1>3. CASE Render
  <2>1. /\ seen' = Picture
        /\ UNCHANGED <<stored, ui, known, view, ran, scans, load, keys>>
    BY <1>3 DEF Render
  <2> QED BY <2>1, PictureType DEF DashboardTypes, Listed
<1> QED BY <1>1, <1>2, <1>3

\* The effects run: a cleaned refresh is only marked.
LEMMA EffectsKeep == ASSUME DashboardInv, Effects PROVE DashboardInv'
<1> USE DEF DashboardInv
<1>1. UNCHANGED <<stored, ui, known, seen, keys>>
  BY DEF Effects
<1>2. Ran \in RanRecords
  BY DEF DashboardTypes, Ran, SeenRecords, RanRecords
<1>3. ran' = Ran
  BY DEF Effects
<1>4. scans' \in Seq(ScanRecords)
  <2>1. scans \in Seq(ScanRecords)
    BY DEF DashboardTypes
  <2> DEFINE cleaned == [k \in DOMAIN scans |-> [scans[k] EXCEPT !.alive = FALSE]]
  <2>2. DOMAIN scans = 1 .. Len(scans) /\ Len(scans) \in Nat
    BY <2>1, LenProperties
  <2>3. \A k \in 1 .. Len(scans) : [scans[k] EXCEPT !.alive = FALSE] \in ScanRecords
    <3> TAKE k \in 1 .. Len(scans)
    <3>1. scans[k] \in ScanRecords
      BY <2>1, ElementOfSeq
    <3> QED BY <3>1 DEF ScanRecords
  <2>4. cleaned \in Seq(ScanRecords)
    BY <2>2, <2>3, IsASeq
  <2>5. Scan(Ran.home, Ran.scope) \in ScanRecords
    BY <1>2 DEF Scan, ScanRecords, RanRecords
  <2>6. scans' = scans \/ scans' = Append(cleaned, Scan(Ran.home, Ran.scope))
    BY DEF Effects
  <2> HIDE DEF cleaned
  <2> QED BY <2>1, <2>4, <2>5, <2>6, AppendProperties
<1>5. load' \in {"none", "loading"}
  BY DEF Effects, DashboardTypes
<1>6. view' \in ViewRecords
  BY <1>2 DEF Effects, DashboardTypes, NoView, ViewRecords, RanRecords
<1> QED BY <1>1, <1>2, <1>3, <1>4, <1>5, <1>6 DEF DashboardTypes, Listed

\* The homes are loaded: those picked are among the registered.
LEMMA LoadEndsKeeps == ASSUME DashboardInv, LoadEnds PROVE DashboardInv'
<1> USE DEF DashboardInv
<1> DEFINE places == {k \in DOMAIN Homes : Visible(Homes[k], ran.picker) # <<>>}
           T == {Homes[k] : k \in places \cap (1 .. Len(Homes))}
<1>1. /\ load' = "none" /\ UNCHANGED <<stored, known, view, seen, ran, scans, keys>>
      /\ ui' = [ui EXCEPT !.homeIndex = 1, !.homes = Picked(Homes, places)]
  BY DEF LoadEnds
<1> HIDE DEF places
<1>2. Homes \in Seq(ToSet(Homes))
  BY DashboardAssumption
<1>3. Picked(Homes, places) \in Seq(T)
  BY <1>2, PickedIsASequence
<1>4. T \subseteq ToSet(Homes)
  BY <1>2, ElementOfSeq
<1> HIDE DEF T
<1>5. Picked(Homes, places) \in Seq(ToSet(Homes))
  BY <1>3, <1>4, SeqMonotonic
<1> DEFINE picked == Picked(Homes, places)
<1>6. ui' \in UiRecords
  <2>1. ui \in UiRecords /\ picked \in Seq(ToSet(Homes)) /\ 1 \in Nat \ {0}
    BY <1>5 DEF DashboardTypes
  <2>2. ui' = [ui EXCEPT !.homeIndex = 1, !.homes = picked]
    BY <1>1
  <2> HIDE DEF picked
  <2> QED BY <2>1, <2>2 DEF UiRecords
<1>7. ui'.sessions = ui.sessions /\ ui'.refreshed = ui.refreshed
  BY <1>1 DEF DashboardTypes
<1>8. ui'.refreshed => Listed' \subseteq known'
  BY <1>1, <1>7, SameList
<1> QED BY <1>1, <1>6, <1>8 DEF DashboardTypes

\* Changing a refresh keeps the rest of them.
LEMMA ScanChanges ==
  ASSUME DashboardInv, NEW k \in DOMAIN scans,
         NEW step \in {"idle", "reading", "read", "over"}, NEW found \in Seq(AllSessions)
  PROVE  [scans EXCEPT ![k].step = step, ![k].found = found] \in Seq(ScanRecords)
<1>1. scans \in Seq(ScanRecords)
  BY DEF DashboardInv, DashboardTypes
<1>2. DOMAIN scans = 1 .. Len(scans)
  BY <1>1, LenProperties
<1>3. scans[k] \in ScanRecords
  BY <1>1, <1>2, ElementOfSeq
<1>4. [scans[k] EXCEPT !.step = step, !.found = found] \in ScanRecords
  BY <1>3 DEF ScanRecords
<1>5. [scans EXCEPT ![k].step = step, ![k].found = found]
        = [scans EXCEPT ![k] = [scans[k] EXCEPT !.step = step, !.found = found]]
  BY <1>1, <1>2, <1>3 DEF ScanRecords
<1> QED BY <1>1, <1>2, <1>4, <1>5, ExceptSeq

\* A refresh begins, or reads the sessions of its home.
LEMMA ScanReadsKeeps ==
  ASSUME DashboardInv, NEW k \in DOMAIN scans, BeginScan(k) \/ ScanReads(k)
  PROVE  DashboardInv'
<1>1. UNCHANGED <<stored, ui, known, view, seen, ran, load, keys>>
  BY DEF BeginScan, ScanReads
<1>2. scans \in Seq(ScanRecords)
  BY DEF DashboardInv, DashboardTypes
<1>3. k \in 1 .. Len(scans) /\ scans[k] \in ScanRecords
  BY <1>2, LenProperties, ElementOfSeq
<1>4. CASE BeginScan(k)
  <2>1. scans[k].found \in Seq(AllSessions)
    BY <1>3 DEF ScanRecords
  <2>2. [scans EXCEPT ![k].step = "reading", ![k].found = scans[k].found] \in Seq(ScanRecords)
    BY <2>1, ScanChanges
  <2>3. scans' = [scans EXCEPT ![k].step = "reading", ![k].found = scans[k].found]
    BY <1>2, <1>3, <1>4 DEF BeginScan, ScanRecords
  <2> QED BY <1>1, <2>2, <2>3 DEF DashboardInv, DashboardTypes, Listed
<1>5. CASE ScanReads(k)
  <2> DEFINE found == Visible(scans[k].home, scans[k].scope)
  <2>1. found \in Seq(AllSessions)
    BY VisibleType
  <2>2. scans' = [scans EXCEPT ![k].step = "read", ![k].found = found]
    BY <1>5 DEF ScanReads
  <2> HIDE DEF found
  <2>3. scans' \in Seq(ScanRecords)
    BY <2>1, <2>2, ScanChanges
  <2> QED BY <1>1, <2>3 DEF DashboardInv, DashboardTypes, Listed
<1> QED BY <1>4, <1>5

\* What a refresh that is alive does to the list.
LEMMA AliveScan ==
  ASSUME DashboardInv, NEW k \in DOMAIN scans, ScanEnds(k), scans[k].alive
  PROVE  \E sightings \in SUBSET AllSessions, displayed \in Seq(AllSessions) :
           /\ known \subseteq sightings /\ known' = sightings /\ ToSet(displayed) \subseteq sightings
           /\ displayed = Displayed(scans[k].found, sightings)
           /\ ToSet(scans[k].found) \subseteq sightings
           /\ ui' = [ui EXCEPT !.sessions = displayed, !.selected = Reselect(displayed, ui.selected),
                               !.refreshed = TRUE]
           /\ ui'.sessions = displayed /\ ui'.selected = Reselect(displayed, ui.selected)
<1> DEFINE found == scans[k].found
           sightings == known \cup ToSet(found)
           displayed == Displayed(found, sightings)
<1>1. scans \in Seq(ScanRecords) /\ known \subseteq AllSessions /\ ui \in UiRecords
  BY DEF DashboardInv, DashboardTypes
<1>2. k \in 1 .. Len(scans) /\ scans[k] \in ScanRecords
  BY <1>1, LenProperties, ElementOfSeq
<1>3. found \in Seq(AllSessions)
  BY <1>2 DEF ScanRecords
<1>4. known' = sightings
      /\ ui' = [ui EXCEPT !.sessions = displayed, !.selected = Reselect(displayed, ui.selected),
                          !.refreshed = TRUE]
  BY <1>1 DEF ScanEnds, UiRecords
<1> HIDE DEF found
<1>5. ToSet(found) \subseteq AllSessions
  BY <1>3, LenProperties, ElementOfSeq DEF ToSet
<1>6. sightings \in SUBSET AllSessions /\ known \subseteq sightings /\ ToSet(found) \subseteq sightings
  BY <1>1, <1>5
<1> HIDE DEF sightings
<1>7. displayed \in Seq(AllSessions) /\ ToSet(displayed) \subseteq sightings
  BY <1>3, <1>6, DisplayedType
<1>8. displayed = Displayed(scans[k].found, sightings) /\ ToSet(scans[k].found) \subseteq sightings
  BY <1>6 DEF found
<1> HIDE DEF displayed
<1>9. ui'.sessions = displayed /\ ui'.selected = Reselect(displayed, ui.selected)
  BY <1>1, <1>4 DEF UiRecords
<1> QED BY <1>4, <1>6, <1>7, <1>8, <1>9

\* What is selected after a refresh is listed, or nothing.
LEMMA ReselectType ==
  ASSUME NEW displayed \in Seq(AllSessions), NEW selected \in OneOf
  PROVE  Reselect(displayed, selected) \in OneOf
<1>1. ToSet(displayed) \subseteq AllSessions
  BY LenProperties, ElementOfSeq DEF ToSet
<1>2. displayed # <<>> => displayed[1] \in AllSessions
  <2> HAVE displayed # <<>>
  <2>1. 1 \in 1 .. Len(displayed)
    BY EmptySeq, LenProperties
  <2> QED BY <2>1, ElementOfSeq
<1> QED BY <1>1, <1>2 DEF Reselect, OneOf

\* A refresh ends.
LEMMA ScanEndsKeeps ==
  ASSUME DashboardInv, NEW k \in DOMAIN scans, ScanEnds(k)
  PROVE  DashboardInv'
<1>1. UNCHANGED <<stored, view, seen, ran, load, keys>>
  BY DEF ScanEnds
<1>2. scans' \in Seq(ScanRecords)
  <2> DEFINE step == IF scans[k].alive THEN "idle" ELSE "over"
  <2>1. step \in {"idle", "reading", "read", "over"} /\ <<>> \in Seq(AllSessions)
    OBVIOUS
  <2>2. scans' = [scans EXCEPT ![k].step = step, ![k].found = <<>>]
    BY DEF ScanEnds
  <2> HIDE DEF step
  <2> QED BY <2>1, <2>2, ScanChanges
<1>3. CASE ~scans[k].alive
  <2>1. UNCHANGED <<ui, known>>
    BY <1>3 DEF ScanEnds
  <2> QED BY <1>1, <1>2, <2>1 DEF DashboardInv, DashboardTypes, Listed
<1>4. CASE scans[k].alive
  <2>1. PICK sightings \in SUBSET AllSessions, displayed \in Seq(AllSessions) :
           /\ known' = sightings /\ ToSet(displayed) \subseteq sightings
           /\ ui' = [ui EXCEPT !.sessions = displayed, !.selected = Reselect(displayed, ui.selected),
                               !.refreshed = TRUE]
           /\ ui'.sessions = displayed
    BY <1>4, AliveScan
  <2>2. ui \in UiRecords
    BY DEF DashboardInv, DashboardTypes
  <2> DEFINE selected == Reselect(displayed, ui.selected)
  <2>3. selected \in OneOf
    <3>1. ui.selected \in OneOf
      BY <2>2 DEF UiRecords
    <3> QED BY <3>1, ReselectType
  <2>4. ui' = [ui EXCEPT !.sessions = displayed, !.selected = selected, !.refreshed = TRUE]
    BY <2>1
  <2> HIDE DEF selected
  <2>5. ui' \in UiRecords
    BY <2>2, <2>3, <2>4 DEF UiRecords
  <2>6. Listed' \subseteq known'
    BY <2>1 DEF Listed
  <2> QED BY <1>1, <1>2, <2>1, <2>5, <2>6 DEF DashboardInv, DashboardTypes
<1> QED BY <1>3, <1>4

\* A key that leaves the list and what is known of it alone.
LEMMA KeyKeeps ==
  ASSUME DashboardInv, NEW change \in UiRecords, Key(change), UNCHANGED known,
         change.sessions = ui.sessions, change.refreshed = ui.refreshed
  PROVE  DashboardInv'
<1>1. ui' = change /\ UNCHANGED <<stored, view, seen, ran, scans, load>> /\ keys' = keys + 1
  BY DEF Key
<1>2. ui'.refreshed => Listed' \subseteq known'
  BY <1>1, SameList
<1> QED BY <1>1, <1>2 DEF DashboardInv, DashboardTypes

\* The arrows move the selection to a row of the list.
LEMMA KeyMoveKeeps ==
  ASSUME DashboardInv, NEW step, KeyMove(step)
  PROVE  DashboardInv'
<1>1. ui \in UiRecords
  BY DEF DashboardInv, DashboardTypes
<1>2. ui.sessions \in Seq(AllSessions) /\ ui.sessions # <<>>
  BY <1>1 DEF UiRecords, KeyMove
<1> DEFINE at == SelectedIndex(ui.sessions, ui.selected)
           next == IF step = "up" THEN (IF at = 1 THEN 1 ELSE at - 1)
                   ELSE IF at = Len(ui.sessions) THEN at ELSE at + 1
           row == ui.sessions[next]
<1>3. at \in 1 .. Len(ui.sessions) /\ Len(ui.sessions) \in Nat
  BY <1>2, RowIsListed, LenProperties
<1>4. Key([ui EXCEPT !.selected = row]) /\ UNCHANGED known
  BY DEF KeyMove
<1> HIDE DEF at
<1>5. next \in 1 .. Len(ui.sessions)
  BY <1>3
<1> HIDE DEF next
<1>6. row \in OneOf
  BY <1>2, <1>5, ElementOfSeq DEF OneOf
<1> HIDE DEF row
<1> DEFINE change == [ui EXCEPT !.selected = row]
<1>7. change \in UiRecords /\ change.sessions = ui.sessions /\ change.refreshed = ui.refreshed
  BY <1>1, <1>6 DEF UiRecords
<1> HIDE DEF change
<1>8. Key(change)
  BY <1>4 DEF change
<1> QED BY <1>4, <1>7, <1>8, KeyKeeps

\* The scope, the focus, the maximized view.
LEMMA KeyScreenKeeps ==
  ASSUME DashboardInv, KeyScope \/ KeyTab \/ KeyMaximize \/ KeyRestore \/ KeyHomes
  PROVE  DashboardInv'
<1>1. ui \in UiRecords
  BY DEF DashboardInv, DashboardTypes
<1>2. UNCHANGED known
  BY DEF KeyScope, KeyTab, KeyMaximize, KeyRestore, KeyHomes
<1>3. \E change \in UiRecords :
        Key(change) /\ change.sessions = ui.sessions /\ change.refreshed = ui.refreshed
  <2>1. CASE KeyScope
    <3> DEFINE change == [ui EXCEPT !.scope = Swap(@, "active", "all")]
    <3>1. change \in UiRecords /\ change.sessions = ui.sessions /\ change.refreshed = ui.refreshed
      BY <1>1 DEF UiRecords, Swap, Scopes
    <3> QED BY <2>1, <3>1 DEF KeyScope
  <2>2. CASE KeyTab
    <3> DEFINE change == [ui EXCEPT !.focus = Swap(@, "list", "live")]
    <3>1. change \in UiRecords /\ change.sessions = ui.sessions /\ change.refreshed = ui.refreshed
      BY <1>1 DEF UiRecords, Swap, Focuses
    <3> QED BY <2>2, <3>1 DEF KeyTab
  <2>3. CASE KeyMaximize
    <3> DEFINE change == [ui EXCEPT !.maximized = TRUE]
    <3>1. change \in UiRecords /\ change.sessions = ui.sessions /\ change.refreshed = ui.refreshed
      BY <1>1 DEF UiRecords
    <3> QED BY <2>3, <3>1 DEF KeyMaximize
  <2>4. CASE KeyRestore
    <3> DEFINE change == [ui EXCEPT !.maximized = FALSE]
    <3>1. change \in UiRecords /\ change.sessions = ui.sessions /\ change.refreshed = ui.refreshed
      BY <1>1 DEF UiRecords
    <3> QED BY <2>4, <3>1 DEF KeyRestore
  <2>5. CASE KeyHomes
    <3> DEFINE change == [ui EXCEPT !.focus = Swap(@, "home", "list")]
    <3>1. change \in UiRecords /\ change.sessions = ui.sessions /\ change.refreshed = ui.refreshed
      BY <1>1 DEF UiRecords, Swap, Focuses
    <3> QED BY <2>5, <3>1 DEF KeyHomes
  <2> QED BY <2>1, <2>2, <2>3, <2>4, <2>5
<1> QED BY <1>2, <1>3, KeyKeeps

\* The arrows in the picker of homes.
LEMMA KeyHomeMoveKeeps ==
  ASSUME DashboardInv, NEW step, KeyHomeMove(step)
  PROVE  DashboardInv'
<1>1. ui \in UiRecords
  BY DEF DashboardInv, DashboardTypes
<1> DEFINE at == ui.homeIndex
           next == IF step = "up" THEN (IF at = 1 THEN 1 ELSE at - 1)
                   ELSE IF at >= Len(ui.homes) THEN at ELSE at + 1
           change == [ui EXCEPT !.homeIndex = next]
<1>2. Key(change) /\ UNCHANGED known
  BY DEF KeyHomeMove
<1>3. next \in Nat \ {0}
  <2>1. at \in Nat \ {0}
    BY <1>1 DEF UiRecords
  <2> HIDE DEF at
  <2> QED BY <2>1
<1> HIDE DEF next
<1>4. change \in UiRecords /\ change.sessions = ui.sessions /\ change.refreshed = ui.refreshed
  BY <1>1, <1>3 DEF UiRecords
<1> HIDE DEF change
<1> QED BY <1>2, <1>4, KeyKeeps

\* Opening a home: of another one nothing is known yet.
LEMMA KeyOpenHomeKeeps == ASSUME DashboardInv, KeyOpenHome PROVE DashboardInv'
<1>1. ui \in UiRecords
  BY DEF DashboardInv, DashboardTypes
<1>2. CASE ui.homeIndex \in DOMAIN ui.homes /\ ui.homes[ui.homeIndex] # ui.home
  <2> DEFINE home == ui.homes[ui.homeIndex]
  <2>1. home \in AllHomes
    <3>1. ui.homes \in Seq(ToSet(Homes))
      BY <1>1 DEF UiRecords
    <3>2. home \in ToSet(Homes)
      BY <1>2, <3>1, LenProperties, ElementOfSeq
    <3> QED BY <3>2 DEF AllHomes
  <2>2. /\ ui' = [ui EXCEPT !.home = home, !.selected = NoSession, !.focus = "list", !.refreshed = FALSE]
        /\ known' = {} /\ keys' = keys + 1
        /\ UNCHANGED <<stored, view, seen, ran, scans, load>>
    BY <1>2 DEF KeyOpenHome, Key
  <2> HIDE DEF home
  <2>3. ui' \in UiRecords /\ ~ui'.refreshed
    BY <1>1, <2>1, <2>2 DEF UiRecords, OneOf, Focuses
  <2> QED BY <2>2, <2>3 DEF DashboardInv, DashboardTypes
<1>3. CASE ~(ui.homeIndex \in DOMAIN ui.homes /\ ui.homes[ui.homeIndex] # ui.home)
  <2> DEFINE change == [ui EXCEPT !.focus = "list"]
  <2>1. Key(change) /\ UNCHANGED known
    BY <1>3 DEF KeyOpenHome
  <2>2. change \in UiRecords /\ change.sessions = ui.sessions /\ change.refreshed = ui.refreshed
    BY <1>1 DEF UiRecords, Focuses
  <2> HIDE DEF change
  <2> QED BY <2>1, <2>2, KeyKeeps
<1> QED BY <1>2, <1>3

\* Every step keeps the types, and what is listed among what is known.
LEMMA DashboardStepInv == ASSUME DashboardInv, [Next]_vars PROVE DashboardInv'
<1>1. CASE UNCHANGED vars
  BY <1>1 DEF DashboardInv, DashboardTypes, Listed, vars
<1>2. CASE (\E s \in AllSessions : SessionEnds(s) \/ SessionGoes(s)) \/ Follows \/ Render
  BY <1>2, OutsideKeeps
<1>3. CASE Effects
  BY <1>3, EffectsKeep
<1>4. CASE LoadEnds
  BY <1>4, LoadEndsKeeps
<1>5. CASE KeyStep
  BY <1>5, KeyMoveKeeps, KeyHomeMoveKeeps, KeyScreenKeeps, KeyOpenHomeKeeps DEF KeyStep
<1>6. ASSUME NEW k \in DOMAIN scans, ScanStep(k) PROVE DashboardInv'
  BY <1>6, ScanReadsKeeps, ScanEndsKeeps DEF ScanStep
<1> QED BY <1>1, <1>2, <1>3, <1>4, <1>5, <1>6 DEF Next

\* A refresh that ends keeps the session that is watched selected.
LEMMA WatchedIsKept ==
  ASSUME DashboardInv, NEW k \in DOMAIN scans, ScanEnds(k), Settled, ui.refreshed,
         ui.selected \in Listed, view.status # "collected"
  PROVE  ui'.selected = ui.selected
<1>1. CASE ~scans[k].alive
  BY <1>1 DEF ScanEnds
<1>2. CASE scans[k].alive
  <2>1. PICK sightings \in SUBSET AllSessions, displayed \in Seq(AllSessions) :
           /\ known \subseteq sightings /\ ToSet(displayed) \subseteq sightings
           /\ displayed = Displayed(scans[k].found, sightings)
           /\ ToSet(scans[k].found) \subseteq sightings
           /\ ui'.selected = Reselect(displayed, ui.selected)
    BY <1>2, AliveScan
  <2>2. seen.selected = ui.selected /\ ~seen.collected
    BY DEF Settled, Rendered, Picture
  <2>3. ui.selected \in sightings /\ ui.selected # NoSession
    BY <2>1, DashboardAssumption DEF DashboardInv
  <2>4. scans[k].found \in Seq(AllSessions)
    <3>1. scans \in Seq(ScanRecords)
      BY DEF DashboardInv, DashboardTypes
    <3>2. scans[k] \in ScanRecords
      BY <3>1, LenProperties, ElementOfSeq
    <3> QED BY <3>2 DEF ScanRecords
  <2>5. ui.selected \in ToSet(displayed)
    BY <2>1, <2>2, <2>3, <2>4, DisplayedType
  <2> QED BY <2>1, <2>5 DEF Reselect
<1> QED BY <1>1, <1>2

\* For any sessions, homes and keys, a session that is watched stays selected when
\* a refresh finds that it ended or left the scope (app.tsx:516), until its log is
\* collected, from the first refresh after its home was opened on.
THEOREM WatchedSessionsStay == Spec => WatchedStays
<1>1. Init => DashboardInv
  BY DashboardInitInv
<1>2. DashboardInv /\ [Next]_vars => DashboardInv'
  BY DashboardStepInv
<1> DEFINE Watched ==
      \A k \in DOMAIN scans :
        /\ ScanEnds(k) /\ Settled /\ ui.refreshed /\ ui.selected \in Listed
        /\ view.status # "collected"
        => ui'.selected = ui.selected
<1>3. DashboardInv /\ [Next]_vars => [Watched]_vars
  BY WatchedIsKept
<1> HIDE DEF Watched
<1>4. Init /\ [][Next]_vars => [][Watched]_vars
  BY <1>1, <1>2, <1>3, PTL
<1> USE DEF Watched
<1> QED BY <1>4 DEF Spec, WatchedStays
=============================================================================
