---------------------------- MODULE OutputProofs ----------------------------
(***************************************************************************)
(* Proofs about what is in the log of a host that observes waited runs:    *)
(* the output that it keeps is what the program printed for its user, and  *)
(* the end of a run is recorded where it was printed (RunCompletion), for  *)
(* every set of runs, every common start of the postambles, every output   *)
(* of the program, and wherever the terminal cuts it.                      *)
(*                                                                         *)
(* The state does not say which characters of the terminal are whose, and  *)
(* what the scanner and the sanitizer keep back depends on it. So the      *)
(* invariant says that there is a story of all that was printed, character *)
(* by character, and that the log, the sanitizer, the pieces under way,    *)
(* the scanner and the unread output are its parts, one behind the other.  *)
(* What the scan of an echo finds in any text is proved in CommandProofs.  *)
(* The first sections say what the sanitizer makes of a part of the story  *)
(* and the scanner of a part of the terminal's, and the last that every    *)
(* step goes on with the story.                                            *)
(***************************************************************************)
EXTENDS CommandProofs
-----------------------------------------------------------------------------
(* The story of the output. Nothing in the state tells which characters of *)
(* the terminal were the program's and which were an echo's, so `p` does:  *)
(* `chars` are all that came without the sentinels; behind the first i of  *)
(* them `user` counts the program's, and `at` is the place in an echo, 0   *)
(* outside. The i-th is of an echo of the run `run`, or the program's.     *)

\* The i-th character is the next that the program printed.
UserChar(p, i) ==
  /\ p.at[i - 1] = 0 /\ p.at[i] = 0
  /\ p.user[i] = p.user[i - 1] + 1 /\ p.chars[i] = text[p.user[i]]

\* Behind the first `s` characters an echo of `r` begins.
EchoAt(p, s, r, echo) ==
  /\ r \in typed /\ echo \in Echoes(r)
  /\ s >= 0 /\ s + Len(echo) <= Len(p.chars) /\ p.at[s] = 0 /\ p.at[s + Len(echo)] = 0
  /\ \A j \in 1 .. Len(echo) :
       /\ p.chars[s + j] = echo[j] /\ p.user[s + j] = p.user[s]
       /\ p.run[s + j] = r /\ p.echo[s + j] = echo
       /\ j < Len(echo) => p.at[s + j] = j

\* The i-th character is one of an echo.
EchoChar(p, i) ==
  /\ p.user[i] = p.user[i - 1] /\ p.at[i - 1] < Len(p.echo[i])
  /\ EchoAt(p, i - 1 - p.at[i - 1], p.run[i], p.echo[i])

\* The program printed the i-th to the j-th, and the control at the i-th, if one is there, ends there too.
Whole(p, i, j) ==
  /\ \A k \in i .. j : UserChar(p, k)
  /\ ControlLength(Between(p.chars, i - 1, j), 1) # Partial

\* The story of the characters.
PlainInv(p) ==
  LET n == Len(p.chars)
  IN  /\ p.chars \in Seq(Characters)
      /\ p.user \in [0 .. n -> 0 .. Len(text)] /\ p.at \in [0 .. n -> Nat]
      /\ p.user[0] = 0 /\ p.at[0] = 0 /\ p.user[n] = Len(text) /\ p.at[n] = 0
      /\ \A i \in 1 .. n : EchoChar(p, i) \/ (UserChar(p, i) /\ \E j \in i .. n : Whole(p, i, j))

\* What `text` is, and the runs that were typed.
ProgramTypes == text \in Seq(Characters) /\ typed \subseteq Runs

\* A character of an echo, and the echo around it.
LEMMA EchoCharIs ==
  ASSUME NEW p, PlainInv(p), ProgramTypes, NEW i \in 1 .. Len(p.chars), EchoChar(p, i)
  PROVE  LET l == p.at[i - 1]
             s == i - 1 - l
             r == p.run[i]
             echo == p.echo[i]
         IN  /\ r \in Runs /\ echo \in Echoes(r) /\ Len(echo) \in Nat /\ l \in 0 .. Len(echo) - 1
             /\ s \in 0 .. Len(p.chars) /\ s + Len(echo) <= Len(p.chars)
             /\ p.chars[i] = echo[l + 1] /\ p.user[i] = p.user[i - 1]
             /\ p.at[i] = IF l + 1 = Len(echo) THEN 0 ELSE l + 1
             /\ l > 0 => p.run[i - 1] = r
<1> DEFINE n == Len(p.chars)
           l == p.at[i - 1]
           s == i - 1 - l
           r == p.run[i]
           echo == p.echo[i]
<1>1. n \in Nat /\ i \in 1 .. n /\ i - 1 \in 0 .. n /\ l \in Nat
  BY LenProperties DEF PlainInv
<1>2. EchoAt(p, s, r, echo) /\ p.user[i] = p.user[i - 1] /\ l < Len(echo)
  BY DEF EchoChar
<1> HIDE DEF n, l, r, echo
<1>3. /\ r \in Runs /\ echo \in Echoes(r) /\ s >= 0 /\ s + Len(echo) <= n /\ p.at[s + Len(echo)] = 0
      /\ \A j \in 1 .. Len(echo) :
           p.chars[s + j] = echo[j] /\ p.run[s + j] = r /\ (j < Len(echo) => p.at[s + j] = j)
  BY <1>2 DEF EchoAt, ProgramTypes, n
<1>4. Len(echo) \in Nat
  BY <1>3, EchoIs, LenProperties
<1>5. s + (l + 1) = i /\ l + 1 \in 1 .. Len(echo) /\ l \in 0 .. Len(echo) - 1 /\ s \in 0 .. n /\ s + l = i - 1
  BY <1>1, <1>2, <1>3, <1>4
<1> HIDE DEF s
<1>6. p.chars[s + (l + 1)] = echo[l + 1]
  BY <1>3, <1>5
<1>7. p.at[i] = IF l + 1 = Len(echo) THEN 0 ELSE l + 1
  <2>1. CASE l + 1 = Len(echo)
    BY <1>3, <1>5, <2>1
  <2>2. CASE l + 1 # Len(echo)
    <3>1. l + 1 < Len(echo)
      BY <1>4, <1>5, <2>2
    <3>2. p.at[s + (l + 1)] = l + 1
      BY <1>3, <1>5, <3>1
    <3> QED BY <1>5, <2>2, <3>2
  <2> QED BY <2>1, <2>2
<1>8. l > 0 => p.run[i - 1] = r
  <2>1. l > 0 => l \in 1 .. Len(echo)
    BY <1>4, <1>5
  <2>2. l > 0 => p.run[s + l] = r
    BY <1>3, <2>1
  <2> QED BY <1>5, <2>2
<1> QED BY <1>2, <1>3, <1>4, <1>5, <1>6, <1>7, <1>8 DEF n, l, s, r, echo

\* All characters of that echo are.
LEMMA EchoCharsTogether ==
  ASSUME NEW p, PlainInv(p), ProgramTypes, NEW i \in 1 .. Len(p.chars), EchoChar(p, i)
  PROVE  LET s == i - 1 - p.at[i - 1]
         IN  \A j \in 1 .. Len(p.echo[i]) :
               /\ p.chars[s + j] = p.echo[i][j] /\ p.user[s + j] = p.user[s]
               /\ p.at[s + j] = IF j = Len(p.echo[i]) THEN 0 ELSE j
<1> DEFINE s == i - 1 - p.at[i - 1]
           echo == p.echo[i]
<1>1. Len(echo) \in Nat
  BY EchoCharIs
<1>2. EchoAt(p, s, p.run[i], echo)
  BY DEF EchoChar
<1>3. /\ p.at[s + Len(echo)] = 0
      /\ \A j \in 1 .. Len(echo) : /\ p.chars[s + j] = echo[j] /\ p.user[s + j] = p.user[s]
                                   /\ j < Len(echo) => p.at[s + j] = j
  BY <1>2 DEF EchoAt
<1> HIDE DEF s, echo
<1>4. ASSUME NEW j \in 1 .. Len(echo)
      PROVE  p.at[s + j] = IF j = Len(echo) THEN 0 ELSE j
  <2>1. CASE j = Len(echo)
    BY <1>3, <2>1
  <2>2. CASE j # Len(echo)
    <3>1. j < Len(echo)
      BY <1>1, <2>2
    <3> QED BY <1>3, <2>2, <3>1
  <2> QED BY <2>1, <2>2
<1> QED BY <1>3, <1>4 DEF s, echo

\* No character is both, and inside an echo there are only its characters.
LEMMA CharIsOne ==
  ASSUME NEW p, PlainInv(p), NEW i \in 1 .. Len(p.chars)
  PROVE  /\ ~(EchoChar(p, i) /\ UserChar(p, i)) /\ (EchoChar(p, i) \/ UserChar(p, i))
         /\ p.at[i - 1] # 0 => EchoChar(p, i)
<1>1. Len(p.chars) \in Nat /\ i - 1 \in 0 .. Len(p.chars)
  BY LenProperties DEF PlainInv
<1>2. p.user[i - 1] \in Int
  <2>1. p.user \in [0 .. Len(p.chars) -> 0 .. Len(text)]
    BY DEF PlainInv
  <2>2. p.user[i - 1] \in 0 .. Len(text)
    BY <1>1, <2>1, Zenon
  <2> QED BY <2>2
<1>3. ~(EchoChar(p, i) /\ UserChar(p, i))
  BY <1>2 DEF EchoChar, UserChar
<1>4. EchoChar(p, i) \/ UserChar(p, i)
  BY DEF PlainInv
<1> QED BY <1>3, <1>4 DEF UserChar

\* A number that grows by at most one.
LEMMA UserGrows ==
  ASSUME NEW p, PlainInv(p), NEW i \in 0 .. Len(p.chars), NEW j \in i .. Len(p.chars)
  PROVE  /\ p.user[i] \in 0 .. Len(text) /\ p.user[j] \in p.user[i] .. Len(text)
         /\ p.user[j] <= p.user[i] + (j - i)
<1> DEFINE n == Len(p.chars)
           grows == {k \in Nat : i + k <= n => p.user[i + k] >= p.user[i] /\ p.user[i + k] <= p.user[i] + k}
<1>1. n \in Nat /\ i \in Nat /\ j \in Nat /\ i <= j /\ j <= n
  BY LenProperties DEF PlainInv
<1>2. \A k \in 0 .. n : p.user[k] \in 0 .. Len(text) /\ p.user[k] \in Int
  BY DEF PlainInv
<1>3. 0 \in grows
  <2>1. i + 0 = i /\ i \in 0 .. n
    BY <1>1
  <2> QED BY <1>1, <1>2, <2>1
<1>4. ASSUME NEW k \in Nat, k \in grows PROVE k + 1 \in grows
  <2> SUFFICES ASSUME i + (k + 1) <= n
               PROVE  p.user[i + (k + 1)] >= p.user[i] /\ p.user[i + (k + 1)] <= p.user[i] + (k + 1)
    OBVIOUS
  <2> DEFINE m == i + k
  <2>1. m \in 0 .. n /\ m + 1 \in 1 .. n /\ m + 1 - 1 = m /\ i + (k + 1) = m + 1 /\ i \in 0 .. n /\ m <= n
    BY <1>1
  <2>2. p.user[m] >= p.user[i] /\ p.user[m] <= p.user[i] + k
    BY <1>4, <2>1
  <2> HIDE DEF m
  <2>3. p.user[m + 1] = p.user[m] \/ p.user[m + 1] = p.user[m] + 1
    <3>1. EchoChar(p, m + 1) \/ UserChar(p, m + 1)
      BY <2>1, CharIsOne
    <3> QED BY <2>1, <3>1 DEF EchoChar, UserChar
  <2>4. p.user[m] \in Int /\ p.user[i] \in Int
    BY <1>2, <2>1
  <2>5. p.user[m + 1] >= p.user[i] /\ p.user[m + 1] <= p.user[i] + (k + 1)
    BY <2>2, <2>3, <2>4
  <2> QED BY <2>1, <2>5
<1>5. j - i \in grows
  <2> HIDE DEF grows
  <2>1. j - i \in Nat
    BY <1>1
  <2> QED BY <1>3, <1>4, <2>1, Induction
<1>6. i + (j - i) = j /\ i \in 0 .. n /\ j \in 0 .. n
  BY <1>1
<1>7. p.user[j] >= p.user[i] /\ p.user[j] <= p.user[i] + (j - i)
  BY <1>1, <1>5, <1>6
<1>8. p.user[i] \in 0 .. Len(text) /\ p.user[j] \in 0 .. Len(text)
  BY <1>2, <1>6
<1> QED BY <1>7, <1>8

\* What the program printed in one go stands so in its text.
LEMMA UserRun ==
  ASSUME NEW p, PlainInv(p), ProgramTypes, NEW i \in 0 .. Len(p.chars), NEW j \in i .. Len(p.chars),
         \A k \in i + 1 .. j : UserChar(p, k)
  PROVE  /\ p.user[j] = p.user[i] + (j - i)
         /\ Between(p.chars, i, j) = Between(text, p.user[i], p.user[j])
<1> DEFINE n == Len(p.chars)
           counts == {k \in Nat : i + k <= j => p.user[i + k] = p.user[i] + k}
<1>1. n \in Nat /\ i \in Nat /\ j \in Nat /\ i <= j /\ j <= n
  BY LenProperties DEF PlainInv
<1>2. \A k \in 0 .. n : p.user[k] \in 0 .. Len(text) /\ p.user[k] \in Int
  BY DEF PlainInv
<1>3. 0 \in counts
  <2>1. i + 0 = i /\ i \in 0 .. n
    BY <1>1
  <2> QED BY <1>1, <1>2, <2>1
<1>4. ASSUME NEW k \in Nat, k \in counts PROVE k + 1 \in counts
  <2> SUFFICES ASSUME i + (k + 1) <= j
               PROVE  p.user[i + (k + 1)] = p.user[i] + (k + 1)
    OBVIOUS
  <2> DEFINE m == i + (k + 1)
  <2>1. m \in i + 1 .. j /\ m - 1 = i + k /\ i + k <= j /\ i \in 0 .. n
    BY <1>1
  <2>2. p.user[i + k] = p.user[i] + k
    BY <1>4, <2>1
  <2> HIDE DEF m
  <2>3. p.user[m] = p.user[m - 1] + 1
    BY <2>1 DEF UserChar
  <2>4. p.user[i] \in Int
    BY <1>2, <2>1
  <2>5. p.user[m] = p.user[i] + (k + 1)
    BY <2>1, <2>2, <2>3, <2>4
  <2> QED BY <2>5 DEF m
<1>5. \A k \in 0 .. j - i : p.user[i + k] = p.user[i] + k
  <2>1. Nat \subseteq counts
    <3> HIDE DEF counts
    <3> QED BY <1>3, <1>4, Induction
  <2>2. \A k \in 0 .. j - i : k \in Nat /\ i + k <= j
    BY <1>1
  <2> QED BY <2>1, <2>2
<1>6. p.user[j] = p.user[i] + (j - i)
  <2>1. j - i \in 0 .. j - i /\ i + (j - i) = j
    BY <1>1
  <2> QED BY <1>5, <2>1
<1> DEFINE a == Between(p.chars, i, j)
           u == p.user[i]
           v == p.user[j]
           b == Between(text, u, v)
<1>7. i \in 0 .. n /\ j \in i .. n /\ u \in 0 .. Len(text) /\ v \in u .. Len(text)
      /\ text \in Seq(Characters) /\ p.chars \in Seq(Characters)
  <2>1. text \in Seq(Characters) /\ p.chars \in Seq(Characters) /\ i \in 0 .. n /\ j \in i .. n /\ j \in 0 .. n
    BY <1>1 DEF PlainInv, ProgramTypes
  <2> QED BY <1>1, <1>2, <1>6, <2>1
<1>8. a \in Seq(Characters) /\ Len(a) = j - i /\ \A k \in 1 .. j - i : a[k] = p.chars[i + k]
  BY <1>7, BetweenIs
<1> HIDE DEF u, v
<1>9. b \in Seq(Characters) /\ Len(b) = v - u /\ \A k \in 1 .. v - u : b[k] = text[u + k]
  BY <1>7, BetweenIs
<1>10. v - u = j - i
  BY <1>1, <1>6, <1>7 DEF u, v
<1> HIDE DEF a, b
<1>11. ASSUME NEW k \in 1 .. Len(a) PROVE a[k] = b[k]
  <2>1. k \in 1 .. j - i /\ i + k \in i + 1 .. j /\ k \in 0 .. j - i
    BY <1>1, <1>8
  <2>2. p.chars[i + k] = text[p.user[i + k]]
    BY <2>1 DEF UserChar
  <2>3. p.user[i + k] = u + k
    BY <1>5, <2>1 DEF u
  <2> QED BY <1>8, <1>9, <1>10, <2>1, <2>2, <2>3
<1>12. a = b
  BY <1>8, <1>9, <1>10, <1>11, SameText
<1> QED BY <1>6, <1>12 DEF a, b, u, v
-----------------------------------------------------------------------------
(* What the program printed is no postamble *)

\* No part of what the program printed reads as the start of a postamble.
Unmistakable ==
  \A i \in 0 .. Len(text) : \A j \in i .. Len(text) :
    ~PrefixScan(Between(text, i, j), EchoPrefix).complete

\* Where the program printed the first character of the postambles there is no
\* echo, and unless it printed all the rest one that follows stops any match.
LEMMA UserLooksAlike ==
  ASSUME NEW p, PlainInv(p), ProgramTypes, Unmistakable,
         NEW c \in 1 .. Len(p.chars), NEW h \in c .. Len(p.chars),
         UserChar(p, c), p.chars[c] = EchoPrefix[1]
  PROVE  \E L : /\ Lookalike(Between(p.chars, c - 1, h), L)
                /\ L = Len(Between(p.chars, c - 1, h)) => \A i \in c .. h : UserChar(p, i)
<1> DEFINE n == Len(p.chars)
           others == {i \in c .. h : ~UserChar(p, i)}
           last == IF others = {} THEN h ELSE Min(others) - 1
           L == last - c + 1
           a == Between(p.chars, c - 1, h)
           b == SubSeq(a, 1, L)
<1>1. n \in Nat /\ c \in Nat /\ h \in Nat /\ 1 <= c /\ c <= h /\ h <= n /\ p.chars \in Seq(Characters)
      /\ c - 1 \in 0 .. n /\ h \in c - 1 .. n
  BY LenProperties DEF PlainInv
<1>2. others # {} => Min(others) \in others /\ \A i \in others : Min(others) <= i
  <2>1. others \subseteq Nat
    BY <1>1
  <2> HIDE DEF others
  <2> QED BY <2>1, Smallest
<1>3. /\ last \in c .. h /\ \A i \in c .. last : UserChar(p, i)
      /\ last < h => ~UserChar(p, last + 1)
      /\ others # {} => last < h
  <2>1. CASE others = {}
    BY <1>1, <2>1
  <2>2. CASE others # {}
    <3>1. Min(others) \in c .. h /\ ~UserChar(p, Min(others)) /\ \A i \in c .. h : ~UserChar(p, i) => Min(others) <= i
      BY <1>2, <2>2
    <3>2. Min(others) # c
      BY <3>1
    <3>3. last = Min(others) - 1
      BY <2>2
    <3> HIDE DEF others, last
    <3>4. last \in c .. h /\ last < h /\ last + 1 = Min(others)
      BY <1>1, <3>1, <3>2, <3>3
    <3>5. ASSUME NEW i \in c .. last PROVE UserChar(p, i)
      <4>1. i \in c .. h /\ ~(Min(others) <= i)
        BY <1>1, <3>1, <3>4
      <4> QED BY <3>1, <4>1
    <3> QED BY <3>1, <3>4, <3>5
  <2> QED BY <2>1, <2>2
<1> HIDE DEF others, last
<1>4. a \in Seq(Characters) /\ Len(a) = h - (c - 1) /\ \A j \in 1 .. h - (c - 1) : a[j] = p.chars[c - 1 + j]
  <2> DEFINE m == c - 1
  <2>1. m \in 0 .. n /\ h \in m .. n
    BY <1>1
  <2> HIDE DEF m
  <2>2. /\ Between(p.chars, m, h) \in Seq(Characters) /\ Len(Between(p.chars, m, h)) = h - m
        /\ \A j \in 1 .. h - m : Between(p.chars, m, h)[j] = p.chars[m + j]
    BY <1>1, <2>1, BetweenIs
  <2> QED BY <2>2 DEF m
<1>5. L \in Nat /\ L \in 1 .. Len(a) /\ last \in Nat /\ (L = Len(a) <=> last = h) /\ last <= h /\ c <= last
  BY <1>1, <1>3, <1>4
<1>6. b = Between(p.chars, c - 1, last) /\ b \in Seq(Characters) /\ Len(b) = L
      /\ \A j \in 1 .. L : b[j] = p.chars[c - 1 + j]
  <2> DEFINE m == c - 1
  <2>1. m \in 0 .. n /\ h \in m .. n /\ 0 \in 0 .. h - m /\ L \in 0 .. h - m /\ last \in m .. n
        /\ m + 0 = m /\ m + L = last /\ 0 + 1 = 1 /\ last - m = L
    BY <1>1, <1>3, SMTT(40)
  <2>2. b = Between(Between(p.chars, m, h), 0, L)
    BY <2>1 DEF Between
  <2> HIDE DEF m, L, a, b
  <2>3. b = Between(p.chars, m + 0, m + L)
    BY <1>1, <2>1, <2>2, BetweenBetween
  <2>4. /\ Between(p.chars, m, last) \in Seq(Characters) /\ Len(Between(p.chars, m, last)) = last - m
        /\ \A j \in 1 .. last - m : Between(p.chars, m, last)[j] = p.chars[m + j]
    BY <1>1, <2>1, BetweenIs
  <2> QED BY <2>1, <2>3, <2>4 DEF m
<1>7. ~PrefixScan(b, EchoPrefix).complete
  <2> DEFINE m == c - 1
  <2>1. m \in 0 .. n /\ last \in m .. n /\ \A k \in m + 1 .. last : UserChar(p, k)
    BY <1>1, <1>3
  <2> HIDE DEF m
  <2>2. Between(p.chars, m, last) = Between(text, p.user[m], p.user[last])
    BY <2>1, UserRun
  <2>3. p.user[m] \in 0 .. Len(text) /\ p.user[last] \in p.user[m] .. Len(text)
    BY <2>1, UserGrows
  <2> QED BY <1>6, <2>2, <2>3 DEF Unmistakable, m
<1>8. a[1] = EchoPrefix[1]
  <2>1. 1 \in 1 .. h - (c - 1) /\ c - 1 + 1 = c
    BY <1>1
  <2> QED BY <1>4, <2>1
<1>9. ASSUME L < Len(a)
      PROVE  a[L + 1] = EchoPrefix[1] /\ \A k \in 1 .. L : ControlLength(b, k) # Partial
  <2>1. last < h /\ ~UserChar(p, last + 1)
    BY <1>3, <1>5, <1>9
  <2>2. last + 1 \in 1 .. n /\ last + 1 - 1 = last /\ last \in c .. last
    BY <1>1, <1>5, <2>1
  <2>3. EchoChar(p, last + 1)
    BY <2>1, <2>2, CharIsOne
  <2>4. p.at[last] = 0
    <3>1. UserChar(p, last)
      BY <1>3, <2>2
    <3> QED BY <3>1 DEF UserChar
  <2>5. p.chars[last + 1] = EchoPrefix[1]
    <3> DEFINE x == last + 1
    <3>1. x \in 1 .. n /\ EchoChar(p, x) /\ p.at[x - 1] = 0
      BY <2>2, <2>3, <2>4
    <3> HIDE DEF x
    <3>2. p.run[x] \in Runs /\ p.echo[x] \in Echoes(p.run[x]) /\ p.chars[x] = p.echo[x][p.at[x - 1] + 1]
      BY <3>1, EchoCharIs
    <3>3. p.chars[x] = p.echo[x][1]
      BY <3>1, <3>2
    <3>4. EchoSize \in Nat /\ 1 \in 1 .. EchoSize
      BY PrefixIs
    <3>5. p.echo[x][1] = EchoPrefix[1]
      BY <3>2, <3>4, EchoIs
    <3> QED BY <3>3, <3>5 DEF x
  <2>6. a[L + 1] = EchoPrefix[1]
    <3>1. L + 1 \in 1 .. h - (c - 1) /\ c - 1 + (L + 1) = last + 1
      BY <1>1, <1>5, <2>1
    <3> HIDE DEF L
    <3>2. a[L + 1] = p.chars[c - 1 + (L + 1)]
      BY <1>4, <3>1
    <3> QED BY <2>5, <3>1, <3>2
  <2>7. ASSUME NEW k \in 1 .. L PROVE ControlLength(b, k) # Partial
    <3> DEFINE x == c + k - 1
    <3>1. x \in c .. last /\ x \in 1 .. n /\ x - 1 \in 0 .. n /\ x = c - 1 + k
      BY <1>1, <1>3, <1>5
    <3>2. PICK j \in x .. n : Whole(p, x, j)
      <4>1. UserChar(p, x)
        BY <1>3, <3>1
      <4> HIDE DEF x
      <4>2. ~EchoChar(p, x)
        BY <3>1, <4>1, CharIsOne
      <4> QED BY <3>1, <4>2 DEF PlainInv
    <3>3. j <= last
      <4>1. ~(last + 1 \in x .. j)
        BY <2>1, <3>2 DEF Whole
      <4> QED BY <1>1, <1>5, <3>1, <3>2, <4>1
    <3> DEFINE s == Between(p.chars, x - 1, j)
    <3>4. s \in Seq(Characters) /\ Len(s) = j - (x - 1) /\ \A i \in 1 .. j - (x - 1) : s[i] = p.chars[x - 1 + i]
      <4> DEFINE m == x - 1
      <4>1. m \in 0 .. n /\ j \in m .. n
        BY <1>1, <3>1, <3>2, <3>3
      <4> HIDE DEF m
      <4>2. /\ Between(p.chars, m, j) \in Seq(Characters) /\ Len(Between(p.chars, m, j)) = j - m
            /\ \A i \in 1 .. j - m : Between(p.chars, m, j)[i] = p.chars[m + i]
        BY <1>1, <4>1, BetweenIs
      <4> QED BY <4>2 DEF m
    <3>5. ControlLength(s, 1) # Partial
      BY <3>2 DEF Whole
    <3> HIDE DEF s, b
    <3>6. 1 \in 1 .. Len(s) /\ k \in 1 .. Len(b)
      BY <1>1, <1>6, <3>1, <3>2, <3>4
    <3>7. Continues(s, 1, b, k)
      <4>1. k + Len(s) - 1 <= Len(b)
        BY <1>1, <1>5, <1>6, <3>1, <3>2, <3>3, <3>4
      <4>2. ASSUME NEW i \in 0 .. Len(s) - 1 PROVE b[k + i] = s[1 + i]
        <5>4. i \in Nat /\ i <= j - x
          BY <1>1, <3>1, <3>2, <3>4
        <5>5. k + i <= L /\ k + i >= 1
          BY <1>1, <1>5, <3>1, <3>3, <5>4
        <5>1. k + i \in 1 .. L /\ 1 + i \in 1 .. j - (x - 1) /\ c - 1 + (k + i) = x - 1 + (1 + i)
          <6>1. k \in Nat /\ x \in Nat /\ j \in Nat /\ x = c - 1 + k /\ i \in Nat /\ c \in Nat /\ i <= j - x
            BY <1>1, <3>1, <3>2, <5>4
          <6> HIDE DEF x
          <6>2. k + i \in 1 .. L
            <7> HIDE DEF L
            <7> QED BY <1>5, <5>5, <6>1
          <6>3. 1 + i \in 1 .. j - (x - 1)
            BY <6>1
          <6>4. c - 1 + (k + i) = x - 1 + (1 + i)
            BY <6>1
          <6> QED BY <6>2, <6>3, <6>4
        <5> HIDE DEF L, x
        <5>2. b[k + i] = p.chars[c - 1 + (k + i)]
          BY <1>6, <5>1
        <5>3. s[1 + i] = p.chars[x - 1 + (1 + i)]
          BY <3>4, <5>1
        <5> QED BY <5>1, <5>2, <5>3
      <4> QED BY <4>1, <4>2 DEF Continues
    <3>8. ControlLength(b, k) = ControlLength(s, 1)
      BY <1>6, <3>4, <3>5, <3>6, <3>7, ControlExtends
    <3> QED BY <3>5, <3>8
  <2> QED BY <2>6, <2>7
<1>10. Lookalike(a, L)
  BY <1>5, <1>7, <1>8, <1>9 DEF Lookalike
<1>11. L = Len(a) => \A i \in c .. h : UserChar(p, i)
  BY <1>3, <1>5
<1> HIDE DEF L
<1> QED BY <1>10, <1>11 DEF a
-----------------------------------------------------------------------------
(* The loop of the sanitizer *)

\* The loop before its first character.
Fresh(strip) == [next |-> 1, out |-> <<>>, strip |-> strip, tail |-> <<>>]

\* `up` is the loop over `t`, by how many characters it has looked at.
Strips(up, t, echoes, strip, final) ==
  /\ up[0] = Fresh(strip)
  /\ \A i \in 1 .. Len(t) : up[i] = StripFrom(up[i - 1], i, t, echoes, final)
  /\ Strip(t, echoes, strip, final) =
       [out |-> up[Len(t)].out,
        sanitizer |-> [echoes |-> echoes, strip |-> up[Len(t)].strip, tail |-> up[Len(t)].tail]]

\* The loop over the first `m` characters.
StripLoop(f, t, echoes, strip, final, m) ==
  f = [i \in 0 .. m |-> IF i = 0 THEN Fresh(strip) ELSE StripFrom(f[i - 1], i, t, echoes, final)]

\* There is one for every text: it is built character by character.
LEMMA StripLoopExists ==
  ASSUME NEW t \in Seq(Characters), NEW echoes, NEW strip, NEW final
  PROVE  \E f : StripLoop(f, t, echoes, strip, final, Len(t))
<1> DEFINE built == {m \in Nat : \E f : StripLoop(f, t, echoes, strip, final, m)}
<1>1. 0 \in built
  <2> DEFINE f == [i \in 0 .. 0 |-> Fresh(strip)]
  <2>1. f = [i \in 0 .. 0 |-> IF i = 0 THEN Fresh(strip) ELSE StripFrom(f[i - 1], i, t, echoes, final)]
    OBVIOUS
  <2> QED BY <2>1 DEF StripLoop
<1>2. ASSUME NEW m \in Nat, m \in built PROVE m + 1 \in built
  <2>1. PICK f : StripLoop(f, t, echoes, strip, final, m)
    BY <1>2
  <2> DEFINE g == [i \in 0 .. m + 1 |-> IF i <= m THEN f[i] ELSE StripFrom(f[m], m + 1, t, echoes, final)]
  <2>2. \A i \in 0 .. m : g[i] = f[i]
    OBVIOUS
  <2>3. g[m + 1] = StripFrom(f[m], m + 1, t, echoes, final)
    OBVIOUS
  <2>4. DOMAIN g = 0 .. m + 1 /\ g = [i \in DOMAIN g |-> g[i]]
    OBVIOUS
  <2> HIDE DEF g
  <2>5. ASSUME NEW i \in 0 .. m + 1
        PROVE  g[i] = IF i = 0 THEN Fresh(strip) ELSE StripFrom(g[i - 1], i, t, echoes, final)
    <3>1. CASE i = 0
      <4>1. g[0] = f[0] /\ f[0] = Fresh(strip)
        BY <2>1, <2>2 DEF StripLoop
      <4> QED BY <3>1, <4>1
    <3>2. CASE i # 0 /\ i <= m
      <4>1. i \in 0 .. m /\ i - 1 \in 0 .. m
        BY <3>2
      <4>2. f[i] = StripFrom(f[i - 1], i, t, echoes, final)
        BY <2>1, <3>2, <4>1 DEF StripLoop
      <4>3. g[i] = f[i] /\ g[i - 1] = f[i - 1]
        BY <2>2, <4>1
      <4> QED BY <3>2, <4>2, <4>3
    <3>3. CASE i # 0 /\ ~(i <= m)
      <4>1. i = m + 1 /\ i - 1 = m /\ m \in 0 .. m
        BY <3>3
      <4>2. g[m] = f[m]
        BY <2>2, <4>1
      <4> QED BY <2>3, <3>3, <4>1, <4>2
    <3> QED BY <3>1, <3>2, <3>3
  <2>6. StripLoop(g, t, echoes, strip, final, m + 1)
    BY <2>4, <2>5 DEF StripLoop
  <2> QED BY <2>6
<1>3. Len(t) \in built
  <2>1. Len(t) \in Nat
    BY LenProperties
  <2> HIDE DEF built
  <2> QED BY <1>1, <1>2, <2>1, Induction
<1> QED BY <1>3

\* So the sanitizer reads a text step by step.
LEMMA StripLoops ==
  ASSUME NEW t \in Seq(Characters), NEW echoes, NEW strip, NEW final
  PROVE  \E up : Strips(up, t, echoes, strip, final)
<1> DEFINE up == CHOOSE f : StripLoop(f, t, echoes, strip, final, Len(t))
<1>1. StripLoop(up, t, echoes, strip, final, Len(t))
  BY StripLoopExists
<1>2. Strip(t, echoes, strip, final) =
        [out |-> up[Len(t)].out,
         sanitizer |-> [echoes |-> echoes, strip |-> up[Len(t)].strip, tail |-> up[Len(t)].tail]]
  BY DEF Strip, StripLoop, Fresh
<1> HIDE DEF up
<1>3. Len(t) \in Nat
  BY LenProperties
<1>4. up[0] = Fresh(strip)
  <2>1. 0 \in 0 .. Len(t)
    BY <1>3
  <2> QED BY <1>1, <2>1 DEF StripLoop
<1>5. ASSUME NEW i \in 1 .. Len(t) PROVE up[i] = StripFrom(up[i - 1], i, t, echoes, final)
  <2>1. i \in 0 .. Len(t) /\ i # 0
    BY <1>3
  <2> QED BY <1>1, <2>1 DEF StripLoop
<1>6. Strips(up, t, echoes, strip, final)
  BY <1>2, <1>4, <1>5 DEF Strips
<1> QED BY <1>6
-----------------------------------------------------------------------------
(* Its steps *)

\* What the loop has at a place.
Has(a, next, out, strip, tail) == a = [next |-> next, out |-> out, strip |-> strip, tail |-> tail]

\* Some of it changed.
LEMMA FieldsChange ==
  ASSUME NEW i, NEW o, NEW s, NEW l, NEW n, NEW m, NEW k, NEW a, Has(a, i, o, s, l)
  PROVE  /\ a.next = i /\ a.out = o /\ a.strip = s /\ a.tail = l
         /\ Has([a EXCEPT !.next = n], n, o, s, l)
         /\ Has([a EXCEPT !.next = n, !.out = m], n, m, s, l)
         /\ Has([a EXCEPT !.next = n, !.strip = m], n, o, m, l)
         /\ Has([a EXCEPT !.next = n, !.tail = m], n, o, s, m)
         /\ Has([a EXCEPT !.next = n, !.out = m, !.strip = k], n, m, k, l)
<1> DEFINE b == [a EXCEPT !.next = n]
<1>1. b = [next |-> n, out |-> o, strip |-> s, tail |-> l]
  BY DEF Has
<1>2. /\ [a EXCEPT !.next = n, !.out = m] = [b EXCEPT !.out = m]
      /\ [a EXCEPT !.next = n, !.strip = m] = [b EXCEPT !.strip = m]
      /\ [a EXCEPT !.next = n, !.tail = m] = [b EXCEPT !.tail = m]
      /\ [a EXCEPT !.next = n, !.out = m, !.strip = k] = [[b EXCEPT !.out = m] EXCEPT !.strip = k]
  BY Zenon
<1> HIDE DEF b
<1> DEFINE c == [b EXCEPT !.out = m]
<1>3. c = [next |-> n, out |-> m, strip |-> s, tail |-> l]
  BY <1>1
<1>4. /\ [b EXCEPT !.strip = m] = [next |-> n, out |-> o, strip |-> m, tail |-> l]
      /\ [b EXCEPT !.tail = m] = [next |-> n, out |-> o, strip |-> s, tail |-> m]
  BY <1>1
<1>5. [a EXCEPT !.next = n, !.out = m, !.strip = k] = [c EXCEPT !.strip = k]
  BY <1>2
<1>6. [a EXCEPT !.next = n, !.out = m] = [next |-> n, out |-> m, strip |-> s, tail |-> l]
  BY <1>2, <1>3
<1> HIDE DEF c
<1>7. [c EXCEPT !.strip = k] = [next |-> n, out |-> m, strip |-> k, tail |-> l]
  BY <1>3
<1>8. a.next = i /\ a.out = o /\ a.strip = s /\ a.tail = l
  BY DEF Has
<1>9. Has([a EXCEPT !.next = n], n, o, s, l)
  BY <1>1 DEF Has, b
<1>10. Has([a EXCEPT !.next = n, !.out = m], n, m, s, l)
  BY <1>6 DEF Has
<1>11. /\ Has([a EXCEPT !.next = n, !.strip = m], n, o, m, l)
       /\ Has([a EXCEPT !.next = n, !.tail = m], n, o, s, m)
  BY <1>2, <1>4 DEF Has
<1>12. Has([a EXCEPT !.next = n, !.out = m, !.strip = k], n, m, k, l)
  BY <1>5, <1>7 DEF Has
<1> QED BY <1>8, <1>9, <1>10, <1>11, <1>12

\* The echoes that are whole at `i`.
Exact(t, echoes, i) == {c \in Candidates(echoes) : StartsWith(t, i, c.echo)}

\* A character that has been dealt with.
LEMMA StripPast ==
  ASSUME NEW t \in Seq(Characters), NEW echoes, NEW final, NEW a, NEW i \in Nat, i < a.next
  PROVE  StripFrom(a, i, t, echoes, final) = a
BY DEF StripFrom

\* A character inside an echo.
LEMMA StripInside ==
  ASSUME NEW t \in Seq(Characters), NEW echoes, NEW final, NEW i \in Nat, NEW o, NEW s, s # NoStrip, NEW l,
         NEW a, Has(a, i, o, s, l)
  PROVE  Has(StripFrom(a, i, t, echoes, final), i + 1, o \o ConsumeByte(s, t[i]).out, ConsumeByte(s, t[i]).strip, l)
<1> DEFINE n == i + 1
           m == a.out \o ConsumeByte(a.strip, t[i]).out
           k == ConsumeByte(a.strip, t[i]).strip
<1>1. (i < a.next) = FALSE /\ i = a.next /\ a.strip # NoStrip /\ a.strip = s /\ a.out = o
  <2>1. a.next = i /\ a.strip = s /\ a.out = o
    BY DEF Has
  <2> QED BY <2>1
<1>2. StripFrom(a, i, t, echoes, final) = [a EXCEPT !.next = n, !.out = m, !.strip = k]
  BY <1>1, Zenon DEF StripFrom
<1>3. m = o \o ConsumeByte(s, t[i]).out /\ k = ConsumeByte(s, t[i]).strip
  BY <1>1
<1> HIDE DEF n, m, k
<1>4. Has([a EXCEPT !.next = n, !.out = m, !.strip = k], n, m, k, l)
  BY FieldsChange, Zenon
<1>5. Has(StripFrom(a, i, t, echoes, final), n, m, k, l)
  BY <1>2, <1>4
<1> QED BY <1>3, <1>5 DEF n

\* A character outside.
LEMMA StripOutside ==
  ASSUME NEW t \in Seq(Characters), NEW echoes, NEW final, NEW a, NEW i \in Nat, i = a.next, a.strip = NoStrip
  PROVE  StripFrom(a, i, t, echoes, final) = StripEcho(a, i, t, echoes, final)
<1>1. (i < a.next) = FALSE /\ (i = a.next /\ a.strip # NoStrip) = FALSE
  OBVIOUS
<1> QED BY <1>1, Zenon DEF StripFrom

\* An echo that is whole.
LEMMA StripsWhole ==
  ASSUME NEW t \in Seq(Characters), NEW echoes, NEW final, NEW i \in Nat, NEW o, NEW s, NEW l,
         NEW a, Has(a, i, o, s, l), t[i] = EchoPrefix[1],
         Exact(t, echoes, i) # {}, NEW n, \A c \in Exact(t, echoes, i) : i + Len(c.echo) = n
  PROVE  Has(StripEcho(a, i, t, echoes, final), n, o, s, l)
<1> DEFINE c == CHOOSE c \in Exact(t, echoes, i) : TRUE
<1>1. StripEcho(a, i, t, echoes, final) = [a EXCEPT !.next = i + Len(c.echo)]
  BY Zenon DEF StripEcho, Exact
<1>2. c \in Exact(t, echoes, i)
  OBVIOUS
<1> HIDE DEF c
<1>3. StripEcho(a, i, t, echoes, final) = [a EXCEPT !.next = n]
  BY <1>1, <1>2
<1>4. Has([a EXCEPT !.next = n], n, o, s, l)
  BY FieldsChange, ZenonT(60)
<1> QED BY <1>3, <1>4

\* The start of an echo that is long enough to be dropped.
LEMMA StripsStart ==
  ASSUME NEW t \in Seq(Characters), NEW echoes, NEW final, NEW i \in Nat, NEW o, NEW s, NEW l,
         NEW a, Has(a, i, o, s, l), t[i] = EchoPrefix[1],
         Exact(t, echoes, i) = {}, TolerantMatch(Rest(t, i), echoes).used > 0
  PROVE  Has(StripEcho(a, i, t, echoes, final), i + TolerantMatch(Rest(t, i), echoes).used, o,
             TolerantMatch(Rest(t, i), echoes).strip, l)
<1> DEFINE match == TolerantMatch(Rest(t, i), echoes)
           n == i + match.used
           m == match.strip
<1>1. /\ (t[i] = EchoPrefix[1] /\ Exact(t, echoes, i) # {}) = FALSE
      /\ (t[i] = EchoPrefix[1] /\ Exact(t, echoes, i) = {} /\ match.used = 0
          /\ ~final /\ EchoGoesOn(Rest(t, i), echoes)) = FALSE
  OBVIOUS
<1>2. t[i] = EchoPrefix[1] /\ Exact(t, echoes, i) = {} /\ match.used > 0
  OBVIOUS
<1>3. StripEcho(a, i, t, echoes, final) = [a EXCEPT !.next = n, !.strip = m]
  BY <1>1, <1>2, Zenon DEF StripEcho, Exact
<1> HIDE DEF n, m
<1>4. Has([a EXCEPT !.next = n, !.strip = m], n, o, m, l)
  BY FieldsChange, ZenonT(60)
<1> QED BY <1>3, <1>4 DEF n, m

\* A text that may become an echo is kept back.
LEMMA StripsNothingYet ==
  ASSUME NEW t \in Seq(Characters), NEW echoes, NEW i \in Nat, NEW o, NEW s, NEW l,
         NEW a, Has(a, i, o, s, l), t[i] = EchoPrefix[1],
         Exact(t, echoes, i) = {}, TolerantMatch(Rest(t, i), echoes).used = 0, EchoGoesOn(Rest(t, i), echoes)
  PROVE  Has(StripEcho(a, i, t, echoes, FALSE), Len(t) + 1, o, s, Rest(t, i))
<1> DEFINE n == Len(t) + 1
           m == Rest(t, i)
<1>1. /\ (t[i] = EchoPrefix[1] /\ Exact(t, echoes, i) # {}) = FALSE
      /\ (t[i] = EchoPrefix[1] /\ Exact(t, echoes, i) = {} /\ TolerantMatch(Rest(t, i), echoes).used > 0) = FALSE
  OBVIOUS
<1>2. t[i] = EchoPrefix[1] /\ Exact(t, echoes, i) = {} /\ TolerantMatch(Rest(t, i), echoes).used = 0
      /\ ~FALSE /\ EchoGoesOn(Rest(t, i), echoes)
  OBVIOUS
<1>3. StripEcho(a, i, t, echoes, FALSE) = [a EXCEPT !.next = n, !.tail = m]
  BY <1>1, <1>2, Zenon DEF StripEcho, Exact
<1> HIDE DEF n, m
<1>4. Has([a EXCEPT !.next = n, !.tail = m], n, o, s, m)
  BY FieldsChange
<1> QED BY <1>3, <1>4 DEF n, m

\* Nothing is stripped and nothing may be.
Plainly(t, echoes, i, final) ==
  \/ t[i] # EchoPrefix[1]
  \/ /\ Exact(t, echoes, i) = {} /\ TolerantMatch(Rest(t, i), echoes).used = 0
     /\ final \/ ~EchoGoesOn(Rest(t, i), echoes)

\* Then the character is output.
LEMMA StripsNothing ==
  ASSUME NEW t \in Seq(Characters), NEW echoes, NEW final, NEW i \in Nat, NEW o, NEW s, NEW l,
         NEW a, Has(a, i, o, s, l), Plainly(t, echoes, i, final)
  PROVE  Has(StripEcho(a, i, t, echoes, final), i + 1, Append(o, t[i]), s, l)
<1> DEFINE n == i + 1
           m == Append(a.out, t[i])
<1>1. /\ (t[i] = EchoPrefix[1] /\ Exact(t, echoes, i) # {}) = FALSE
      /\ (t[i] = EchoPrefix[1] /\ Exact(t, echoes, i) = {} /\ TolerantMatch(Rest(t, i), echoes).used > 0) = FALSE
      /\ (t[i] = EchoPrefix[1] /\ Exact(t, echoes, i) = {} /\ TolerantMatch(Rest(t, i), echoes).used = 0
          /\ ~final /\ EchoGoesOn(Rest(t, i), echoes)) = FALSE
  BY DEF Plainly
<1>2. StripEcho(a, i, t, echoes, final) = [a EXCEPT !.next = n, !.out = m]
  BY <1>1, Zenon DEF StripEcho, Exact
<1>3. m = Append(o, t[i])
  BY DEF Has
<1> HIDE DEF n, m
<1>4. Has([a EXCEPT !.next = n, !.out = m], n, m, s, l)
  BY FieldsChange, Zenon
<1> QED BY <1>2, <1>3, <1>4 DEF n
-----------------------------------------------------------------------------
(* What the sanitizer makes of a part of the story *)

\* Behind the first `e` characters the sanitizer strips what the story says.
StripAt(p, e, strip) ==
  IF strip = NoStrip THEN p.at[e] = 0 ELSE Within(strip, p.run[e], p.at[e])

\* What it keeps back is the program's, or is inside one echo.
HeldBack(p, e, h, echoes, tail) ==
  /\ tail = Between(p.chars, e, h)
  /\ tail # <<>> => echoes # {} /\ Len(tail) < MaxEcho
  /\ (\A i \in e + 1 .. h : UserChar(p, i)) \/ (\A i \in e + 1 .. h : p.at[i] # 0)

\* The text from `d` to `h` may be stripped: it has no echo that is not
\* expected, and if it is final it is the last.
MayStrip(p, d, h, echoes, final) ==
  /\ PlainInv(p) /\ ProgramTypes /\ Unmistakable
  /\ d \in 0 .. Len(p.chars) /\ h \in d .. Len(p.chars) /\ echoes \in SUBSET Runs /\ final \in BOOLEAN
  /\ \A i \in d + 1 .. h : EchoChar(p, i) => p.run[i] \in echoes
  /\ final => h = Len(p.chars)

\* What the loop has made of the characters from `d` to `e`.
ReadUpTo(p, d, h, echoes, final, a, e) ==
  /\ e \in d .. h
  /\ Has(a, a.next, Between(text, p.user[d], p.user[e]), a.strip, a.tail)
  /\ StripAt(p, e, a.strip)
  /\ \/ a.tail = <<>> /\ a.next = e - d + 1
     \/ a.next = h - d + 1 /\ a.strip = NoStrip /\ ~final /\ HeldBack(p, e, h, echoes, a.tail)

\* The loop stands at the `i`-th, and has made so of all before the next.
ReadTo(p, d, h, echoes, final, i, a) ==
  /\ a.next \in i + 1 .. h - d + 1
  /\ \E e \in d .. h : ReadUpTo(p, d, h, echoes, final, a, e)

\* The places of a text that may be stripped.
LEMMA MayStripIs ==
  ASSUME NEW p, NEW d, NEW h, NEW echoes, NEW final, MayStrip(p, d, h, echoes, final)
  PROVE  /\ Len(p.chars) \in Nat /\ d \in Nat /\ h \in Nat /\ d <= h /\ h <= Len(p.chars)
         /\ p.chars \in Seq(Characters) /\ text \in Seq(Characters) /\ Len(text) \in Nat
         /\ Between(p.chars, d, h) \in Seq(Characters) /\ Len(Between(p.chars, d, h)) = h - d
         /\ \A j \in 1 .. h - d : Between(p.chars, d, h)[j] = p.chars[d + j]
<1>1. p.chars \in Seq(Characters) /\ text \in Seq(Characters) /\ d \in 0 .. Len(p.chars) /\ h \in d .. Len(p.chars)
  BY DEF MayStrip, PlainInv, ProgramTypes
<1>2. Len(p.chars) \in Nat /\ Len(text) \in Nat
  BY <1>1, LenProperties
<1>3. /\ Between(p.chars, d, h) \in Seq(Characters) /\ Len(Between(p.chars, d, h)) = h - d
      /\ \A j \in 1 .. h - d : Between(p.chars, d, h)[j] = p.chars[d + j]
  BY <1>1, BetweenIs
<1> QED BY <1>1, <1>2, <1>3

\* Inside an echo.
LEMMA WithinIs ==
  ASSUME NEW strip, NEW r, NEW l, Within(strip, r, l)
  PROVE  strip # NoStrip /\ l >= EchoSize
BY DEF Within, NoStrip

\* In the middle of an echo the next character is dropped.
LEMMA StepInEcho ==
  ASSUME NEW p, PlainInv(p), ProgramTypes, NEW e \in 0 .. Len(p.chars) - 1, NEW strip, strip # NoStrip,
         StripAt(p, e, strip)
  PROVE  /\ ConsumeByte(strip, p.chars[e + 1]).out = <<>> /\ p.user[e + 1] = p.user[e]
         /\ StripAt(p, e + 1, ConsumeByte(strip, p.chars[e + 1]).strip)
<1> DEFINE i == e + 1
           l == p.at[e]
           r == p.run[i]
           echo == p.echo[i]
           byte == ConsumeByte(strip, p.chars[i])
<1>1. Len(p.chars) \in Nat /\ i \in 1 .. Len(p.chars) /\ i - 1 = e
  BY LenProperties DEF PlainInv
<1>2. Within(strip, p.run[e], l)
  BY DEF StripAt
<1>3. EchoSize \in Nat /\ EchoSize >= 1 /\ l >= EchoSize
  BY <1>2, WithinIs, PrefixIs
<1> HIDE DEF i
<1> HIDE DEF l
<1>4. l # 0 /\ l > 0
  <2>1. l \in Nat
    <3>1. e \in 0 .. Len(p.chars) /\ p.at \in [0 .. Len(p.chars) -> Nat]
      BY <1>1 DEF PlainInv
    <3> QED BY <3>1 DEF l
  <2> QED BY <1>3, <2>1
<1>5. EchoChar(p, i)
  BY <1>1, <1>4, CharIsOne DEF l
<1>6. /\ r \in Runs /\ echo \in Echoes(r) /\ Len(echo) \in Nat /\ l \in 0 .. Len(echo) - 1
      /\ p.chars[i] = echo[l + 1] /\ p.user[i] = p.user[e]
      /\ p.at[i] = IF l + 1 = Len(echo) THEN 0 ELSE l + 1
      /\ p.run[e] = r
  BY <1>1, <1>4, <1>5, EchoCharIs DEF l
<1> HIDE DEF r, echo
<1>7. l \in EchoSize .. Len(echo) - 1 /\ Within(strip, r, l)
  BY <1>2, <1>3, <1>6
<1>8. /\ ConsumeByte(strip, echo[l + 1]).out = <<>>
      /\ IF l + 1 = Len(echo) THEN ConsumeByte(strip, echo[l + 1]).strip = NoStrip
         ELSE Within(ConsumeByte(strip, echo[l + 1]).strip, r, l + 1)
  BY <1>6, <1>7, ByteInEcho
<1>9. StripAt(p, i, byte.strip)
  <2>1. CASE l + 1 = Len(echo)
    BY <1>6, <1>8, <2>1 DEF StripAt
  <2>2. CASE l + 1 # Len(echo)
    <3>1. Within(byte.strip, p.run[i], p.at[i])
      BY <1>6, <1>8, <2>2 DEF r
    <3>2. byte.strip # NoStrip
      BY <3>1, WithinIs
    <3> HIDE DEF byte
    <3> QED BY <3>1, <3>2 DEF StripAt
  <2> QED BY <2>1, <2>2
<1>10. byte.out = <<>>
  BY <1>6, <1>8
<1> QED BY <1>6, <1>9, <1>10 DEF i

\* A place with nothing behind it keeps nothing back.
LEMMA NothingHeld ==
  ASSUME NEW p, NEW h \in 0 .. Len(p.chars), p.chars \in Seq(Characters), NEW echoes
  PROVE  HeldBack(p, h, h, echoes, <<>>)
<1>1. Len(p.chars) \in Nat /\ h + 1 .. h = {}
  BY LenProperties
<1>2. Between(p.chars, h, h) = <<>>
  BY BetweenNothing
<1> QED BY <1>1, <1>2 DEF HeldBack
-----------------------------------------------------------------------------
(* One step of the loop, outside of echoes *)

\* The loop has got to `e`, and the next character it looks at is the one behind.
LEMMA ReadsOn ==
  ASSUME NEW p, NEW d, NEW h, NEW echoes, NEW final, MayStrip(p, d, h, echoes, final),
         NEW i \in 1 .. h - d, NEW e \in d .. h, e - d >= i, NEW strip, StripAt(p, e, strip),
         NEW b, Has(b, e - d + 1, Between(text, p.user[d], p.user[e]), strip, <<>>)
  PROVE  ReadTo(p, d, h, echoes, final, i, b)
<1>1. d \in Nat /\ h \in Nat /\ e \in Nat /\ e <= h
  BY MayStripIs
<1>2. ReadUpTo(p, d, h, echoes, final, b, e)
  BY DEF ReadUpTo, Has
<1>3. b.next \in i + 1 .. h - d + 1
  BY <1>1 DEF Has
<1> QED BY <1>2, <1>3 DEF ReadTo

\* The loop keeps the rest back.
LEMMA ReadsNoFurther ==
  ASSUME NEW p, NEW d, NEW h, NEW echoes, MayStrip(p, d, h, echoes, FALSE),
         NEW i \in 1 .. h - d, NEW e \in d .. h, p.at[e] = 0, NEW tail, HeldBack(p, e, h, echoes, tail),
         NEW b, Has(b, h - d + 1, Between(text, p.user[d], p.user[e]), NoStrip, tail)
  PROVE  ReadTo(p, d, h, echoes, FALSE, i, b)
<1>1. d \in Nat /\ h \in Nat
  BY MayStripIs
<1>2. StripAt(p, e, NoStrip)
  BY DEF StripAt
<1>3. ReadUpTo(p, d, h, echoes, FALSE, b, e)
  BY <1>2 DEF ReadUpTo, Has
<1>4. b.next \in i + 1 .. h - d + 1
  BY <1>1 DEF Has
<1> QED BY <1>3, <1>4 DEF ReadTo

\* The loop is at the i-th character, outside of echoes.
IsAt(p, d, h, a, i, e) ==
  /\ i \in 1 .. h - d /\ e = d + i - 1 /\ p.at[e] = 0
  /\ Has(a, i, Between(text, p.user[d], p.user[e]), NoStrip, <<>>)

\* The character there, and the rest.
LEMMA IsAtIs ==
  ASSUME NEW p, NEW d, NEW h, NEW echoes, NEW final, MayStrip(p, d, h, echoes, final),
         NEW a, NEW i, NEW e, IsAt(p, d, h, a, i, e)
  PROVE  /\ i \in Nat /\ i >= 1 /\ e \in d .. h - 1 /\ e \in Nat /\ e + 1 - d = i /\ e + 1 \in d + 1 .. h
         /\ e \in 0 .. Len(p.chars) /\ e + 1 \in 1 .. Len(p.chars) /\ h \in e + 1 .. Len(p.chars) /\ h \in e .. Len(p.chars)
         /\ Between(p.chars, d, h)[i] = p.chars[e + 1]
         /\ Rest(Between(p.chars, d, h), i) = Between(p.chars, e, h)
         /\ Between(p.chars, e, h) \in Seq(Characters) /\ Len(Between(p.chars, e, h)) = h - e
         /\ \A j \in 1 .. h - e : Between(p.chars, e, h)[j] = p.chars[e + j]
<1>1. i \in 1 .. h - d /\ e = d + i - 1
  BY DEF IsAt
<1>2. /\ Len(p.chars) \in Nat /\ d \in Nat /\ h \in Nat /\ d <= h /\ h <= Len(p.chars)
      /\ p.chars \in Seq(Characters) /\ \A j \in 1 .. h - d : Between(p.chars, d, h)[j] = p.chars[d + j]
  BY MayStripIs
<1>3. /\ i \in Nat /\ i >= 1 /\ e \in d .. h - 1 /\ e \in Nat /\ e + 1 - d = i /\ e + 1 \in d + 1 .. h
      /\ e \in 0 .. Len(p.chars) /\ e + 1 \in 1 .. Len(p.chars) /\ h \in e + 1 .. Len(p.chars) /\ h \in e .. Len(p.chars)
      /\ d + i = e + 1
  BY <1>1, <1>2
<1>4. Between(p.chars, d, h)[i] = p.chars[e + 1]
  BY <1>1, <1>2, <1>3
<1>5. Rest(Between(p.chars, d, h), i) = Between(p.chars, e, h)
  <2>1. d \in 0 .. Len(p.chars) /\ h \in d .. Len(p.chars)
    BY <1>2
  <2> QED BY <1>1, <1>2, <2>1, RestOfPart
<1>6. /\ Between(p.chars, e, h) \in Seq(Characters) /\ Len(Between(p.chars, e, h)) = h - e
      /\ \A j \in 1 .. h - e : Between(p.chars, e, h)[j] = p.chars[e + j]
  <2>1. p.chars \in Seq(Characters) /\ e \in 0 .. Len(p.chars) /\ h \in e .. Len(p.chars)
    BY <1>2, <1>3
  <2> QED BY <2>1, BetweenIs
<1> QED BY <1>3, <1>4, <1>5, <1>6

\* An echo that is whole is one that the rest starts with.
LEMMA ExactIs ==
  ASSUME NEW t \in Seq(Characters), NEW echoes \in SUBSET Runs, NEW i
  PROVE  /\ \A c \in Exact(t, echoes, i) : /\ IsPrefix(c.echo, Rest(t, i)) /\ c.run \in Runs /\ c.echo \in Echoes(c.run)
         /\ \A r \in echoes : \A echo \in Echoes(r) :
              IsPrefix(echo, Rest(t, i)) => [run |-> r, echo |-> echo, index |-> 0] \in Exact(t, echoes, i)
<1>1. ASSUME NEW c \in Exact(t, echoes, i)
      PROVE  IsPrefix(c.echo, Rest(t, i)) /\ c.run \in Runs /\ c.echo \in Echoes(c.run)
  <2>1. c \in Candidates(echoes) /\ StartsWith(t, i, c.echo)
    BY DEF Exact
  <2> QED BY <2>1, CandidateIs DEF StartsWith
<1>2. ASSUME NEW r \in echoes, NEW echo \in Echoes(r), IsPrefix(echo, Rest(t, i))
      PROVE  [run |-> r, echo |-> echo, index |-> 0] \in Exact(t, echoes, i)
  <2>1. [run |-> r, echo |-> echo, index |-> 0] \in Candidates(echoes)
    BY EchoIsCandidate
  <2>2. StartsWith(t, i, [run |-> r, echo |-> echo, index |-> 0].echo)
    BY <1>2 DEF StartsWith
  <2> QED BY <2>1, <2>2, Zenon DEF Exact
<1> QED BY <1>1, <1>2

\* At a character of the program.
LEMMA StepAtUser ==
  ASSUME NEW p, NEW d, NEW h, NEW echoes, NEW final, MayStrip(p, d, h, echoes, final),
         NEW a, NEW i, NEW e, IsAt(p, d, h, a, i, e), UserChar(p, e + 1)
  PROVE  ReadTo(p, d, h, echoes, final, i, StripEcho(a, i, Between(p.chars, d, h), echoes, final))
<1> DEFINE t == Between(p.chars, d, h)
           rest == Between(p.chars, e, h)
           char == p.chars[e + 1]
<1>1. /\ i \in Nat /\ i >= 1 /\ e \in d .. h - 1 /\ e \in Nat /\ e + 1 - d = i /\ e + 1 \in d + 1 .. h
      /\ e \in 0 .. Len(p.chars) /\ e + 1 \in 1 .. Len(p.chars) /\ h \in e + 1 .. Len(p.chars) /\ h \in e .. Len(p.chars)
      /\ t[i] = char /\ Rest(t, i) = rest /\ rest \in Seq(Characters) /\ Len(rest) = h - e
  BY IsAtIs
<1>2. /\ Len(p.chars) \in Nat /\ d \in Nat /\ h \in Nat /\ d <= h /\ h <= Len(p.chars)
      /\ text \in Seq(Characters) /\ t \in Seq(Characters) /\ Len(t) = h - d
  BY MayStripIs
<1>3. /\ i \in 1 .. h - d /\ e = d + i - 1 /\ p.at[e] = 0
      /\ Has(a, i, Between(text, p.user[d], p.user[e]), NoStrip, <<>>)
  BY DEF IsAt
<1>4. echoes \in SUBSET Runs /\ PlainInv(p) /\ ProgramTypes /\ Unmistakable /\ final \in BOOLEAN
  BY DEF MayStrip
<1>5. p.at[e + 1] = 0 /\ p.user[e + 1] = p.user[e] + 1 /\ char = text[p.user[e + 1]]
  <2> DEFINE f == e + 1
  <2>1. f - 1 = e /\ UserChar(p, f)
    BY <1>1
  <2> HIDE DEF f
  <2>2. p.at[f] = 0 /\ p.user[f] = p.user[e] + 1 /\ p.chars[f] = text[p.user[f]]
    BY <2>1 DEF UserChar
  <2> QED BY <2>2 DEF f
<1> HIDE DEF t, rest, char
<1>6. ASSUME Plainly(t, echoes, i, final)
      PROVE  ReadTo(p, d, h, echoes, final, i, StripEcho(a, i, t, echoes, final))
  <2> DEFINE u == p.user[d]
             v == p.user[e]
  <2>1. u \in 0 .. Len(text) /\ v \in u .. Len(text)
    <3>1. d \in 0 .. Len(p.chars) /\ e \in d .. Len(p.chars)
      BY <1>1, <1>2
    <3> QED BY <1>4, <3>1, UserGrows
  <2>2. v < Len(text)
    <3>1. p.user[e + 1] \in v .. Len(text)
      <4>1. e \in 0 .. Len(p.chars) /\ e + 1 \in e .. Len(p.chars)
        BY <1>1, <1>2
      <4> DEFINE f == e + 1
      <4>2. f \in e .. Len(p.chars)
        BY <4>1
      <4> HIDE DEF f
      <4>3. p.user[f] \in p.user[e] .. Len(text)
        BY <1>4, <4>1, <4>2, UserGrows
      <4> QED BY <4>3 DEF f
    <3> HIDE DEF u, v
    <3>2. p.user[e + 1] = v + 1 /\ v \in Int
      BY <1>5, <2>1, <1>2 DEF v
    <3> QED BY <3>1, <3>2
  <2> HIDE DEF u, v
  <2>3. Append(Between(text, u, v), text[v + 1]) = Between(text, u, v + 1)
    BY <1>2, <2>1, <2>2, BetweenAppend
  <2>4. char = text[v + 1] /\ p.user[e + 1] = v + 1
    BY <1>5 DEF v
  <2>6. (e + 1) - d + 1 = i + 1 /\ t[i] = text[v + 1] /\ t \in Seq(Characters) /\ i \in Nat
    BY <1>1, <1>2, <2>4
  <2>7. Has(StripEcho(a, i, t, echoes, final), (e + 1) - d + 1, Between(text, u, v + 1), NoStrip, <<>>)
    <3>1. Has(a, i, Between(text, u, v), NoStrip, <<>>)
      BY <1>3 DEF u, v
    <3>2. Has(StripEcho(a, i, t, echoes, final), i + 1, Append(Between(text, u, v), t[i]), NoStrip, <<>>)
      BY <1>6, <2>6, <3>1, StripsNothing, Zenon
    <3> QED BY <2>3, <2>6, <3>2
  <2>5. Has(StripEcho(a, i, t, echoes, final), (e + 1) - d + 1, Between(text, u, p.user[e + 1]), NoStrip, <<>>)
    BY <2>4, <2>6, <2>7
  <2>8. StripAt(p, e + 1, NoStrip)
    BY <1>5 DEF StripAt
  <2> DEFINE f == e + 1
  <2>9. f \in d .. h /\ f - d >= i
    BY <1>1, <1>2
  <2> HIDE DEF f
  <2>10. StripAt(p, f, NoStrip)
    BY <2>8 DEF f
  <2>11. Has(StripEcho(a, i, t, echoes, final), f - d + 1, Between(text, p.user[d], p.user[f]), NoStrip, <<>>)
    BY <2>5 DEF f, u
  <2> QED BY <1>3, <2>9, <2>10, <2>11, ReadsOn
<1>7. CASE char # EchoPrefix[1]
  <2>1. Plainly(t, echoes, i, final)
    BY <1>1, <1>7 DEF Plainly
  <2> QED BY <1>6, <2>1 DEF t
<1>8. CASE char = EchoPrefix[1]
  <2>1. PICK L : /\ Lookalike(rest, L)
                 /\ L = Len(rest) => \A k \in e + 1 .. h : UserChar(p, k)
    <3> DEFINE c == e + 1
    <3>1. c \in 1 .. Len(p.chars) /\ h \in c .. Len(p.chars) /\ UserChar(p, c) /\ p.chars[c] = EchoPrefix[1] /\ c - 1 = e
      BY <1>1, <1>8 DEF char
    <3> HIDE DEF c
    <3>2. \E L : /\ Lookalike(Between(p.chars, c - 1, h), L)
                 /\ L = Len(Between(p.chars, c - 1, h)) => \A k \in c .. h : UserChar(p, k)
      BY <1>4, <3>1, UserLooksAlike
    <3> QED BY <3>1, <3>2 DEF c, rest
  <2>2. /\ TolerantMatch(rest, echoes) = [used |-> 0, strip |-> NoStrip]
        /\ EchoGoesOn(rest, echoes) => L = Len(rest) /\ echoes # {} /\ Len(rest) < MaxEcho
    BY <1>1, <1>4, <2>1, LookalikeStays
  <2>3. Exact(t, echoes, i) = {}
    <3>1. ASSUME NEW c \in Exact(t, echoes, i) PROVE FALSE
      <4>1. IsPrefix(c.echo, rest) /\ c.run \in Runs /\ c.echo \in Echoes(c.run)
        BY <1>1, <1>2, <1>4, ExactIs
      <4> QED BY <1>1, <2>1, <4>1, LookalikeIsNoEcho
    <3> QED BY <3>1
  <2>4. TolerantMatch(Rest(t, i), echoes).used = 0
    BY <1>1, <2>2
  <2>5. CASE final \/ ~EchoGoesOn(rest, echoes)
    <3>1. Plainly(t, echoes, i, final)
      BY <1>1, <2>3, <2>4, <2>5 DEF Plainly
    <3> QED BY <1>6, <3>1 DEF t
  <2>6. CASE ~final /\ EchoGoesOn(rest, echoes)
    <3>1. final = FALSE
      BY <1>4, <2>6
    <3>2. t[i] = EchoPrefix[1] /\ EchoGoesOn(Rest(t, i), echoes)
      BY <1>1, <1>8, <2>6
    <3>4. Has(StripEcho(a, i, t, echoes, FALSE), h - d + 1, Between(text, p.user[d], p.user[e]), NoStrip, rest)
      <4>1. t \in Seq(Characters) /\ i \in Nat
        BY <1>1, <1>2
      <4>2. Has(StripEcho(a, i, t, echoes, FALSE), Len(t) + 1, Between(text, p.user[d], p.user[e]), NoStrip, Rest(t, i))
        BY <1>3, <2>3, <2>4, <3>2, <4>1, StripsNothingYet, Zenon
      <4> QED BY <1>1, <1>2, <4>2
    <3>5. HeldBack(p, e, h, echoes, rest)
      BY <2>1, <2>2, <2>6 DEF HeldBack, rest
    <3>6. e \in d .. h
      BY <1>1, <1>2
    <3>7. ReadTo(p, d, h, echoes, FALSE, i, StripEcho(a, i, t, echoes, FALSE))
      BY <1>3, <3>1, <3>4, <3>5, <3>6, ReadsNoFurther
    <3> QED BY <3>1, <3>7 DEF t
  <2> QED BY <2>5, <2>6
<1> QED BY <1>7, <1>8 DEF t

\* At the start of an echo.
LEMMA StepAtEcho ==
  ASSUME NEW p, NEW d, NEW h, NEW echoes, NEW final, MayStrip(p, d, h, echoes, final),
         NEW a, NEW i, NEW e, IsAt(p, d, h, a, i, e), EchoChar(p, e + 1)
  PROVE  ReadTo(p, d, h, echoes, final, i, StripEcho(a, i, Between(p.chars, d, h), echoes, final))
<1> DEFINE t == Between(p.chars, d, h)
           rest == Between(p.chars, e, h)
           c == e + 1
           r == p.run[c]
           echo == p.echo[c]
           o == Between(text, p.user[d], p.user[e])
           b == StripEcho(a, i, t, echoes, final)
<1>1. /\ i \in Nat /\ i >= 1 /\ e \in d .. h - 1 /\ e \in Nat /\ c - d = i /\ c \in d + 1 .. h
      /\ c \in 1 .. Len(p.chars) /\ t[i] = p.chars[c] /\ Rest(t, i) = rest
      /\ rest \in Seq(Characters) /\ Len(rest) = h - e
      /\ \A j \in 1 .. h - e : rest[j] = p.chars[e + j]
  <2>1. /\ i \in Nat /\ i >= 1 /\ e \in d .. h - 1 /\ e \in Nat /\ e + 1 - d = i /\ e + 1 \in d + 1 .. h
        /\ e + 1 \in 1 .. Len(p.chars) /\ t[i] = p.chars[e + 1]
    BY IsAtIs
  <2>2. Rest(t, i) = rest /\ rest \in Seq(Characters) /\ Len(rest) = h - e
    BY IsAtIs
  <2>3. \A j \in 1 .. h - e : rest[j] = p.chars[e + j]
    BY IsAtIs
  <2>4. d \in Nat
    BY MayStripIs
  <2>5. c - d = i /\ c \in d + 1 .. h
    BY <2>1, <2>4
  <2> QED BY <2>1, <2>2, <2>3, <2>5, Zenon
<1>2. /\ Len(p.chars) \in Nat /\ d \in Nat /\ h \in Nat /\ d <= h /\ h <= Len(p.chars)
      /\ t \in Seq(Characters) /\ Len(t) = h - d
  BY MayStripIs
<1>3. i \in 1 .. h - d /\ e = d + i - 1 /\ p.at[e] = 0 /\ Has(a, i, o, NoStrip, <<>>)
  BY DEF IsAt
<1>4. echoes \in SUBSET Runs /\ PlainInv(p) /\ ProgramTypes /\ final \in BOOLEAN
      /\ (final => h = Len(p.chars))
      /\ \A k \in d + 1 .. h : EchoChar(p, k) => p.run[k] \in echoes
  BY DEF MayStrip
<1> HIDE DEF t, rest, o, b
<1>5. c - 1 = e /\ EchoChar(p, c)
  BY <1>1
<1> HIDE DEF c
<1>6. /\ r \in Runs /\ r \in echoes /\ echo \in Echoes(r) /\ Len(echo) \in Nat /\ e + Len(echo) <= Len(p.chars)
      /\ EchoSize \in Nat /\ EchoSize >= 1 /\ Len(echo) >= EchoSize + 2
  <2>1. r \in Runs /\ echo \in Echoes(r) /\ Len(echo) \in Nat /\ c - 1 - p.at[c - 1] + Len(echo) <= Len(p.chars)
    BY <1>1, <1>4, <1>5, EchoCharIs
  <2>2. r \in echoes
    BY <1>1, <1>4, <1>5
  <2>3. Len(echo) \in EchoSize + 2 .. EchoSize + 3 /\ EchoSize \in Nat /\ EchoSize >= 1
    BY <2>1, EchoIs, PrefixIs
  <2>4. c - 1 - p.at[c - 1] = e
    BY <1>1, <1>3, <1>5
  <2> QED BY <2>1, <2>2, <2>3, <2>4
<1>7. \A j \in 1 .. Len(echo) : /\ p.chars[e + j] = echo[j] /\ p.user[e + j] = p.user[e] /\ p.run[e + j] = r
                                /\ p.at[e + j] = IF j = Len(echo) THEN 0 ELSE j
  <2>1. c - 1 - p.at[c - 1] = e
    BY <1>1, <1>3, <1>5
  <2>2. \A j \in 1 .. Len(echo) : p.chars[e + j] = echo[j] /\ p.user[e + j] = p.user[e]
                                  /\ p.at[e + j] = IF j = Len(echo) THEN 0 ELSE j
    <3> DEFINE s == c - 1 - p.at[c - 1]
    <3>1. \A j \in 1 .. Len(echo) : /\ p.chars[s + j] = echo[j] /\ p.user[s + j] = p.user[s]
                                    /\ p.at[s + j] = IF j = Len(echo) THEN 0 ELSE j
      BY <1>1, <1>4, <1>5, EchoCharsTogether
    <3>2. s = e
      BY <2>1
    <3> HIDE DEF s, echo
    <3> QED BY <3>1, <3>2
  <2>3. EchoAt(p, e, r, echo)
    BY <1>5, <2>1 DEF EchoChar
  <2>4. \A j \in 1 .. Len(echo) : p.run[e + j] = r
    BY <2>3 DEF EchoAt
  <2> QED BY <2>2, <2>4
<1> HIDE DEF r, echo
<1>8. echo \in Seq(Characters) /\ echo[1] = EchoPrefix[1]
  <2>1. echo \in Seq(Characters) /\ \A j \in 1 .. EchoSize : echo[j] = EchoPrefix[j]
    BY <1>6, EchoIs
  <2>2. 1 \in 1 .. EchoSize
    BY <1>6
  <2> QED BY <2>1, <2>2
<1>9. t[i] = EchoPrefix[1]
  <2>1. 1 \in 1 .. Len(echo) /\ e + 1 = c
    BY <1>1, <1>5, <1>6
  <2> QED BY <1>1, <1>7, <1>8, <2>1
<1>10. CASE e + Len(echo) <= h
  <2> DEFINE f == e + Len(echo)
  <2>1. /\ Len(echo) <= Len(rest) /\ f \in d .. h /\ f - d >= i /\ i + Len(echo) = f - d + 1
        /\ \A j \in 1 .. Len(echo) : j \in 1 .. h - e
    <3>1. PICK l \in Nat : l = Len(echo) /\ l >= 1
      BY <1>6
    <3>2. e \in Nat /\ h \in Nat /\ d \in Nat /\ i \in Nat /\ d <= e /\ e = d + i - 1 /\ e + l <= h /\ Len(rest) = h - e
      BY <1>1, <1>2, <1>3, <1>10, <3>1
    <3>3. l <= h - e /\ e + l \in d .. h /\ e + l - d >= i /\ i + l = e + l - d + 1 /\ \A j \in 1 .. l : j \in 1 .. h - e
      BY <3>1, <3>2
    <3> QED BY <3>1, <3>2, <3>3
  <2>2. \A j \in 1 .. Len(echo) : rest[j] = echo[j]
    BY <1>1, <1>7, <2>1
  <2>3. Exact(t, echoes, i) # {}
    <3>1. IsPrefix(echo, rest)
      BY <1>1, <1>8, <2>1, <2>2, PrefixOf
    <3>2. [run |-> r, echo |-> echo, index |-> 0] \in Exact(t, echoes, i)
      BY <1>1, <1>2, <1>4, <1>6, <3>1, ExactIs
    <3> QED BY <3>2
  <2>4. ASSUME NEW x \in Exact(t, echoes, i) PROVE i + Len(x.echo) = f - d + 1
    <3>1. IsPrefix(x.echo, rest) /\ x.run \in Runs /\ x.echo \in Echoes(x.run)
      BY <1>1, <1>2, <1>4, ExactIs
    <3>2. x.echo = echo
      BY <1>1, <1>6, <2>1, <2>2, <3>1, WholeEcho
    <3> QED BY <2>1, <3>2
  <2>5. p.user[f] = p.user[e] /\ p.at[f] = 0
    <3>1. Len(echo) \in 1 .. Len(echo)
      BY <1>6
    <3> QED BY <1>7, <3>1
  <2> HIDE DEF f
  <2> DEFINE n == f - d + 1
  <2>6. \A x \in Exact(t, echoes, i) : i + Len(x.echo) = n
    BY <2>4
  <2> HIDE DEF n
  <2>7. Has(b, n, o, NoStrip, <<>>)
    BY <1>1, <1>2, <1>3, <1>9, <2>3, <2>6, StripsWhole, Zenon DEF b
  <2>8. Has(b, f - d + 1, Between(text, p.user[d], p.user[f]), NoStrip, <<>>) /\ StripAt(p, f, NoStrip)
    BY <2>5, <2>7 DEF n, o, StripAt
  <2>9. ReadTo(p, d, h, echoes, final, i, b)
    BY <1>3, <2>1, <2>8, ReadsOn
  <2> QED BY <2>9 DEF b, t
<1>11. CASE ~(e + Len(echo) <= h)
  <2>1. /\ Len(rest) >= 1 /\ Len(rest) < Len(echo) /\ ~final
        /\ \A j \in 1 .. Len(rest) : j \in 1 .. h - e /\ j \in 1 .. Len(echo)
    BY <1>1, <1>2, <1>4, <1>6, <1>11
  <2>2. IsStart(rest, r, echo)
    <3>1. \A j \in 1 .. Len(rest) : rest[j] = echo[j]
      BY <1>1, <1>7, <2>1
    <3> QED BY <2>1, <3>1 DEF IsStart
  <2>3. Exact(t, echoes, i) = {}
    <3>1. ASSUME NEW x \in Exact(t, echoes, i) PROVE FALSE
      <4>1. IsPrefix(x.echo, rest) /\ x.run \in Runs /\ x.echo \in Echoes(x.run)
        BY <1>1, <1>2, <1>4, ExactIs
      <4> QED BY <1>1, <1>6, <2>2, <4>1, StartIsNoEcho
    <3> QED BY <3>1
  <2>4. CASE Len(rest) < EchoSize
    <3>1. /\ TolerantMatch(rest, echoes) = [used |-> 0, strip |-> NoStrip]
          /\ EchoGoesOn(rest, echoes) /\ echoes # {} /\ Len(rest) < MaxEcho
      BY <1>1, <1>4, <1>6, <2>2, <2>4, ShortStart
    <3>2. TolerantMatch(Rest(t, i), echoes).used = 0 /\ EchoGoesOn(Rest(t, i), echoes)
      BY <1>1, <3>1
    <3>3. final = FALSE
      BY <1>4, <2>1
    <3>4. Has(StripEcho(a, i, t, echoes, FALSE), Len(t) + 1, o, NoStrip, Rest(t, i))
      BY <1>1, <1>2, <1>3, <1>9, <2>3, <3>2, StripsNothingYet, Zenon
    <3>5. Has(b, h - d + 1, Between(text, p.user[d], p.user[e]), NoStrip, rest)
      BY <1>1, <1>2, <3>3, <3>4 DEF b, o
    <3>6. HeldBack(p, e, h, echoes, rest)
      <4>1. ASSUME NEW k \in e + 1 .. h PROVE p.at[k] # 0
        <5> DEFINE j == k - e
        <5>1. j \in 1 .. Len(rest) /\ e + j = k
          BY <1>1, <1>2
        <5> HIDE DEF j
        <5>2. p.at[e + j] = j
          BY <1>6, <1>7, <2>1, <5>1
        <5> QED BY <5>1, <5>2
      <4> QED BY <3>1, <4>1 DEF HeldBack, rest
    <3>7. e \in d .. h
      BY <1>1, <1>2
    <3>8. ReadTo(p, d, h, echoes, FALSE, i, b)
      BY <1>3, <3>3, <3>5, <3>6, <3>7, ReadsNoFurther
    <3> QED BY <3>3, <3>8 DEF b, t
  <2>5. CASE ~(Len(rest) < EchoSize)
    <3>1. TolerantMatch(rest, echoes).used = Len(rest) /\ Within(TolerantMatch(rest, echoes).strip, r, Len(rest))
      <4>1. Len(rest) >= EchoSize
        BY <1>1, <1>2, <1>6, <2>5
      <4> QED BY <1>1, <1>4, <1>6, <2>2, <4>1, LongStart
    <3> DEFINE match == TolerantMatch(rest, echoes)
    <3>2. match.used > 0 /\ i + match.used = h - d + 1 /\ h \in d .. h /\ h - d >= i
      BY <1>1, <1>2, <1>3, <2>1, <3>1
    <3>3. TolerantMatch(Rest(t, i), echoes).used > 0 /\ TolerantMatch(Rest(t, i), echoes) = match
      BY <1>1, <3>2
    <3>4. Has(b, i + TolerantMatch(Rest(t, i), echoes).used, o, TolerantMatch(Rest(t, i), echoes).strip, <<>>)
      BY <1>1, <1>2, <1>3, <1>9, <2>3, <3>3, StripsStart, Zenon DEF b
    <3>5. p.at[h] = Len(rest) /\ p.user[h] = p.user[e] /\ p.run[h] = r
      <4> DEFINE j == Len(rest)
      <4>1. j \in 1 .. Len(echo) /\ j # Len(echo) /\ e + j = h
        BY <1>1, <1>2, <1>6, <2>1
      <4> HIDE DEF j
      <4>2. p.at[e + j] = j /\ p.user[e + j] = p.user[e] /\ p.run[e + j] = r
        BY <1>7, <4>1
      <4> QED BY <4>1, <4>2 DEF j
    <3> HIDE DEF match
    <3>6. StripAt(p, h, match.strip)
      <4>1. Within(match.strip, p.run[h], p.at[h])
        BY <3>1, <3>5 DEF match
      <4>2. match.strip # NoStrip
        BY <4>1, WithinIs
      <4> QED BY <4>1, <4>2 DEF StripAt
    <3>7. Has(b, h - d + 1, Between(text, p.user[d], p.user[h]), match.strip, <<>>)
      BY <3>2, <3>3, <3>4, <3>5 DEF o
    <3>8. ReadTo(p, d, h, echoes, final, i, b)
      BY <1>3, <3>2, <3>6, <3>7, ReadsOn
    <3> QED BY <3>8 DEF b, t
  <2> QED BY <2>4, <2>5
<1> QED BY <1>10, <1>11

\* One step of the loop.
LEMMA StripStep ==
  ASSUME NEW p, NEW d, NEW h, NEW echoes, NEW final, MayStrip(p, d, h, echoes, final),
         NEW i \in 1 .. h - d, NEW a, ReadTo(p, d, h, echoes, final, i - 1, a)
  PROVE  ReadTo(p, d, h, echoes, final, i, StripFrom(a, i, Between(p.chars, d, h), echoes, final))
<1> DEFINE t == Between(p.chars, d, h)
<1>1. /\ Len(p.chars) \in Nat /\ d \in Nat /\ h \in Nat /\ d <= h /\ h <= Len(p.chars)
      /\ t \in Seq(Characters) /\ Len(t) = h - d
      /\ \A j \in 1 .. h - d : t[j] = p.chars[d + j]
  BY MayStripIs
<1>2. PlainInv(p) /\ ProgramTypes
  BY DEF MayStrip
<1>3. a.next \in i .. h - d + 1
  BY <1>1 DEF ReadTo
<1>4. PICK e \in d .. h : ReadUpTo(p, d, h, echoes, final, a, e)
  BY DEF ReadTo
<1>5. /\ Has(a, a.next, Between(text, p.user[d], p.user[e]), a.strip, a.tail) /\ StripAt(p, e, a.strip)
      /\ \/ a.tail = <<>> /\ a.next = e - d + 1
         \/ a.next = h - d + 1 /\ a.strip = NoStrip /\ ~final /\ HeldBack(p, e, h, echoes, a.tail)
  BY <1>4 DEF ReadUpTo
<1> HIDE DEF t
<1>6. CASE i < a.next
  <2>1. StripFrom(a, i, t, echoes, final) = a
    BY <1>1, <1>6, StripPast
  <2>2. a.next \in i + 1 .. h - d + 1
    BY <1>1, <1>3, <1>6
  <2> QED BY <1>4, <2>1, <2>2 DEF ReadTo, t
<1>7. CASE ~(i < a.next)
  <2> DEFINE b == StripFrom(a, i, t, echoes, final)
             o == Between(text, p.user[d], p.user[e])
  <2>1. i = a.next /\ a.next # h - d + 1
    BY <1>1, <1>3, <1>7
  <2>2. /\ a.tail = <<>> /\ i = e - d + 1 /\ e = d + i - 1 /\ e \in 0 .. Len(p.chars) - 1
        /\ e + 1 \in d .. h /\ e + 1 - d >= i /\ d + i = e + 1 /\ e + 1 - 1 = e /\ e + 1 \in 1 .. Len(p.chars)
    <3>1. a.tail = <<>> /\ a.next = e - d + 1
      BY <1>5, <2>1
    <3>2. i = e - d + 1 /\ i \in Nat /\ i <= h - d /\ i >= 1 /\ e \in Nat /\ d <= e /\ e <= h
      BY <1>1, <2>1, <3>1
    <3>3. e = d + i - 1 /\ e \in 0 .. Len(p.chars) - 1
      BY <1>1, <3>2
    <3> QED BY <1>1, <3>1, <3>2, <3>3
  <2> HIDE DEF b, o
  <2>3. t[i] = p.chars[e + 1]
    BY <1>1, <2>2
  <2>4. CASE a.strip # NoStrip
    <3> DEFINE s == a.strip
               byte == ConsumeByte(s, t[i])
               f == e + 1
    <3>1. byte.out = <<>> /\ p.user[f] = p.user[e] /\ StripAt(p, f, byte.strip)
      BY <1>2, <1>5, <2>2, <2>3, <2>4, StepInEcho
    <3>2. Has(a, i, o, s, <<>>)
      BY <1>5, <2>1, <2>2 DEF o
    <3> HIDE DEF s
    <3>3. Has(b, i + 1, o \o byte.out, byte.strip, <<>>)
      <4>1. i \in Nat /\ s # NoStrip
        BY <2>4 DEF s
      <4> QED BY <1>1, <3>2, <4>1, StripInside, Zenon DEF b
    <3>4. o \o byte.out = o
      <4>1. o \in Seq(Characters)
        <5> DEFINE u == p.user[d]
                   v == p.user[e]
        <5>1. d \in 0 .. Len(p.chars) /\ e \in d .. Len(p.chars)
          BY <1>1
        <5>2. u \in 0 .. Len(text) /\ v \in u .. Len(text)
          BY <1>2, <5>1, UserGrows
        <5> HIDE DEF u, v
        <5>3. Between(text, u, v) \in Seq(Characters)
          BY <1>2, <5>2, BetweenIs DEF ProgramTypes
        <5> QED BY <5>3 DEF o, u, v
      <4> HIDE DEF byte
      <4> QED BY <3>1, <4>1, ConcatEmptySeq
    <3> HIDE DEF byte, f
    <3>5. f \in d .. h /\ f - d >= i /\ i + 1 = f - d + 1
      BY <1>1, <2>2 DEF f
    <3>6. Has(b, f - d + 1, Between(text, p.user[d], p.user[f]), byte.strip, <<>>)
      BY <3>1, <3>3, <3>4, <3>5 DEF o
    <3>7. ReadTo(p, d, h, echoes, final, i, b)
      BY <3>1, <3>5, <3>6, ReadsOn
    <3> QED BY <3>7 DEF b, t
  <2>5. CASE a.strip = NoStrip
    <3>1. b = StripEcho(a, i, t, echoes, final)
      BY <1>1, <2>1, <2>5, StripOutside DEF b
    <3>2. IsAt(p, d, h, a, i, e)
      BY <1>5, <2>1, <2>2, <2>5 DEF IsAt, StripAt
    <3>3. EchoChar(p, e + 1) \/ UserChar(p, e + 1)
      BY <1>2, <2>2, CharIsOne
    <3>4. ReadTo(p, d, h, echoes, final, i, StripEcho(a, i, Between(p.chars, d, h), echoes, final))
      BY <3>2, <3>3, StepAtUser, StepAtEcho
    <3> QED BY <3>1, <3>4 DEF b, t
  <2> QED BY <2>4, <2>5
<1> QED BY <1>6, <1>7 DEF t
-----------------------------------------------------------------------------
(* What the sanitizer makes of a text *)

\* The sanitizer has put out the story up to `d`, and has got it up to `g`.
Keeps(p, d, g, san) ==
  /\ san = [echoes |-> san.echoes, strip |-> san.strip, tail |-> san.tail]
  /\ HeldBack(p, d, g, san.echoes, san.tail) /\ StripAt(p, d, san.strip)
  /\ san.strip # NoStrip => d = g

\* The loop, read to the end.
LEMMA StripReads ==
  ASSUME NEW p, NEW d, NEW h, NEW echoes, NEW final, MayStrip(p, d, h, echoes, final),
         NEW strip, StripAt(p, d, strip), NEW up, Strips(up, Between(p.chars, d, h), echoes, strip, final)
  PROVE  ReadTo(p, d, h, echoes, final, h - d, up[h - d])
<1> DEFINE t == Between(p.chars, d, h)
           read == {i \in Nat : i <= h - d => ReadTo(p, d, h, echoes, final, i, up[i])}
<1>1. /\ Len(p.chars) \in Nat /\ d \in Nat /\ h \in Nat /\ d <= h /\ h <= Len(p.chars) /\ h - d \in Nat
      /\ t \in Seq(Characters) /\ Len(t) = h - d /\ text \in Seq(Characters)
  BY MayStripIs
<1>2. 0 \in read
  <2> DEFINE a == Fresh(strip)
             u == p.user[d]
  <2>1. up[0] = a
    BY DEF Strips
  <2>2. u \in 0 .. Len(text)
    <3>1. d \in 0 .. Len(p.chars) /\ d \in d .. Len(p.chars) /\ PlainInv(p)
      BY <1>1 DEF MayStrip
    <3> QED BY <3>1, UserGrows
  <2> HIDE DEF u
  <2>3. Between(text, u, u) = <<>>
    BY <1>1, <2>2, BetweenNothing
  <2>4. Has(a, a.next, Between(text, u, u), a.strip, a.tail) /\ a.next = 1 /\ a.strip = strip /\ a.tail = <<>>
    BY <2>3 DEF Has, Fresh
  <2> HIDE DEF a
  <2>5. d \in d .. h /\ 1 = d - d + 1 /\ 1 \in 0 + 1 .. h - d + 1
    BY <1>1
  <2>6. ReadUpTo(p, d, h, echoes, final, a, d)
    BY <2>4, <2>5 DEF ReadUpTo, u
  <2>7. ReadTo(p, d, h, echoes, final, 0, a)
    BY <2>4, <2>5, <2>6 DEF ReadTo
  <2> QED BY <2>1, <2>7
<1>3. ASSUME NEW i \in Nat, i \in read PROVE i + 1 \in read
  <2> SUFFICES ASSUME i + 1 <= h - d PROVE ReadTo(p, d, h, echoes, final, i + 1, up[i + 1])
    OBVIOUS
  <2> DEFINE k == i + 1
  <2>1. k \in 1 .. h - d /\ k \in 1 .. Len(t) /\ k - 1 = i /\ i <= h - d
    BY <1>1
  <2>2. ReadTo(p, d, h, echoes, final, i, up[i])
    BY <1>3, <2>1
  <2> HIDE DEF k, t
  <2>3. up[k] = StripFrom(up[i], k, t, echoes, final)
    BY <2>1 DEF Strips, t
  <2>4. ReadTo(p, d, h, echoes, final, k, StripFrom(up[i], k, t, echoes, final))
    BY <2>1, <2>2, StripStep DEF t
  <2>5. ReadTo(p, d, h, echoes, final, k, up[k])
    BY <2>3, <2>4
  <2> QED BY <2>5 DEF k
<1>4. h - d \in read
  <2> HIDE DEF read
  <2> QED BY <1>1, <1>2, <1>3, Induction
<1> QED BY <1>1, <1>4

\* It lets through what the program printed, in order, and keeps back only what
\* may be the start of an echo; at the end of the output it keeps nothing.
THEOREM StripTells ==
  ASSUME NEW p, NEW d, NEW h, NEW echoes, NEW final, MayStrip(p, d, h, echoes, final),
         NEW strip, StripAt(p, d, strip)
  PROVE  LET res == Strip(Between(p.chars, d, h), echoes, strip, final)
         IN  \E e \in d .. h :
               /\ res.out = Between(text, p.user[d], p.user[e])
               /\ Keeps(p, e, h, res.sanitizer) /\ res.sanitizer.echoes = echoes
               /\ final => e = h /\ res.sanitizer.tail = <<>> /\ res.sanitizer.strip = NoStrip
<1> DEFINE t == Between(p.chars, d, h)
           res == Strip(t, echoes, strip, final)
<1>1. /\ Len(p.chars) \in Nat /\ d \in Nat /\ h \in Nat /\ d <= h /\ h <= Len(p.chars) /\ h - d \in Nat
      /\ t \in Seq(Characters) /\ Len(t) = h - d /\ p.chars \in Seq(Characters)
  BY MayStripIs
<1>2. PICK up : Strips(up, t, echoes, strip, final)
  BY <1>1, StripLoops
<1> DEFINE a == up[h - d]
<1>3. ReadTo(p, d, h, echoes, final, h - d, a)
  BY <1>2, StripReads
<1>4. res = [out |-> a.out, sanitizer |-> [echoes |-> echoes, strip |-> a.strip, tail |-> a.tail]]
  <2> HIDE DEF t
  <2> QED BY <1>1, <1>2 DEF Strips
<1> HIDE DEF a, res
<1>5. PICK e \in d .. h : ReadUpTo(p, d, h, echoes, final, a, e)
  BY <1>3 DEF ReadTo
<1>6. a.next = h - d + 1
  BY <1>1, <1>3 DEF ReadTo
<1>7. /\ a.out = Between(text, p.user[d], p.user[e]) /\ StripAt(p, e, a.strip)
      /\ \/ a.tail = <<>> /\ e = h
         \/ a.strip = NoStrip /\ ~final /\ HeldBack(p, e, h, echoes, a.tail)
  <2>1. /\ Has(a, a.next, Between(text, p.user[d], p.user[e]), a.strip, a.tail) /\ StripAt(p, e, a.strip)
        /\ \/ a.tail = <<>> /\ a.next = e - d + 1
           \/ a.next = h - d + 1 /\ a.strip = NoStrip /\ ~final /\ HeldBack(p, e, h, echoes, a.tail)
    BY <1>5 DEF ReadUpTo
  <2>2. a.next = e - d + 1 => e = h
    BY <1>1, <1>6
  <2>3. a.out = Between(text, p.user[d], p.user[e])
    BY <2>1 DEF Has
  <2> QED BY <2>1, <2>2, <2>3
<1>8. HeldBack(p, e, h, echoes, a.tail)
  <2>1. CASE a.tail = <<>> /\ e = h
    <3>1. h \in 0 .. Len(p.chars)
      BY <1>1
    <3> QED BY <1>1, <2>1, <3>1, NothingHeld
  <2> QED BY <1>7, <2>1
<1>9. a.strip # NoStrip => e = h
  BY <1>7
<1>10. Keeps(p, e, h, res.sanitizer) /\ res.sanitizer.echoes = echoes
  BY <1>4, <1>7, <1>8, <1>9 DEF Keeps
<1>11. final => e = h /\ res.sanitizer.tail = <<>> /\ res.sanitizer.strip = NoStrip
  <2> SUFFICES ASSUME final PROVE e = h /\ a.tail = <<>> /\ a.strip = NoStrip
    BY <1>4
  <2>1. e = h /\ a.tail = <<>>
    BY <1>7
  <2>2. p.at[h] = 0
    BY DEF MayStrip, PlainInv
  <2>3. a.strip = NoStrip
    <3> SUFFICES ASSUME a.strip # NoStrip PROVE FALSE
      OBVIOUS
    <3>1. Within(a.strip, p.run[e], p.at[e])
      BY <1>7 DEF StripAt
    <3>2. p.at[e] >= EchoSize /\ EchoSize \in Nat /\ EchoSize >= 1
      BY <3>1, WithinIs, PrefixIs
    <3> QED BY <2>1, <2>2, <3>2
  <2> QED BY <2>1, <2>3
<1>12. res.out = Between(text, p.user[d], p.user[e])
  BY <1>4, <1>7
<1> QED BY <1>10, <1>11, <1>12 DEF res
-----------------------------------------------------------------------------
(* What the output records of a log hold *)

\* The loop of Outputs over the first `m` records.
OutputLoop(f, s, m) == f = [i \in 0 .. m |-> IF i = 0 THEN <<>> ELSE f[i - 1] \o OutputOf(s[i])]

\* There is one for every number of records.
LEMMA OutputLoopExists ==
  ASSUME NEW s, NEW n \in Nat
  PROVE  \E f : OutputLoop(f, s, n)
<1> DEFINE built == {m \in Nat : \E f : OutputLoop(f, s, m)}
<1>1. 0 \in built
  <2> DEFINE f == [i \in 0 .. 0 |-> <<>>]
  <2>1. f = [i \in 0 .. 0 |-> IF i = 0 THEN <<>> ELSE f[i - 1] \o OutputOf(s[i])]
    OBVIOUS
  <2> QED BY <2>1 DEF OutputLoop
<1>2. ASSUME NEW m \in Nat, m \in built PROVE m + 1 \in built
  <2>1. PICK f : OutputLoop(f, s, m)
    BY <1>2
  <2> DEFINE g == [i \in 0 .. m + 1 |-> IF i <= m THEN f[i] ELSE f[m] \o OutputOf(s[m + 1])]
  <2>2. \A i \in 0 .. m : g[i] = f[i]
    OBVIOUS
  <2>3. g[m + 1] = f[m] \o OutputOf(s[m + 1])
    <3>1. m + 1 \in 0 .. m + 1 /\ ~(m + 1 <= m)
      OBVIOUS
    <3> QED BY <3>1, Zenon
  <2>4. DOMAIN g = 0 .. m + 1 /\ g = [i \in DOMAIN g |-> g[i]]
    OBVIOUS
  <2> HIDE DEF g
  <2>5. ASSUME NEW i \in 0 .. m + 1
        PROVE  g[i] = IF i = 0 THEN <<>> ELSE g[i - 1] \o OutputOf(s[i])
    <3>1. CASE i = 0
      <4>1. g[0] = f[0] /\ f[0] = <<>>
        BY <2>1, <2>2 DEF OutputLoop
      <4> QED BY <3>1, <4>1
    <3>2. CASE i # 0 /\ i <= m
      <4>1. i \in 0 .. m /\ i - 1 \in 0 .. m
        BY <3>2
      <4>2. f[i] = f[i - 1] \o OutputOf(s[i])
        BY <2>1, <3>2, <4>1 DEF OutputLoop
      <4>3. g[i] = f[i] /\ g[i - 1] = f[i - 1]
        BY <2>2, <4>1
      <4> QED BY <3>2, <4>2, <4>3
    <3>3. CASE i # 0 /\ ~(i <= m)
      <4>1. i = m + 1 /\ i - 1 = m /\ m \in 0 .. m
        BY <3>3
      <4>2. g[m] = f[m]
        BY <2>2, <4>1
      <4> QED BY <2>3, <3>3, <4>1, <4>2
    <3> QED BY <3>1, <3>2, <3>3
  <2>6. OutputLoop(g, s, m + 1)
    BY <2>4, <2>5 DEF OutputLoop
  <2> QED BY <2>6
<1> QED
  <2> HIDE DEF built
  <2>1. n \in built
    BY <1>1, <1>2, Induction
  <2> QED BY <2>1 DEF built

\* `up` is what the first so many records hold.
Holding(up, s) ==
  /\ up[0] = <<>> /\ \A i \in 1 .. Len(s) : up[i] = up[i - 1] \o OutputOf(s[i])
  /\ Outputs(s) = up[Len(s)]

\* There is such a function.
LEMMA OutputsLoop ==
  ASSUME NEW s, Len(s) \in Nat
  PROVE  \E up : Holding(up, s)
<1> DEFINE up == CHOOSE f : OutputLoop(f, s, Len(s))
<1>1. OutputLoop(up, s, Len(s))
  BY OutputLoopExists
<1>2. Outputs(s) = up[Len(s)]
  BY DEF Outputs, OutputLoop
<1> HIDE DEF up
<1>3. up[0] = <<>>
  <2>1. 0 \in 0 .. Len(s)
    OBVIOUS
  <2> QED BY <1>1, <2>1 DEF OutputLoop
<1>4. ASSUME NEW i \in 1 .. Len(s) PROVE up[i] = up[i - 1] \o OutputOf(s[i])
  <2>1. i \in 0 .. Len(s) /\ i # 0
    OBVIOUS
  <2> QED BY <1>1, <2>1 DEF OutputLoop
<1>5. Holding(up, s)
  BY <1>2, <1>3, <1>4 DEF Holding
<1> QED BY <1>5

\* The same records hold the same.
LEMMA OutputsTogether ==
  ASSUME NEW s, NEW t, NEW n \in Nat, Len(s) \in Nat, Len(t) \in Nat, n <= Len(s), n <= Len(t),
         \A i \in 1 .. n : s[i] = t[i], NEW f, Holding(f, s), NEW g, Holding(g, t)
  PROVE  f[n] = g[n]
<1> DEFINE same == {m \in Nat : m <= n => f[m] = g[m]}
<1>1. 0 \in same
  BY DEF Holding
<1>2. ASSUME NEW m \in Nat, m \in same PROVE m + 1 \in same
  <2> SUFFICES ASSUME m + 1 <= n PROVE f[m + 1] = g[m + 1]
    OBVIOUS
  <2> DEFINE k == m + 1
  <2>1. k \in 1 .. Len(s) /\ k \in 1 .. Len(t) /\ k \in 1 .. n /\ k - 1 = m /\ m <= n
    OBVIOUS
  <2> HIDE DEF k
  <2>2. f[k] = f[m] \o OutputOf(s[k]) /\ g[k] = g[m] \o OutputOf(t[k])
    BY <2>1 DEF Holding
  <2>3. f[m] = g[m]
    BY <1>2, <2>1
  <2>4. f[k] = g[k]
    BY <2>1, <2>2, <2>3
  <2> QED BY <2>4 DEF k
<1> QED
  <2> HIDE DEF same
  <2>1. n \in same
    BY <1>1, <1>2, Induction
  <2> QED BY <2>1 DEF same

\* Two logs with the same records hold the same.
LEMMA OutputsSame ==
  ASSUME NEW s, NEW t, Len(s) \in Nat, Len(t) = Len(s), \A i \in 1 .. Len(s) : s[i] = t[i]
  PROVE  Outputs(s) = Outputs(t)
<1>1. PICK f : Holding(f, s)
  BY OutputsLoop
<1>2. PICK g : Holding(g, t)
  BY OutputsLoop
<1>3. f[Len(s)] = g[Len(s)]
  BY <1>1, <1>2, OutputsTogether
<1> QED BY <1>1, <1>2, <1>3 DEF Holding

\* One more record adds its output to what a log holds.
LEMMA OutputsGrow ==
  ASSUME NEW s, NEW t, Len(s) \in Nat, Len(t) = Len(s) + 1, \A i \in 1 .. Len(s) : t[i] = s[i]
  PROVE  Outputs(t) = Outputs(s) \o OutputOf(t[Len(s) + 1])
<1>1. PICK f : Holding(f, s)
  BY OutputsLoop
<1>2. PICK g : Holding(g, t)
  BY OutputsLoop
<1>3. g[Len(s)] = f[Len(s)]
  <2>1. Len(s) <= Len(t) /\ Len(s) <= Len(s) /\ Len(t) \in Nat /\ \A i \in 1 .. Len(s) : s[i] = t[i]
    OBVIOUS
  <2> QED BY <1>1, <1>2, <2>1, OutputsTogether
<1>4. g[Len(s) + 1] = g[Len(s)] \o OutputOf(t[Len(s) + 1])
  <2> DEFINE k == Len(s) + 1
  <2>1. k \in 1 .. Len(t) /\ k - 1 = Len(s)
    OBVIOUS
  <2> HIDE DEF k
  <2>2. g[k] = g[k - 1] \o OutputOf(t[k])
    BY <1>2, <2>1 DEF Holding
  <2> QED BY <2>1, <2>2 DEF k
<1> QED BY <1>1, <1>2, <1>3, <1>4 DEF Holding

\* A log without records holds nothing.
LEMMA OutputsOfNone ==
  ASSUME NEW s, Len(s) = 0
  PROVE  Outputs(s) = <<>>
<1>1. PICK f : Holding(f, s)
  BY OutputsLoop
<1> QED BY <1>1 DEF Holding
-----------------------------------------------------------------------------
(* The story of the terminal. Of all that it delivered, `raw`, each        *)
(* character is one of `chars` or in a sentinel: behind the first m of     *)
(* them `g` and `k` count both, and the sentinel of the k-th run that      *)
(* ended stands behind the first `stand` of `chars`.                       *)

\* The m-th character is no part of a sentinel, and does not look like the start of one.
RawChar(p, m) ==
  /\ p.g[m] = p.g[m - 1] + 1 /\ p.k[m] = p.k[m - 1] /\ p.raw[m] = p.chars[p.g[m]]
  /\ p.raw[m] = "esc" => m + 1 <= Len(p.raw) /\ p.raw[m + 1] \notin Runs

\* The m-th and the next are the sentinel of the next run that ended.
RawSentinel(p, m) ==
  LET k == p.k[m - 1] + 1
  IN  /\ k \in 1 .. Len(ended) /\ m + 1 <= Len(p.raw)
      /\ p.raw[m] = "esc" /\ p.raw[m + 1] = ended[k].run
      /\ p.g[m] = p.g[m - 1] /\ p.g[m + 1] = p.g[m - 1]
      /\ p.k[m] = p.k[m - 1] /\ p.k[m + 1] = k /\ p.stand[k] = p.g[m - 1]

\* The story of the terminal's characters.
RawInv(p) ==
  LET M == Len(p.raw)
  IN  /\ p.raw \in Seq(Characters)
      /\ p.g \in [0 .. M -> 0 .. Len(p.chars)] /\ p.k \in [0 .. M -> 0 .. Len(ended)]
      /\ p.g[0] = 0 /\ p.k[0] = 0 /\ p.g[M] = Len(p.chars) /\ p.k[M] = Len(ended)
      /\ \A m \in 1 .. M : RawChar(p, m) \/ RawSentinel(p, m) \/ (m > 1 /\ RawSentinel(p, m - 1))

\* A place that is not inside a sentinel.
Place(p, m) ==
  /\ m \in 0 .. Len(p.raw)
  /\ m = 0 \/ RawChar(p, m) \/ (m >= 2 /\ RawSentinel(p, m - 1))

\* No character is in two of these roles.
LEMMA RawIsOne ==
  ASSUME NEW p, RawInv(p), ended \in Seq([run : Runs, before : Nat]), NEW m \in 1 .. Len(p.raw)
  PROVE  /\ ~(RawChar(p, m) /\ RawSentinel(p, m))
         /\ m > 1 /\ RawSentinel(p, m - 1) => ~RawChar(p, m) /\ ~RawSentinel(p, m)
<1>1. Len(p.raw) \in Nat /\ Len(ended) \in Nat /\ m \in Nat
  BY LenProperties DEF RawInv
<1>2. p.g[m - 1] \in Int /\ p.k[m - 1] \in Int
  <2>1. m - 1 \in 0 .. Len(p.raw) /\ p.g \in [0 .. Len(p.raw) -> 0 .. Len(p.chars)]
        /\ p.k \in [0 .. Len(p.raw) -> 0 .. Len(ended)]
    BY <1>1 DEF RawInv
  <2>2. p.g[m - 1] \in 0 .. Len(p.chars) /\ p.k[m - 1] \in 0 .. Len(ended)
    BY <2>1, Zenon
  <2> QED BY <2>2
<1>3. ~(RawChar(p, m) /\ RawSentinel(p, m))
  BY <1>2 DEF RawChar, RawSentinel
<1>4. ASSUME m > 1, RawSentinel(p, m - 1)
      PROVE  ~RawChar(p, m) /\ ~RawSentinel(p, m)
  <2> DEFINE n == m - 1
             k == p.k[n - 1] + 1
  <2>1. n + 1 = m /\ n - 1 \in 0 .. Len(p.raw) /\ n \in Nat
    BY <1>1, <1>4
  <2> HIDE DEF n
  <2>2. k \in 1 .. Len(ended) /\ p.raw[m] = ended[k].run /\ p.g[n] = p.g[n - 1] /\ p.g[m] = p.g[n - 1]
    BY <1>4, <2>1 DEF RawSentinel, n
  <2>3. ended[k].run \in Runs /\ p.raw[m] # "esc"
    <3>1. ended[k] \in [run : Runs, before : Nat]
      BY <2>2, ElementOfSeq
    <3>2. ended[k].run \in Runs
      BY <3>1
    <3> QED BY <2>2, <3>2, SentinelAssumption
  <2>4. p.g[n] \in Int
    BY <1>2 DEF n
  <2> HIDE DEF k
  <2>5. m - 1 = n
    BY DEF n
  <2>6. ~RawChar(p, m)
    BY <2>2, <2>4, <2>5 DEF RawChar
  <2>7. ~RawSentinel(p, m)
    BY <2>3 DEF RawSentinel
  <2> QED BY <2>6, <2>7
<1> QED BY <1>3, <1>4

\* Behind a place there is a character or a whole sentinel.
LEMMA PlaceGoesOn ==
  ASSUME NEW p, RawInv(p), ended \in Seq([run : Runs, before : Nat]), NEW m, Place(p, m), m < Len(p.raw)
  PROVE  /\ RawChar(p, m + 1) \/ RawSentinel(p, m + 1)
         /\ RawChar(p, m + 1) => Place(p, m + 1)
         /\ RawSentinel(p, m + 1) => Place(p, m + 2) /\ m + 2 <= Len(p.raw)
<1>1. Len(p.raw) \in Nat /\ m \in 0 .. Len(p.raw) /\ m \in Nat
  BY LenProperties DEF RawInv, Place
<1> DEFINE n == m + 1
<1>2. n \in 1 .. Len(p.raw) /\ n \in 0 .. Len(p.raw) /\ n - 1 = m /\ n + 1 = m + 2 /\ n > 0
  BY <1>1
<1> HIDE DEF n
<1>3. RawChar(p, n) \/ RawSentinel(p, n) \/ (n > 1 /\ RawSentinel(p, m))
  BY <1>2 DEF RawInv
<1>4. ~(n > 1 /\ RawSentinel(p, m))
  <2> SUFFICES ASSUME n > 1, RawSentinel(p, m) PROVE FALSE
    OBVIOUS
  <2>1. m \in 1 .. Len(p.raw) /\ m # 0
    BY <1>1, <1>2
  <2>2. RawChar(p, m) \/ (m >= 2 /\ RawSentinel(p, m - 1))
    BY <2>1 DEF Place
  <2>3. m >= 2 => m > 1
    BY <1>1
  <2> QED BY <2>1, <2>2, <2>3, RawIsOne
<1>5. RawChar(p, n) => Place(p, n)
  BY <1>2 DEF Place
<1>6. RawSentinel(p, n) => Place(p, n + 1) /\ n + 1 <= Len(p.raw)
  <2> SUFFICES ASSUME RawSentinel(p, n) PROVE Place(p, n + 1) /\ n + 1 <= Len(p.raw)
    OBVIOUS
  <2> DEFINE o == n + 1
  <2>1. n + 1 <= Len(p.raw)
    BY DEF RawSentinel
  <2>2. o \in 0 .. Len(p.raw) /\ o >= 2 /\ o - 1 = n
    BY <1>1, <1>2, <2>1
  <2> HIDE DEF o
  <2>3. Place(p, o)
    BY <2>2 DEF Place
  <2> QED BY <2>1, <2>3 DEF o
<1> QED BY <1>2, <1>3, <1>4, <1>5, <1>6 DEF n

\* Where only characters stand, they are those of `chars`.
LEMMA RawRun ==
  ASSUME NEW p, RawInv(p), p.chars \in Seq(Characters), Len(ended) \in Nat,
         NEW m \in 0 .. Len(p.raw), NEW n \in m .. Len(p.raw), \A i \in m + 1 .. n : RawChar(p, i)
  PROVE  /\ p.g[m] \in 0 .. Len(p.chars) /\ p.g[n] \in p.g[m] .. Len(p.chars) /\ p.k[n] = p.k[m]
         /\ Between(p.raw, m, n) = Between(p.chars, p.g[m], p.g[n])
<1> DEFINE counts == {i \in Nat : m + i <= n => p.g[m + i] = p.g[m] + i /\ p.k[m + i] = p.k[m]}
<1>1. Len(p.raw) \in Nat /\ m \in Nat /\ n \in Nat /\ m <= n /\ n <= Len(p.raw) /\ p.raw \in Seq(Characters)
      /\ Len(p.chars) \in Nat
  BY LenProperties DEF RawInv
<1>2. \A i \in 0 .. Len(p.raw) : p.g[i] \in 0 .. Len(p.chars) /\ p.g[i] \in Int
  <2>1. p.g \in [0 .. Len(p.raw) -> 0 .. Len(p.chars)]
    BY DEF RawInv
  <2>2. \A i \in 0 .. Len(p.raw) : p.g[i] \in 0 .. Len(p.chars)
    BY <2>1, Zenon
  <2> QED BY <2>2
<1>3. 0 \in counts
  <2>1. m + 0 = m /\ m \in 0 .. Len(p.raw)
    BY <1>1
  <2> QED BY <1>1, <1>2, <2>1
<1>4. ASSUME NEW i \in Nat, i \in counts PROVE i + 1 \in counts
  <2> SUFFICES ASSUME m + (i + 1) <= n
               PROVE  p.g[m + (i + 1)] = p.g[m] + (i + 1) /\ p.k[m + (i + 1)] = p.k[m]
    OBVIOUS
  <2> DEFINE x == m + (i + 1)
  <2>1. x \in m + 1 .. n /\ x - 1 = m + i /\ m + i <= n
    BY <1>1
  <2>2. p.g[m + i] = p.g[m] + i /\ p.k[m + i] = p.k[m]
    BY <1>4, <2>1
  <2> HIDE DEF x
  <2>3. p.g[x] = p.g[x - 1] + 1 /\ p.k[x] = p.k[x - 1]
    BY <2>1 DEF RawChar
  <2>4. p.g[m] \in Int
    BY <1>2
  <2>5. p.g[x] = p.g[m] + (i + 1) /\ p.k[x] = p.k[m]
    BY <2>1, <2>2, <2>3, <2>4, SMTT(40)
  <2> QED BY <2>5 DEF x
<1>5. \A i \in 0 .. n - m : p.g[m + i] = p.g[m] + i /\ p.k[m + i] = p.k[m]
  <2>1. Nat \subseteq counts
    <3> HIDE DEF counts
    <3> QED BY <1>3, <1>4, Induction
  <2>2. \A i \in 0 .. n - m : i \in Nat /\ m + i <= n
    BY <1>1
  <2> QED BY <2>1, <2>2
<1>6. p.g[n] = p.g[m] + (n - m) /\ p.k[n] = p.k[m]
  <2>1. n - m \in 0 .. n - m /\ m + (n - m) = n
    BY <1>1
  <2> QED BY <1>5, <2>1
<1> DEFINE a == Between(p.raw, m, n)
           u == p.g[m]
           v == p.g[n]
           b == Between(p.chars, u, v)
<1>7. u \in 0 .. Len(p.chars) /\ v \in u .. Len(p.chars)
  <2>1. n \in 0 .. Len(p.raw)
    BY <1>1
  <2> QED BY <1>1, <1>2, <1>6, <2>1
<1>8. a \in Seq(Characters) /\ Len(a) = n - m /\ \A i \in 1 .. n - m : a[i] = p.raw[m + i]
  BY <1>1, BetweenIs
<1> HIDE DEF u, v
<1>9. b \in Seq(Characters) /\ Len(b) = v - u /\ \A i \in 1 .. v - u : b[i] = p.chars[u + i]
  BY <1>7, BetweenIs
<1>10. v - u = n - m
  BY <1>1, <1>6, <1>7 DEF u, v
<1> HIDE DEF a, b
<1>11. ASSUME NEW i \in 1 .. Len(a) PROVE a[i] = b[i]
  <2>1. i \in 1 .. n - m /\ m + i \in m + 1 .. n /\ i \in 0 .. n - m
    BY <1>1, <1>8
  <2>2. p.raw[m + i] = p.chars[p.g[m + i]]
    BY <2>1 DEF RawChar
  <2>3. p.g[m + i] = u + i
    BY <1>5, <2>1 DEF u
  <2> QED BY <1>8, <1>9, <1>10, <2>1, <2>2, <2>3
<1>12. a = b
  BY <1>8, <1>9, <1>10, <1>11, SameText
<1> QED BY <1>6, <1>7, <1>12 DEF a, b, u, v
-----------------------------------------------------------------------------
(* From place to place *)

\* A piece of an ingestion takes the terminal from one place to another.
Link(p, q, m, n) ==
  \/ /\ q.kind = "output" /\ m <= n /\ \A i \in m + 1 .. n : RawChar(p, i)
     /\ q.data = Between(p.raw, m, n)
  \/ q.kind = "run_complete" /\ n = m + 2 /\ RawSentinel(p, m + 1) /\ q.run = p.raw[m + 2]
  \/ q.kind = "record" /\ n = m /\ m >= 2 /\ RawSentinel(p, m - 1) /\ q.run = p.raw[m]
  \/ q.kind = "flush" /\ n = m /\ m = Len(p.raw) /\ ptyExit = "flushing"

\* So do the pieces of a sequence, by the places `z`.
Steps(p, ps, z) ==
  /\ \A i \in 0 .. Len(ps) : Place(p, z[i])
  /\ \A i \in 1 .. Len(ps) : Link(p, ps[i], z[i - 1], z[i])
\* The pieces `ps` take the terminal from the place `x` to the place `y`.
Leads(p, ps, x, y) == \E z : Steps(p, ps, z) /\ z[0] = x /\ z[Len(ps)] = y

\* Nothing leads nowhere.
LEMMA LeadsNowhere ==
  ASSUME NEW p, NEW x, Place(p, x)
  PROVE  Leads(p, <<>>, x, x)
<1> DEFINE z == [i \in {0} |-> x]
<1>1. Len(<<>>) = 0 /\ z[0] = x /\ \A i \in 0 .. 0 : i = 0
  BY EmptySeq
<1> HIDE DEF z
<1>2. Steps(p, <<>>, z)
  BY <1>1 DEF Steps
<1> QED BY <1>1, <1>2 DEF Leads

\* And the other way round.
LEMMA LedNowhere ==
  ASSUME NEW p, NEW x, NEW y, Leads(p, <<>>, x, y)
  PROVE  x = y
<1>1. Len(<<>>) = 0
  BY EmptySeq
<1> QED BY <1>1 DEF Leads

\* One piece.
LEMMA LeadsByOne ==
  ASSUME NEW p, NEW q, NEW x, NEW y, Place(p, x), Place(p, y), Link(p, q, x, y)
  PROVE  Leads(p, <<q>>, x, y)
<1> DEFINE z == [i \in 0 .. 1 |-> IF i = 0 THEN x ELSE y]
<1>1. z[0] = x /\ z[1] = y
  OBVIOUS
<1> HIDE DEF z
<1>2. Len(<<q>>) = 1 /\ <<q>>[1] = q /\ \A i \in 0 .. 1 : i = 0 \/ i = 1
  OBVIOUS
<1>3. \A i \in 0 .. Len(<<q>>) : Place(p, z[i])
  BY <1>1, <1>2
<1>4. \A i \in 1 .. Len(<<q>>) : Link(p, <<q>>[i], z[i - 1], z[i])
  <2>1. \A i \in 1 .. Len(<<q>>) : i = 1 /\ i - 1 = 0
    BY <1>2
  <2> QED BY <1>1, <1>2, <2>1
<1>5. Steps(p, <<q>>, z)
  BY <1>3, <1>4 DEF Steps
<1> QED BY <1>1, <1>2, <1>5 DEF Leads

\* One sequence behind the other.
LEMMA LeadsOn ==
  ASSUME NEW p, NEW S, NEW ps \in Seq(S), NEW qs \in Seq(S), NEW x, NEW y, NEW w, Leads(p, ps, x, y), Leads(p, qs, y, w)
  PROVE  Leads(p, ps \o qs, x, w)
<1> DEFINE n == Len(ps)
           k == Len(qs)
           os == ps \o qs
<1>1. n \in Nat /\ k \in Nat
  BY LenProperties
<1>2. Len(os) = n + k /\ \A i \in 1 .. n + k : os[i] = IF i <= n THEN ps[i] ELSE qs[i - n]
  BY ConcatProperties
<1>3. PICK a : Steps(p, ps, a) /\ a[0] = x /\ a[n] = y
  BY DEF Leads
<1>4. PICK b : Steps(p, qs, b) /\ b[0] = y /\ b[k] = w
  BY DEF Leads
<1>5. /\ \A i \in 0 .. n : Place(p, a[i])
      /\ \A i \in 1 .. n : Link(p, ps[i], a[i - 1], a[i])
      /\ \A i \in 0 .. k : Place(p, b[i])
      /\ \A i \in 1 .. k : Link(p, qs[i], b[i - 1], b[i])
  BY <1>3, <1>4 DEF Steps
<1> HIDE DEF n, k, os
<1> DEFINE z == [i \in 0 .. n + k |-> IF i <= n THEN a[i] ELSE b[i - n]]
<1>6. /\ \A i \in 0 .. n + k : i <= n => z[i] = a[i]
      /\ \A i \in 0 .. n + k : i >= n => z[i] = b[i - n]
  <2>1. ASSUME NEW i \in 0 .. n + k, i >= n PROVE z[i] = b[i - n]
    <3>1. CASE i = n
      <4>1. n - n = 0 /\ n <= n
        BY <1>1
      <4> QED BY <1>3, <1>4, <3>1, <4>1
    <3>2. CASE i # n
      <4>1. ~(i <= n)
        BY <1>1, <2>1, <3>2
      <4> QED BY <4>1
    <3> QED BY <3>1, <3>2
  <2> QED BY <2>1
<1> HIDE DEF z
<1>7. ASSUME NEW i \in 0 .. Len(os) PROVE Place(p, z[i])
  <2>1. i \in 0 .. n + k
    BY <1>2
  <2>2. CASE i <= n
    <3>1. i \in 0 .. n
      BY <1>1, <2>1, <2>2
    <3> QED BY <1>5, <1>6, <2>1, <2>2, <3>1
  <2>3. CASE ~(i <= n)
    <3>1. i >= n /\ i - n \in 0 .. k
      BY <1>1, <2>1, <2>3
    <3> QED BY <1>5, <1>6, <2>1, <3>1
  <2> QED BY <2>2, <2>3
<1>8. ASSUME NEW i \in 1 .. Len(os) PROVE Link(p, os[i], z[i - 1], z[i])
  <2>1. i \in 1 .. n + k /\ i \in 0 .. n + k /\ i - 1 \in 0 .. n + k
    BY <1>1, <1>2
  <2>2. CASE i <= n
    <3>1. i \in 1 .. n /\ i - 1 <= n
      BY <1>1, <2>1, <2>2
    <3>2. os[i] = ps[i] /\ z[i] = a[i] /\ z[i - 1] = a[i - 1]
      BY <1>2, <1>6, <2>1, <2>2, <3>1
    <3> QED BY <1>5, <3>1, <3>2
  <2>3. CASE ~(i <= n)
    <3>1. i >= n /\ i - 1 >= n /\ i - n \in 1 .. k /\ (i - n) - 1 = (i - 1) - n
      BY <1>1, <2>1, <2>3
    <3>2. os[i] = qs[i - n] /\ z[i] = b[i - n] /\ z[i - 1] = b[(i - 1) - n]
      BY <1>2, <1>6, <2>1, <2>3, <3>1
    <3>3. Link(p, qs[i - n], b[(i - n) - 1], b[i - n])
      BY <1>5, <3>1
    <3> QED BY <3>1, <3>2, <3>3
  <2> QED BY <2>2, <2>3
<1>9. z[0] = x /\ z[Len(os)] = w
  <2>1. 0 \in 0 .. n + k /\ 0 <= n /\ n + k \in 0 .. n + k /\ n + k >= n /\ (n + k) - n = k
    BY <1>1
  <2> QED BY <1>2, <1>3, <1>4, <1>6, <2>1
<1>10. Steps(p, os, z)
  BY <1>7, <1>8 DEF Steps
<1>11. Leads(p, os, x, w)
  BY <1>9, <1>10 DEF Leads
<1> QED BY <1>11 DEF os

\* The first piece, and the rest.
LEMMA LeadsFirst ==
  ASSUME NEW p, NEW S, NEW ps \in Seq(S), ps # <<>>, NEW x, NEW w, Leads(p, ps, x, w)
  PROVE  \E y : Place(p, x) /\ Place(p, y) /\ Place(p, w) /\ Link(p, Head(ps), x, y) /\ Leads(p, Tail(ps), y, w)
<1> DEFINE n == Len(ps)
           qs == Tail(ps)
<1>1. n \in Nat /\ n >= 1 /\ Head(ps) = ps[1] /\ Len(qs) = n - 1 /\ \A k \in 1 .. n - 1 : qs[k] = ps[k + 1]
  <2>1. n \in Nat
    BY LenProperties
  <2>2. n # 0
    BY EmptySeq
  <2>3. n >= 1
    BY <2>1, <2>2
  <2> QED BY <2>1, <2>3, HeadTailProperties
<1>2. PICK a : Steps(p, ps, a) /\ a[0] = x /\ a[n] = w
  BY DEF Leads
<1>3. /\ \A i \in 0 .. n : Place(p, a[i])
      /\ \A i \in 1 .. n : Link(p, ps[i], a[i - 1], a[i])
  BY <1>2 DEF Steps
<1> HIDE DEF n, qs
<1> DEFINE z == [i \in 0 .. n - 1 |-> a[i + 1]]
<1>4. \A i \in 0 .. n - 1 : z[i] = a[i + 1]
  OBVIOUS
<1> HIDE DEF z
<1>5. \A i \in 0 .. Len(qs) : Place(p, z[i])
  <2>1. \A i \in 0 .. n - 1 : i + 1 \in 0 .. n
    BY <1>1
  <2> QED BY <1>1, <1>3, <1>4, <2>1
<1>6. ASSUME NEW i \in 1 .. Len(qs) PROVE Link(p, qs[i], z[i - 1], z[i])
  <2>1. i \in 0 .. n - 1 /\ i - 1 \in 0 .. n - 1 /\ i + 1 \in 1 .. n /\ (i - 1) + 1 = (i + 1) - 1 /\ i \in 1 .. n - 1
    BY <1>1
  <2>2. z[i] = a[i + 1] /\ z[i - 1] = a[(i + 1) - 1] /\ qs[i] = ps[i + 1]
    BY <1>1, <1>4, <2>1
  <2> QED BY <1>3, <2>1, <2>2
<1>7. Steps(p, qs, z)
  BY <1>5, <1>6 DEF Steps
<1>8. z[0] = a[1] /\ z[Len(qs)] = w
  <2>1. 0 \in 0 .. n - 1 /\ 0 + 1 = 1 /\ n - 1 \in 0 .. n - 1 /\ (n - 1) + 1 = n
    BY <1>1
  <2> QED BY <1>1, <1>2, <1>4, <2>1
<1>9. Leads(p, qs, a[1], w)
  BY <1>7, <1>8 DEF Leads
<1>10. Link(p, ps[1], x, a[1]) /\ Place(p, x) /\ Place(p, a[1]) /\ Place(p, w)
  <2>1. 1 \in 1 .. n /\ 1 - 1 = 0 /\ 0 \in 0 .. n /\ 1 \in 0 .. n /\ n \in 0 .. n
    BY <1>1
  <2> QED BY <1>2, <1>3, <2>1
<1> QED BY <1>1, <1>9, <1>10 DEF qs
-----------------------------------------------------------------------------
(* What the scanner makes of a part of the story *)

\* A run ends once, and after it was typed.
EndedOnce ==
  /\ ended \in Seq([run : Runs, before : Nat])
  /\ \A k \in 1 .. Len(ended) : ended[k].run \in typed
  /\ \A k, l \in 1 .. Len(ended) : ended[k].run = ended[l].run => k = l

\* At `m`, every typed run that is not active has ended.
Awaits(p, m, act) == \A r \in typed : r \notin act => \E j \in 1 .. p.k[m] : ended[j].run = r

\* The story of the terminal, with what it tells of.
RawStory(p) == RawInv(p) /\ p.chars \in Seq(Characters) /\ EndedOnce /\ typed \subseteq Runs
\* The scanner may be given the part from `b` to `v` of it.
MayScan(p, b, v, final) ==
  /\ RawStory(p) /\ b \in 0 .. Len(p.raw) /\ v \in b .. Len(p.raw) /\ (final => v = Len(p.raw))

\* The numbers of it.
LEMMA MayScanIs ==
  ASSUME NEW p, NEW b, NEW v, NEW final, MayScan(p, b, v, final)
  PROVE  /\ Len(p.raw) \in Nat /\ b \in Nat /\ v \in Nat /\ b <= v /\ v <= Len(p.raw) /\ Len(ended) \in Nat
         /\ p.raw \in Seq(Characters)
         /\ Between(p.raw, b, v) \in Seq(Characters) /\ Len(Between(p.raw, b, v)) = v - b
         /\ \A j \in 1 .. v - b : Between(p.raw, b, v)[j] = p.raw[b + j]
<1>1. p.raw \in Seq(Characters) /\ b \in 0 .. Len(p.raw) /\ v \in b .. Len(p.raw)
      /\ ended \in Seq([run : Runs, before : Nat])
  BY DEF MayScan, RawStory, RawInv, EndedOnce
<1>2. Len(p.raw) \in Nat /\ Len(ended) \in Nat
  BY <1>1, LenProperties
<1>3. /\ Between(p.raw, b, v) \in Seq(Characters) /\ Len(Between(p.raw, b, v)) = v - b
      /\ \A j \in 1 .. v - b : Between(p.raw, b, v)[j] = p.raw[b + j]
  BY <1>1, BetweenIs
<1> QED BY <1>1, <1>2, <1>3

\* The next sentinel is one of an active run.
LEMMA NextIsActive ==
  ASSUME NEW p, RawStory(p), NEW z, Place(p, z), RawSentinel(p, z + 1), NEW act, Awaits(p, z, act)
  PROVE  /\ p.raw[z + 2] \in act /\ p.raw[z + 2] \in Runs /\ p.raw[z + 1] = "esc" /\ z + 2 <= Len(p.raw)
         /\ \A other : other = act \ {p.raw[z + 2]} => Awaits(p, z + 2, other)
<1> DEFINE n == z + 1
           k == p.k[n - 1] + 1
<1>1. Len(p.raw) \in Nat /\ z \in 0 .. Len(p.raw) /\ Len(ended) \in Nat
  BY LenProperties DEF Place, RawStory, RawInv, EndedOnce
<1>2. n - 1 = z /\ n + 1 = z + 2
  BY <1>1
<1> HIDE DEF n
<1>3. /\ k \in 1 .. Len(ended) /\ n + 1 <= Len(p.raw) /\ p.raw[n] = "esc" /\ p.raw[n + 1] = ended[k].run
      /\ p.k[n + 1] = k
  BY DEF RawSentinel, n
<1>4. p.k[z] \in Nat /\ k = p.k[z] + 1
  <2>1. p.k \in [0 .. Len(p.raw) -> 0 .. Len(ended)]
    BY DEF RawStory, RawInv
  <2>2. p.k[z] \in 0 .. Len(ended)
    BY <1>1, <2>1, Zenon
  <2> QED BY <1>2, <2>2
<1> HIDE DEF k
<1>5. ended[k].run \in typed /\ ended[k].run \in Runs
  BY <1>3 DEF RawStory, EndedOnce
<1>6. ended[k].run \in act
  <2> SUFFICES ASSUME ended[k].run \notin act PROVE FALSE
    OBVIOUS
  <2>1. PICK j \in 1 .. p.k[z] : ended[j].run = ended[k].run
    BY <1>5 DEF Awaits
  <2>2. j \in 1 .. Len(ended) /\ j # k
    BY <1>1, <1>3, <1>4
  <2> QED BY <1>3, <2>1, <2>2 DEF RawStory, EndedOnce
<1>7. ASSUME NEW other, other = act \ {ended[k].run} PROVE Awaits(p, z + 2, other)
  <2> SUFFICES ASSUME NEW r \in typed, r \notin other
               PROVE  \E j \in 1 .. p.k[z + 2] : ended[j].run = r
    BY DEF Awaits
  <2>1. p.k[z + 2] = k
    BY <1>2, <1>3
  <2>2. CASE r = ended[k].run
    <3>1. k \in 1 .. p.k[z + 2]
      BY <1>3, <2>1
    <3> QED BY <2>2, <3>1
  <2>3. CASE r # ended[k].run
    <3>1. r \notin act
      BY <1>7, <2>3
    <3>2. PICK j \in 1 .. p.k[z] : ended[j].run = r
      BY <3>1 DEF Awaits
    <3>3. j \in 1 .. p.k[z + 2]
      BY <1>4, <2>1
    <3> QED BY <3>2, <3>3
  <2> QED BY <2>2, <2>3
<1> QED BY <1>2, <1>3, <1>5, <1>6, <1>7 DEF n

\* A scan stops at it, whether it has all of it or only its first character.
LEMMA StopsAtSentinel ==
  ASSUME NEW p, NEW b, NEW v, NEW final, MayScan(p, b, v, final),
         NEW z \in b .. v - 1, Place(p, z), RawSentinel(p, z + 1), NEW act, Awaits(p, z, act),
         NEW i \in 1 .. z - b + 1
  PROVE  z - b + 1 \in Stops(Between(p.raw, b, v), act, i, final)
<1> DEFINE t == Between(p.raw, b, v)
           j == z - b + 1
           r == p.raw[z + 2]
           word == <<"esc", r>>
<1>1. /\ Len(p.raw) \in Nat /\ b \in Nat /\ v \in Nat /\ b <= v /\ v <= Len(p.raw)
      /\ t \in Seq(Characters) /\ Len(t) = v - b /\ \A k \in 1 .. v - b : t[k] = p.raw[b + k]
  BY MayScanIs
<1>2. r \in act /\ r \in Runs /\ p.raw[z + 1] = "esc" /\ z + 2 <= Len(p.raw)
  BY NextIsActive DEF MayScan
<1>3. /\ j \in i .. Len(t) /\ j \in 1 .. v - b /\ b + j = z + 1 /\ z \in Nat /\ j \in 1 .. Len(t) + 1
      /\ z + 2 <= v => j + 1 \in 1 .. v - b /\ b + (j + 1) = z + 2
  BY <1>1
<1> HIDE DEF t, j, r
<1>4. t[j] = "esc"
  BY <1>1, <1>2, <1>3
<1>5. word \in Seq(Characters) /\ Len(word) = 2 /\ word[1] = "esc" /\ word[2] = r /\ Sentinel(r) = word
  <2>1. "esc" \in Characters /\ r \in Characters
    BY <1>2 DEF Characters
  <2> QED BY <2>1 DEF Sentinel
<1> HIDE DEF word
<1>6. CASE z + 2 <= v
  <2>1. t[j + 1] = r
    BY <1>1, <1>3, <1>6 DEF r
  <2>2. ASSUME NEW k \in 1 .. Len(word) PROVE t[j + k - 1] = word[k]
    <3>1. k = 1 \/ k = 2
      BY <1>5
    <3>2. CASE k = 1
      <4>1. j + k - 1 = j
        BY <1>3, <3>2
      <4> QED BY <1>4, <1>5, <3>2, <4>1
    <3>3. CASE k = 2
      <4>1. j + k - 1 = j + 1
        BY <1>3, <3>3
      <4> QED BY <1>5, <2>1, <3>3, <4>1
    <3> QED BY <3>1, <3>2, <3>3
  <2>3. j + Len(word) - 1 <= Len(t)
    BY <1>1, <1>3, <1>5, <1>6
  <2>4. StartsWith(t, j, word)
    BY <1>1, <1>3, <1>5, <2>2, <2>3, StartsAt
  <2>5. Found(t, act, j) # {}
    BY <1>2, <1>5, <2>4 DEF Found
  <2> QED BY <1>3, <2>5 DEF Stops, t, j
<1>7. CASE ~(z + 2 <= v)
  <2>1. ~final /\ j = Len(t)
    <3>1. ~(v = Len(p.raw))
      BY <1>1, <1>2, <1>3, <1>7
    <3>2. z + 1 = v
      BY <1>1, <1>3, <1>7
    <3>3. j = Len(t)
      BY <1>1, <1>3, <3>2
    <3> QED BY <3>1, <3>3 DEF MayScan
  <2> DEFINE rest == Rest(t, j)
  <2>2. rest \in Seq(Characters) /\ Len(rest) = 1 /\ rest[1] = "esc"
    <3>1. /\ Rest(t, j) \in Seq(Characters) /\ Len(Rest(t, j)) = Len(t) - j + 1
          /\ \A k \in 1 .. Len(t) - j + 1 : Rest(t, j)[k] = t[j + k - 1]
      BY <1>1, <1>3, RestOf
    <3>2. Len(t) - j + 1 = 1 /\ j + 1 - 1 = j /\ 1 \in 1 .. 1
      BY <1>1, <1>3, <2>1
    <3> QED BY <1>4, <3>1, <3>2
  <2> HIDE DEF rest
  <2>3. IsPrefix(rest, word)
    <3>1. SubSeq(rest, 1, 1) = <<"esc">> /\ SubSeq(word, 1, 1) = <<"esc">>
      <4>1. 0 \in 0 .. Len(rest) /\ 1 \in 0 .. Len(rest) /\ 0 \in 0 .. Len(word) /\ 1 \in 0 .. Len(word)
        BY <1>5, <2>2
      <4>2. /\ SubSeq(rest, 0 + 1, 1) \in Seq(Characters) /\ Len(SubSeq(rest, 0 + 1, 1)) = 1 - 0
            /\ \A k \in 1 .. 1 - 0 : SubSeq(rest, 0 + 1, 1)[k] = rest[0 + k]
        BY <2>2, <4>1, PartIs
      <4>3. /\ SubSeq(word, 0 + 1, 1) \in Seq(Characters) /\ Len(SubSeq(word, 0 + 1, 1)) = 1 - 0
            /\ \A k \in 1 .. 1 - 0 : SubSeq(word, 0 + 1, 1)[k] = word[0 + k]
        BY <1>5, <4>1, PartIs
      <4>4. <<"esc">> \in Seq(Characters) /\ Len(<<"esc">>) = 1 /\ <<"esc">>[1] = "esc"
        <5>1. "esc" \in Characters
          BY DEF Characters
        <5> QED BY <5>1
      <4>5. 1 - 0 = 1 /\ 0 + 1 = 1 /\ \A k \in 1 .. 1 : k = 1
        OBVIOUS
      <4>6. SubSeq(rest, 1, 1)[1] = "esc" /\ SubSeq(word, 1, 1)[1] = "esc"
            /\ Len(SubSeq(rest, 1, 1)) = 1 /\ Len(SubSeq(word, 1, 1)) = 1
            /\ SubSeq(rest, 1, 1) \in Seq(Characters) /\ SubSeq(word, 1, 1) \in Seq(Characters)
        BY <1>5, <2>2, <4>2, <4>3, <4>5
      <4> QED BY <4>4, <4>5, <4>6, SameText
    <3>2. Len(rest) <= Len(word)
      BY <1>5, <2>2
    <3> QED BY <2>2, <3>1, <3>2 DEF IsPrefix
  <2>4. r \in GoesOn(rest, act)
    <3>1. Len(rest) < Len(word)
      BY <1>5, <2>2
    <3>2. Len(rest) < Len(Sentinel(r)) /\ IsPrefix(rest, Sentinel(r))
      BY <1>5, <2>3, <3>1, Zenon
    <3> QED BY <1>2, <3>2, Zenon DEF GoesOn
  <2>5. GoesOn(Rest(t, j), act) # {}
    BY <2>4 DEF rest
  <2> QED BY <1>3, <2>1, <2>5 DEF Stops, t, j
<1> QED BY <1>6, <1>7

\* Before the first stop only characters stand.
LEMMA CharsUntilStop ==
  ASSUME NEW p, NEW b, NEW v, NEW final, MayScan(p, b, v, final),
         NEW x \in b .. v, Place(p, x), NEW act, Awaits(p, x, act), NEW y \in x .. v,
         \A z \in x .. y - 1 : z - b + 1 \notin Stops(Between(p.raw, b, v), act, x - b + 1, final)
  PROVE  (\A z \in x + 1 .. y : RawChar(p, z)) /\ Place(p, y) /\ Awaits(p, y, act)
<1> DEFINE read == {i \in Nat : x + i <= y =>
                      /\ \A z \in x + 1 .. x + i : RawChar(p, z)
                      /\ Place(p, x + i) /\ Awaits(p, x + i, act)}
<1>1. /\ Len(p.raw) \in Nat /\ b \in Nat /\ v \in Nat /\ b <= v /\ v <= Len(p.raw)
      /\ x \in Nat /\ b <= x /\ y \in Nat /\ x <= y /\ y <= v
  BY MayScanIs
<1>2. 0 \in read
  <2>1. x + 0 = x /\ x + 1 .. x = {}
    BY <1>1
  <2> QED BY <2>1
<1>3. ASSUME NEW i \in Nat, i \in read PROVE i + 1 \in read
  <2> SUFFICES ASSUME x + (i + 1) <= y
               PROVE  /\ \A z \in x + 1 .. x + (i + 1) : RawChar(p, z)
                      /\ Place(p, x + (i + 1)) /\ Awaits(p, x + (i + 1), act)
    OBVIOUS
  <2> DEFINE z == x + i
  <2>1. /\ z \in x .. y - 1 /\ z \in b .. v - 1 /\ z < Len(p.raw) /\ z + 1 = x + (i + 1) /\ x + i <= y
        /\ x - b + 1 \in 1 .. z - b + 1 /\ z \in Nat
    BY <1>1
  <2>2. (\A w \in x + 1 .. z : RawChar(p, w)) /\ Place(p, z) /\ Awaits(p, z, act)
    BY <1>3, <2>1
  <2> HIDE DEF z
  <2>3. z - b + 1 \notin Stops(Between(p.raw, b, v), act, x - b + 1, final)
    BY <2>1
  <2>4. ~RawSentinel(p, z + 1)
    BY <2>1, <2>2, <2>3, StopsAtSentinel
  <2>5. RawChar(p, z + 1) /\ Place(p, z + 1)
    BY <2>1, <2>2, <2>4, PlaceGoesOn DEF MayScan, RawStory, EndedOnce
  <2>6. p.k[z + 1] = p.k[z]
    <3>1. (z + 1) - 1 = z
      BY <2>1
    <3> QED BY <2>5, <3>1 DEF RawChar
  <2>7. Awaits(p, z + 1, act)
    BY <2>2, <2>6 DEF Awaits
  <2>8. ASSUME NEW w \in x + 1 .. z + 1 PROVE RawChar(p, w)
    <3>1. w \in x + 1 .. z \/ w = z + 1
      BY <1>1, <2>1
    <3> QED BY <2>2, <2>5, <3>1
  <2> QED BY <2>1, <2>5, <2>7, <2>8
<1>4. y - x \in read
  <2> HIDE DEF read
  <2>1. y - x \in Nat
    BY <1>1
  <2> QED BY <1>2, <1>3, <2>1, Induction
<1>5. x + (y - x) = y
  BY <1>1
<1> QED BY <1>1, <1>4, <1>5
-----------------------------------------------------------------------------
(* What the scanner makes of a text *)

\* What a scan found from the place `x` on, up to `v`.
Finds(p, x, v, final, res) ==
  /\ res = [pieces |-> res.pieces, active |-> res.active, tail |-> res.tail] /\ res.pieces \in Seq(Piece)
  /\ \E n \in x .. v : /\ Leads(p, res.pieces, x, n) /\ Place(p, n) /\ Awaits(p, n, res.active)
                       /\ res.tail = Between(p.raw, n, v) /\ (final => n = v)

\* Output takes the terminal over characters.
LEMMA LeadsByOutput ==
  ASSUME NEW p, RawStory(p), NEW x, Place(p, x), NEW y \in x .. Len(p.raw), Place(p, y),
         \A z \in x + 1 .. y : RawChar(p, z)
  PROVE  Leads(p, OutputPiece(Between(p.raw, x, y)), x, y) /\ OutputPiece(Between(p.raw, x, y)) \in Seq(Piece)
<1> DEFINE data == Between(p.raw, x, y)
           piece == [kind |-> "output", data |-> data]
<1>1. p.raw \in Seq(Characters) /\ Len(p.raw) \in Nat /\ x \in 0 .. Len(p.raw)
  BY LenProperties DEF RawStory, RawInv, Place
<1>2. data \in Seq(Characters) /\ Len(data) = y - x
  BY <1>1, BetweenIs
<1>3. OutputPiece(data) \in Seq(Piece)
  BY <1>2, OutputIsPiece
<1>4. CASE data = <<>>
  <2>1. y = x
    <3>1. y - x = 0
      BY <1>2, <1>4, EmptySeq
    <3> QED BY <1>1, <3>1
  <2>2. OutputPiece(data) = <<>>
    BY <1>4 DEF OutputPiece
  <2>3. Leads(p, <<>>, x, x)
    BY LeadsNowhere
  <2> HIDE DEF data
  <2> QED BY <1>3, <2>1, <2>2, <2>3 DEF data
<1>5. CASE data # <<>>
  <2>1. OutputPiece(data) = <<piece>>
    BY <1>5 DEF OutputPiece
  <2>2. x <= y
    BY <1>1
  <2>3. piece.kind = "output" /\ piece.data = data
    OBVIOUS
  <2> HIDE DEF piece
  <2>4. Link(p, piece, x, y)
    BY <2>2, <2>3 DEF Link
  <2>5. Leads(p, <<piece>>, x, y)
    BY <2>4, LeadsByOne
  <2> HIDE DEF data
  <2> QED BY <1>3, <2>1, <2>5 DEF data
<1> QED BY <1>4, <1>5

\* A scan without a further sentinel.
LEMMA FindsNoMore ==
  ASSUME NEW p, NEW b, NEW v, NEW final, MayScan(p, b, v, final), NEW x \in b .. v, Place(p, x),
         NEW y \in x .. v, NEW act, Place(p, y), Awaits(p, y, act),
         \A z \in x + 1 .. y : RawChar(p, z), final => y = v
  PROVE  Finds(p, x, v, final, [pieces |-> OutputPiece(Between(p.raw, x, y)), active |-> act,
                                tail |-> Between(p.raw, y, v)])
<1> DEFINE ps == OutputPiece(Between(p.raw, x, y))
           tail == Between(p.raw, y, v)
           res == [pieces |-> ps, active |-> act, tail |-> tail]
<1>1. y \in x .. Len(p.raw) /\ y \in x .. v
  BY MayScanIs
<1>2. Leads(p, ps, x, y) /\ ps \in Seq(Piece)
  BY <1>1, LeadsByOutput DEF MayScan
<1> HIDE DEF ps
<1>3. res.pieces = ps /\ res.active = act /\ res.tail = tail
      /\ res = [pieces |-> res.pieces, active |-> res.active, tail |-> res.tail]
  OBVIOUS
<1> HIDE DEF res
<1>4. Finds(p, x, v, final, res)
  BY <1>1, <1>2, <1>3 DEF Finds, tail
<1> QED BY <1>4 DEF res, ps, tail

\* A sentinel, and what the rest of the scan finds.
LEMMA FindsSentinel ==
  ASSUME NEW p, NEW b, NEW v, NEW final, MayScan(p, b, v, final), NEW x \in b .. v, Place(p, x),
         NEW y \in x .. v, Place(p, y), \A z \in x + 1 .. y : RawChar(p, z),
         RawSentinel(p, y + 1), NEW r \in Runs, r = p.raw[y + 2],
         NEW res, Finds(p, y + 2, v, final, res)
  PROVE  Finds(p, x, v, final,
               [res EXCEPT !.pieces = OutputPiece(Between(p.raw, x, y)) \o <<CompletePiece(r)>> \o @])
<1> DEFINE before == OutputPiece(Between(p.raw, x, y))
           piece == CompletePiece(r)
           first == before \o <<piece>>
           whole == first \o res.pieces
           new == [res EXCEPT !.pieces = whole]
<1>1. /\ b \in Nat /\ v \in Nat /\ b <= x /\ v <= Len(p.raw) /\ Len(p.raw) \in Nat /\ x \in Nat /\ y \in Nat
      /\ x <= y /\ y <= v /\ y \in x .. Len(p.raw)
  BY MayScanIs
<1>2. Leads(p, before, x, y) /\ before \in Seq(Piece)
  BY <1>1, LeadsByOutput DEF MayScan
<1>3. y + 2 <= Len(p.raw) /\ Place(p, y + 2)
  <2>1. y < Len(p.raw)
    <3> DEFINE o == y + 1
    <3>1. o + 1 <= Len(p.raw)
      BY DEF RawSentinel
    <3> QED BY <1>1, <3>1
  <2> QED BY <2>1, PlaceGoesOn DEF MayScan, RawStory, EndedOnce
<1>4. piece.kind = "run_complete" /\ piece.run = r /\ piece \in Piece
  BY DEF CompletePiece, Piece
<1> HIDE DEF before, piece
<1>5. Link(p, piece, y, y + 2)
  BY <1>4 DEF Link
<1>6. Leads(p, <<piece>>, y, y + 2) /\ <<piece>> \in Seq(Piece)
  BY <1>3, <1>4, <1>5, LeadsByOne
<1>7. Leads(p, first, x, y + 2) /\ first \in Seq(Piece)
  <2>1. before \o <<piece>> \in Seq(Piece)
    BY <1>2, <1>6, ConcatProperties
  <2> QED BY <1>2, <1>6, <2>1, LeadsOn
<1> HIDE DEF first
<1>8. PICK n \in y + 2 .. v : /\ Leads(p, res.pieces, y + 2, n) /\ Place(p, n) /\ Awaits(p, n, res.active)
                              /\ res.tail = Between(p.raw, n, v) /\ (final => n = v)
  BY DEF Finds
<1>9. res = [pieces |-> res.pieces, active |-> res.active, tail |-> res.tail] /\ res.pieces \in Seq(Piece)
  BY DEF Finds
<1>10. Leads(p, whole, x, n) /\ whole \in Seq(Piece)
  <2>1. first \o res.pieces \in Seq(Piece)
    BY <1>7, <1>9, ConcatProperties
  <2> QED BY <1>7, <1>8, <1>9, <2>1, LeadsOn
<1> HIDE DEF whole
<1>11. new.pieces = whole /\ new.active = res.active /\ new.tail = res.tail
       /\ new = [pieces |-> new.pieces, active |-> new.active, tail |-> new.tail]
  <2> DEFINE ps == res.pieces
             act == res.active
             tail == res.tail
  <2>1. res = [pieces |-> ps, active |-> act, tail |-> tail]
    BY <1>9
  <2> HIDE DEF ps, act, tail
  <2>2. new = [pieces |-> whole, active |-> act, tail |-> tail]
    BY <2>1
  <2> HIDE DEF new
  <2>3. new.pieces = whole /\ new.active = act /\ new.tail = tail
    BY <2>2
  <2> QED BY <2>2, <2>3 DEF ps, act, tail
<1> HIDE DEF new
<1>12. n \in x .. v
  BY <1>1
<1>13. Finds(p, x, v, final, new)
  BY <1>8, <1>10, <1>11, <1>12 DEF Finds
<1> QED BY <1>13 DEF new, whole, first, before, piece
-----------------------------------------------------------------------------
(* The loop of the scanner *)

\* One round of it, when the later ones do what they should.
LEMMA StepFinds ==
  ASSUME NEW p, NEW b, NEW v, NEW final, MayScan(p, b, v, final),
         NEW x \in b .. v, Place(p, x), NEW act \in SUBSET Runs, Awaits(p, x, act), NEW scan,
         \A n \in x + 1 .. v : \A a \in SUBSET Runs :
           Place(p, n) /\ Awaits(p, n, a) => Finds(p, n, v, final, scan[<<n - b + 1, a>>])
  PROVE  Finds(p, x, v, final, ScanFrom(scan, Between(p.raw, b, v), x - b + 1, act, final))
<1> DEFINE t == Between(p.raw, b, v)
           i == x - b + 1
           stops == Stops(t, act, i, final)
           j == Min(stops)
           r == CHOOSE r \in Found(t, act, j) : TRUE
           y == b + j - 1
<1>1. /\ Len(p.raw) \in Nat /\ b \in Nat /\ v \in Nat /\ b <= v /\ v <= Len(p.raw)
      /\ t \in Seq(Characters) /\ Len(t) = v - b /\ \A k \in 1 .. v - b : t[k] = p.raw[b + k]
  BY MayScanIs
<1>2. x \in Nat /\ b <= x /\ x <= v /\ i \in 1 .. Len(t) + 1 /\ i - 1 = x - b
  BY <1>1
<1>3. CASE stops = {}
  <2>1. ScanFrom(scan, t, i, act, final) = [pieces |-> OutputPiece(Rest(t, i)), active |-> act, tail |-> <<>>]
    BY <1>3 DEF ScanFrom
  <2>2. v \in x .. v /\ \A z \in x .. v - 1 : z - b + 1 \notin stops
    BY <1>1, <1>2, <1>3
  <2>3. (\A z \in x + 1 .. v : RawChar(p, z)) /\ Place(p, v) /\ Awaits(p, v, act)
    BY <2>2, CharsUntilStop
  <2>4. Rest(t, i) = Between(p.raw, x, v) /\ Between(p.raw, v, v) = <<>>
    <3>1. b \in 0 .. Len(p.raw) /\ v \in b .. Len(p.raw) /\ v \in 0 .. Len(p.raw) /\ p.raw \in Seq(Characters)
      BY <1>1, MayScanIs
    <3>2. Between(p.raw, v, v) = <<>>
      BY <3>1, BetweenNothing
    <3>3. CASE x = v
      <4>1. i = Len(t) + 1 /\ i > Len(t)
        BY <1>1, <3>3
      <4>2. Rest(t, i) = <<>>
        <5>1. Len(Rest(t, i)) = Len(t) - i + 1 /\ Rest(t, i) \in Seq(Characters)
          BY <1>1, <1>2, RestOf
        <5>2. Len(t) - i + 1 = 0
          BY <1>1, <4>1
        <5> QED BY <5>1, <5>2, EmptySeq
      <4> QED BY <3>2, <3>3, <4>2
    <3>4. CASE x # v
      <4>1. i \in 1 .. v - b /\ b + i - 1 = x
        BY <1>1, <1>2, <3>4
      <4> HIDE DEF i
      <4>2. Rest(t, i) = Between(p.raw, b + i - 1, v)
        BY <3>1, <4>1, RestOfPart
      <4> QED BY <3>2, <4>1, <4>2
    <3> QED BY <3>3, <3>4
  <2> DEFINE found == [pieces |-> OutputPiece(Between(p.raw, x, v)), active |-> act,
                       tail |-> Between(p.raw, v, v)]
  <2>5. Finds(p, x, v, final, found)
    BY <2>2, <2>3, FindsNoMore
  <2>6. ScanFrom(scan, t, i, act, final) = found
    BY <2>1, <2>4
  <2> HIDE DEF found, t, i
  <2> QED BY <2>5, <2>6 DEF t, i
<1>4. ASSUME stops # {}
      PROVE  /\ j \in i .. Len(t) /\ Len(Sentinel(r)) = 2 /\ y \in x .. v - 1 /\ y - b + 1 = j /\ y \in x .. v
             /\ Found(t, act, j) # {} => r \in act /\ j + 1 <= Len(t) /\ t[j] = "esc" /\ t[j + 1] = r
             /\ (\A z \in x + 1 .. y : RawChar(p, z)) /\ Place(p, y) /\ Awaits(p, y, act)
             /\ Between(t, x - b, y - b) = Between(p.raw, x, y)
             /\ j \in stops
  <2>1. /\ j \in i .. Len(t) /\ Len(Sentinel(r)) = 2
        /\ Found(t, act, j) # {} => r \in act /\ j + 1 <= Len(t) /\ t[j] = "esc" /\ t[j + 1] = r
    BY <1>1, <1>2, <1>4, StopsInside
  <2>2. j \in stops /\ \A q \in stops : j <= q
    <3>1. stops \subseteq Nat
      <4>1. stops \subseteq i .. Len(t)
        BY DEF Stops
      <4> QED BY <1>1, <1>2, <4>1
    <3> HIDE DEF stops
    <3> QED BY <1>4, <3>1, Smallest
  <2> HIDE DEF j
  <2>3. y \in x .. v - 1 /\ y - b + 1 = j /\ y \in x .. v
    BY <1>1, <1>2, <2>1
  <2>4. \A z \in x .. y - 1 : z - b + 1 \notin stops
    <3>1. \A z \in x .. y - 1 : z - b + 1 < j /\ z - b + 1 \in Int
      BY <1>1, <1>2, <2>1, <2>3
    <3>2. \A q \in stops : ~(q < j) \/ q \notin Int
      BY <1>1, <1>2, <2>1, <2>2
    <3> HIDE DEF stops
    <3> QED BY <3>1, <3>2
  <2> HIDE DEF y
  <2>5. (\A z \in x + 1 .. y : RawChar(p, z)) /\ Place(p, y) /\ Awaits(p, y, act)
    BY <2>3, <2>4, CharsUntilStop
  <2>6. Between(t, x - b, y - b) = Between(p.raw, x, y)
    <3> DEFINE k == x - b
               l == y - b
    <3>1. b \in 0 .. Len(p.raw) /\ v \in b .. Len(p.raw) /\ p.raw \in Seq(Characters)
          /\ k \in 0 .. v - b /\ l \in k .. v - b /\ b + k = x /\ b + l = y
      BY <1>1, <1>2, <2>3, MayScanIs
    <3> HIDE DEF k, l
    <3>2. Between(t, k, l) = Between(p.raw, b + k, b + l)
      BY <3>1, BetweenBetween
    <3> QED BY <3>1, <3>2 DEF k, l
  <2> QED BY <2>1, <2>2, <2>3, <2>5, <2>6
<1>5. ASSUME stops # {} PROVE SubSeq(t, i, j - 1) = Between(p.raw, x, y)
  <2>1. i = (x - b) + 1 /\ j - 1 = y - b
    BY <1>1, <1>2, <1>4, <1>5
  <2>2. Between(t, x - b, y - b) = Between(p.raw, x, y)
    BY <1>4, <1>5
  <2> HIDE DEF t, i, j, y
  <2> QED BY <2>1, <2>2 DEF Between
<1>6. CASE stops # {} /\ Found(t, act, j) = {}
  <2>1. ScanFrom(scan, t, i, act, final) =
          [pieces |-> OutputPiece(SubSeq(t, i, j - 1)), active |-> act, tail |-> Rest(t, j)]
    BY <1>6 DEF ScanFrom
  <2>2. ~final
    <3>1. j \in stops
      BY <1>4, <1>6
    <3> HIDE DEF j
    <3> QED BY <1>6, <3>1 DEF Stops
  <2>3. Rest(t, j) = Between(p.raw, y, v)
    <3>1. b \in 0 .. Len(p.raw) /\ v \in b .. Len(p.raw) /\ p.raw \in Seq(Characters)
      BY <1>1, MayScanIs
    <3>2. j \in 1 .. v - b
      BY <1>1, <1>2, <1>4, <1>6
    <3> HIDE DEF j
    <3>3. Rest(t, j) = Between(p.raw, b + j - 1, v)
      BY <3>1, <3>2, RestOfPart
    <3> QED BY <3>3
  <2> DEFINE found == [pieces |-> OutputPiece(Between(p.raw, x, y)), active |-> act,
                       tail |-> Between(p.raw, y, v)]
  <2>4. ScanFrom(scan, t, i, act, final) = found
    <3> HIDE DEF t, i, j, y
    <3> QED BY <1>5, <1>6, <2>1, <2>3
  <2> HIDE DEF y
  <2>5. Finds(p, x, v, final, found)
    BY <1>4, <1>6, <2>2, FindsNoMore
  <2> HIDE DEF found, t, i
  <2> QED BY <2>4, <2>5 DEF t, i
<1>7. CASE stops # {} /\ Found(t, act, j) # {}
  <2> DEFINE later == scan[<<j + Len(Sentinel(r)), act \ {r}>>]
  <2>1. ScanFrom(scan, t, i, act, final) =
          [later EXCEPT !.pieces = OutputPiece(SubSeq(t, i, j - 1)) \o <<CompletePiece(r)>> \o @]
    BY <1>7 DEF ScanFrom
  <2>2. /\ j \in i .. Len(t) /\ Len(Sentinel(r)) = 2 /\ y \in x .. v - 1 /\ y - b + 1 = j /\ y \in x .. v
        /\ r \in act /\ j + 1 <= Len(t) /\ t[j] = "esc" /\ t[j + 1] = r
        /\ (\A z \in x + 1 .. y : RawChar(p, z)) /\ Place(p, y) /\ Awaits(p, y, act)
    BY <1>4, <1>7
  <2>3. SubSeq(t, i, j - 1) = Between(p.raw, x, y)
    BY <1>5, <1>7
  <2> HIDE DEF j, r, y
  <2>4. p.raw[y + 1] = "esc" /\ p.raw[y + 2] = r /\ y < Len(p.raw) /\ y + 2 \in x + 1 .. v
        /\ j + Len(Sentinel(r)) = (y + 2) - b + 1
    <3>1. /\ y \in Nat /\ x <= y /\ y <= v - 1 /\ j = y - b + 1 /\ j + 1 <= v - b
          /\ t[j] = "esc" /\ t[j + 1] = r /\ Len(Sentinel(r)) = 2
      <4> HIDE DEF t
      <4> QED BY <1>1, <1>2, <2>2
    <3> HIDE DEF t
    <3> DEFINE M == Len(p.raw)
    <3>2. M \in Nat /\ b \in Nat /\ v \in Nat /\ x \in Nat /\ b <= x /\ v <= M
      BY <1>1, <1>2
    <3> HIDE DEF M
    <3>3. /\ j \in 1 .. v - b /\ j + 1 \in 1 .. v - b /\ b + j = y + 1 /\ b + (j + 1) = y + 2
          /\ y < M /\ y + 2 \in x + 1 .. v
      BY <3>1, <3>2
    <3>4. j + 2 = (y + 2) - b + 1
      BY <3>1, <3>2
    <3>5. t[j] = p.raw[y + 1] /\ t[j + 1] = p.raw[y + 2]
      BY <1>1, <3>3
    <3> QED BY <3>1, <3>3, <3>4, <3>5 DEF M
  <2>5. r \in Runs
    BY <2>2
  <2>6. RawSentinel(p, y + 1)
    <3>1. RawChar(p, y + 1) \/ RawSentinel(p, y + 1)
      BY <2>2, <2>4, PlaceGoesOn DEF MayScan, RawStory, EndedOnce
    <3>2. (y + 1) + 1 = y + 2
      BY <1>1, <1>2, <2>2
    <3>3. ~RawChar(p, y + 1)
      BY <2>4, <2>5, <3>2 DEF RawChar
    <3> QED BY <3>1, <3>3
  <2>7. Place(p, y + 2)
    BY <2>2, <2>4, <2>6, PlaceGoesOn DEF MayScan, RawStory, EndedOnce
  <2>8. Awaits(p, y + 2, act \ {r})
    <3>1. RawStory(p) /\ act \ {r} = act \ {p.raw[y + 2]}
      BY <2>4 DEF MayScan
    <3> QED BY <2>2, <2>6, <3>1, NextIsActive
  <2> DEFINE n == y + 2
             a == act \ {r}
  <2>9. n \in x + 1 .. v /\ a \in SUBSET Runs /\ Place(p, n) /\ Awaits(p, n, a) /\ n - b + 1 = j + Len(Sentinel(r))
    BY <2>4, <2>7, <2>8
  <2> HIDE DEF n, a, later
  <2>10. Finds(p, n, v, final, scan[<<n - b + 1, a>>])
    BY <2>9
  <2>11. Finds(p, y + 2, v, final, later)
    BY <2>9, <2>10 DEF later, n, a
  <2>12. Finds(p, x, v, final,
               [later EXCEPT !.pieces = OutputPiece(Between(p.raw, x, y)) \o <<CompletePiece(r)>> \o @])
    BY <2>2, <2>4, <2>5, <2>6, <2>11, FindsSentinel
  <2> HIDE DEF t, i
  <2> QED BY <2>1, <2>3, <2>12 DEF t, i
<1> QED BY <1>3, <1>6, <1>7

\* Scan, of any part of the terminal's story that begins at a place: its pieces lead on
\* from there, and what it keeps is what follows; at the end it keeps nothing.
THEOREM ScanFinds ==
  ASSUME NEW p, NEW b, NEW v, NEW final, MayScan(p, b, v, final), Place(p, b),
         NEW act \in SUBSET Runs, Awaits(p, b, act)
  PROVE  Finds(p, b, v, final, Scan(Between(p.raw, b, v), act, final))
<1> DEFINE t == Between(p.raw, b, v)
           scan == ScanLoop(t, final)
           good == {k \in Nat : \A x \in b .. v : \A a \in SUBSET Runs :
                      x + k >= v /\ Place(p, x) /\ Awaits(p, x, a) =>
                        Finds(p, x, v, final, scan[<<x - b + 1, a>>])}
<1>1. /\ Len(p.raw) \in Nat /\ b \in Nat /\ v \in Nat /\ b <= v /\ v <= Len(p.raw)
      /\ t \in Seq(Characters) /\ Len(t) = v - b
  BY MayScanIs
<1>2. ASSUME NEW x \in b .. v, NEW a \in SUBSET Runs, Place(p, x), Awaits(p, x, a),
             \A n \in x + 1 .. v : \A o \in SUBSET Runs :
               Place(p, n) /\ Awaits(p, n, o) => Finds(p, n, v, final, scan[<<n - b + 1, o>>])
      PROVE  Finds(p, x, v, final, scan[<<x - b + 1, a>>])
  <2> HIDE DEF scan
  <2>1. Finds(p, x, v, final, ScanFrom(scan, t, x - b + 1, a, final))
    BY <1>2, StepFinds
  <2>2. scan[<<x - b + 1, a>>] = ScanFrom(scan, t, x - b + 1, a, final)
    <3> DEFINE i == x - b + 1
    <3>1. i \in 1 .. Len(t) + 1
      BY <1>1
    <3> HIDE DEF i, t
    <3>2. ScanLoop(t, final)[<<i, a>>] = ScanFrom(ScanLoop(t, final), t, i, a, final)
      BY <1>1, <3>1, LoopGoesOn
    <3> QED BY <3>2 DEF scan, i
  <2> QED BY <2>1, <2>2
<1> HIDE DEF scan
<1>3. 0 \in good
  <2> SUFFICES ASSUME NEW x \in b .. v, NEW a \in SUBSET Runs, x + 0 >= v, Place(p, x), Awaits(p, x, a)
               PROVE  Finds(p, x, v, final, scan[<<x - b + 1, a>>])
    OBVIOUS
  <2>1. x + 1 .. v = {}
    BY <1>1
  <2> QED BY <1>2, <2>1
<1>4. ASSUME NEW k \in Nat, k \in good PROVE k + 1 \in good
  <2> SUFFICES ASSUME NEW x \in b .. v, NEW a \in SUBSET Runs, x + (k + 1) >= v, Place(p, x), Awaits(p, x, a)
               PROVE  Finds(p, x, v, final, scan[<<x - b + 1, a>>])
    OBVIOUS
  <2>1. \A n \in x + 1 .. v : n + k >= v /\ n \in b .. v
    BY <1>1
  <2>2. \A n \in x + 1 .. v : \A o \in SUBSET Runs :
          Place(p, n) /\ Awaits(p, n, o) => Finds(p, n, v, final, scan[<<n - b + 1, o>>])
    BY <1>4, <2>1
  <2> HIDE DEF good
  <2> QED BY <1>2, <2>2
<1>5. v \in good
  <2> HIDE DEF good
  <2> QED BY <1>1, <1>3, <1>4, Induction
<1>6. Finds(p, b, v, final, scan[<<b - b + 1, act>>])
  <2>1. b \in b .. v /\ b + v >= v
    BY <1>1
  <2> QED BY <1>5, <2>1
<1>7. b - b + 1 = 1
  BY <1>1
<1>8. Scan(t, act, final) = scan[<<1, act>>]
  BY DEF Scan, scan, ScanLoop
<1> QED BY <1>6, <1>7, <1>8
-----------------------------------------------------------------------------
(* The story goes on *)

\* What an ingestion has still to do behind the record that it awaits.
Pending == IF awaited = 0 THEN pieces ELSE PiecesLeft

\* Where a sentinel was printed no echo was under way, and its run has none later.
StandInv(p) ==
  \A k \in 1 .. Len(ended) :
    /\ p.stand[k] \in 0 .. Len(p.chars) /\ p.at[p.stand[k]] = 0 /\ ended[k].before = p.user[p.stand[k]]
    /\ \A i \in 1 .. Len(p.chars) : EchoChar(p, i) /\ p.run[i] = ended[k].run => i <= p.stand[k]

\* What the program printed is still there, and something may have come to it:
TextGrows ==
  /\ text \in Seq(Characters) /\ text' \in Seq(Characters) /\ Len(text) <= Len(text')
  /\ \A i \in 1 .. Len(text) : text'[i] = text[i]
\* so with the runs that ended,
EndedGrows ==
  /\ typed \subseteq typed' /\ Len(ended) \in Nat /\ Len(ended') \in Nat /\ Len(ended) <= Len(ended')
  /\ \A k \in 1 .. Len(ended) : ended'[k] = ended[k]
\* with the characters of a story `p` that goes on as `q`,
CharsGrow(p, q) ==
  /\ q.chars \in Seq(Characters) /\ Len(p.chars) <= Len(q.chars)
  /\ \A i \in 1 .. Len(p.chars) : q.chars[i] = p.chars[i] /\ q.run[i] = p.run[i] /\ q.echo[i] = p.echo[i]
  /\ \A i \in 0 .. Len(p.chars) : q.user[i] = p.user[i] /\ q.at[i] = p.at[i]
\* with those of the terminal,
RawGrows(p, q) ==
  /\ q.raw \in Seq(Characters) /\ Len(p.raw) <= Len(q.raw)
  /\ \A i \in 1 .. Len(p.raw) : q.raw[i] = p.raw[i]
  /\ \A i \in 0 .. Len(p.raw) : q.g[i] = p.g[i] /\ q.k[i] = p.k[i]
  /\ \A k \in 1 .. Len(ended) : q.stand[k] = p.stand[k]
\* and with all of these.
Grows(p, q) == TextGrows /\ EndedGrows /\ CharsGrow(p, q) /\ RawGrows(p, q)

\* A part of a text that grows.
LEMMA BetweenStays ==
  ASSUME NEW S, NEW s \in Seq(S), NEW t \in Seq(S), Len(s) <= Len(t), \A i \in 1 .. Len(s) : t[i] = s[i],
         NEW m \in 0 .. Len(s), NEW n \in m .. Len(s)
  PROVE  Between(t, m, n) = Between(s, m, n)
<1> DEFINE a == Between(s, m, n)
           b == Between(t, m, n)
<1>1. Len(s) \in Nat /\ Len(t) \in Nat /\ m \in Nat /\ n \in Nat /\ m <= n /\ n <= Len(s)
      /\ m \in 0 .. Len(t) /\ n \in m .. Len(t)
  BY LenProperties
<1>2. a \in Seq(S) /\ Len(a) = n - m /\ \A j \in 1 .. n - m : a[j] = s[m + j]
  BY BetweenIs
<1>3. b \in Seq(S) /\ Len(b) = n - m /\ \A j \in 1 .. n - m : b[j] = t[m + j]
  BY <1>1, BetweenIs
<1> HIDE DEF a, b
<1>4. ASSUME NEW j \in 1 .. Len(b) PROVE b[j] = a[j]
  <2>1. j \in 1 .. n - m /\ m + j \in 1 .. Len(s)
    BY <1>1, <1>3
  <2> QED BY <1>2, <1>3, <2>1
<1>5. b = a
  BY <1>2, <1>3, <1>4, SameText
<1> QED BY <1>5 DEF a, b

\* What the program has printed so far was no postamble either.
LEMMA UnmistakableBefore ==
  ASSUME TextGrows, Unmistakable'
  PROVE  Unmistakable
<1> SUFFICES ASSUME NEW i \in 0 .. Len(text), NEW j \in i .. Len(text)
             PROVE  ~PrefixScan(Between(text, i, j), EchoPrefix).complete
  BY DEF Unmistakable
<1>1. text \in Seq(Characters) /\ text' \in Seq(Characters) /\ Len(text) <= Len(text')
      /\ \A n \in 1 .. Len(text) : text'[n] = text[n]
  BY DEF TextGrows
<1>2. i \in 0 .. Len(text') /\ j \in i .. Len(text')
  <2>1. Len(text) \in Nat /\ Len(text') \in Nat
    BY <1>1, LenProperties
  <2> QED BY <1>1, <2>1
<1>3. Between(text', i, j) = Between(text, i, j)
  BY <1>1, BetweenStays
<1>4. ~PrefixScan(Between(text', i, j), EchoPrefix).complete
  BY <1>2 DEF Unmistakable
<1> QED BY <1>3, <1>4

\* A character stays what it is.
LEMMA UserCharStays ==
  ASSUME NEW p, NEW q, PlainInv(p), TextGrows, CharsGrow(p, q), NEW i \in 1 .. Len(p.chars), UserChar(p, i)
  PROVE  UserChar(q, i)'
<1>1. Len(p.chars) \in Nat /\ Len(text) \in Nat /\ i \in 0 .. Len(p.chars) /\ i - 1 \in 0 .. Len(p.chars)
  <2>1. Len(p.chars) \in Nat /\ Len(text) \in Nat
    BY LenProperties DEF PlainInv, TextGrows
  <2> QED BY <2>1
<1>2. p.user[i] \in 0 .. Len(text) /\ p.user[i - 1] \in 0 .. Len(text)
  <2>1. p.user \in [0 .. Len(p.chars) -> 0 .. Len(text)]
    BY DEF PlainInv
  <2> QED BY <1>1, <2>1, Zenon
<1>3. p.at[i - 1] = 0 /\ p.at[i] = 0 /\ p.user[i] = p.user[i - 1] + 1 /\ p.chars[i] = text[p.user[i]]
  BY DEF UserChar
<1>4. p.user[i] \in 1 .. Len(text)
  BY <1>1, <1>2, <1>3
<1>5. text'[p.user[i]] = text[p.user[i]]
  BY <1>4 DEF TextGrows
<1>6. q.at[i - 1] = p.at[i - 1] /\ q.at[i] = p.at[i] /\ q.user[i] = p.user[i] /\ q.user[i - 1] = p.user[i - 1]
      /\ q.chars[i] = p.chars[i]
  BY <1>1 DEF CharsGrow
<1> QED BY <1>3, <1>5, <1>6 DEF UserChar

\* A character of an echo stays one.
LEMMA EchoCharStays ==
  ASSUME NEW p, NEW q, PlainInv(p), ProgramTypes, typed \subseteq typed', CharsGrow(p, q),
         NEW i \in 1 .. Len(p.chars), EchoChar(p, i)
  PROVE  EchoChar(q, i)'
<1> DEFINE n == Len(p.chars)
           l == p.at[i - 1]
           s == i - 1 - l
           r == p.run[i]
           echo == p.echo[i]
<1>1. n \in Nat /\ i \in 0 .. n /\ i - 1 \in 0 .. n /\ Len(q.chars) \in Nat /\ n <= Len(q.chars)
  <2>1. n \in Nat /\ Len(q.chars) \in Nat
    BY LenProperties DEF PlainInv, CharsGrow
  <2> QED BY <2>1 DEF CharsGrow
<1>2. s \in 0 .. n /\ s + Len(echo) <= n /\ Len(echo) \in Nat /\ l \in 0 .. Len(echo) - 1
  BY EchoCharIs
<1>3. EchoAt(p, s, r, echo) /\ p.user[i] = p.user[i - 1]
  BY DEF EchoChar
<1>4. /\ \A j \in 0 .. n : q.user[j] = p.user[j] /\ q.at[j] = p.at[j]
      /\ \A j \in 1 .. n : q.chars[j] = p.chars[j] /\ q.run[j] = p.run[j] /\ q.echo[j] = p.echo[j]
  BY DEF CharsGrow
<1> HIDE DEF n, l, s, r, echo
<1>5. /\ r \in typed /\ echo \in Echoes(r) /\ s >= 0 /\ s + Len(echo) <= n
      /\ p.at[s] = 0 /\ p.at[s + Len(echo)] = 0
      /\ \A j \in 1 .. Len(echo) : /\ p.chars[s + j] = echo[j] /\ p.user[s + j] = p.user[s]
                                   /\ p.run[s + j] = r /\ p.echo[s + j] = echo
                                   /\ j < Len(echo) => p.at[s + j] = j
  BY <1>3 DEF EchoAt, n
<1>6. s + Len(echo) \in 0 .. n /\ \A j \in 1 .. Len(echo) : s + j \in 0 .. n /\ s + j \in 1 .. n
  BY <1>1, <1>2
<1>7. s + Len(echo) <= Len(q.chars)
  BY <1>1, <1>2
<1>8. q.at[s] = 0 /\ q.at[s + Len(echo)] = 0 /\ q.user[s] = p.user[s]
  BY <1>2, <1>4, <1>5, <1>6
<1>9. \A j \in 1 .. Len(echo) : /\ q.chars[s + j] = echo[j] /\ q.user[s + j] = q.user[s]
                                /\ q.run[s + j] = r /\ q.echo[s + j] = echo
                                /\ j < Len(echo) => q.at[s + j] = j
  BY <1>4, <1>5, <1>6, <1>8
<1>10. EchoAt(q, s, r, echo)'
  BY <1>5, <1>7, <1>8, <1>9 DEF EchoAt
<1>11. q.user[i] = q.user[i - 1] /\ q.at[i - 1] = l /\ q.run[i] = r /\ q.echo[i] = echo
  BY <1>1, <1>3, <1>4 DEF l, r, echo, n
<1>12. q.at[i - 1] < Len(q.echo[i]) /\ i - 1 - q.at[i - 1] = s
  BY <1>2, <1>11 DEF s
<1> QED BY <1>10, <1>11, <1>12 DEF EchoChar

\* And has been it before.
LEMMA EchoCharBefore ==
  ASSUME NEW p, NEW q, PlainInv(p), CharsGrow(p, q), NEW i \in 1 .. Len(p.chars), EchoChar(q, i)'
  PROVE  EchoChar(p, i) /\ q.run[i] = p.run[i]
<1>1. Len(p.chars) \in Nat /\ i \in 0 .. Len(p.chars) /\ i - 1 \in 0 .. Len(p.chars)
  <2>1. Len(p.chars) \in Nat
    BY LenProperties DEF PlainInv
  <2> QED BY <2>1
<1>2. q.user[i] = q.user[i - 1]
  BY DEF EchoChar
<1>3. p.user[i] = p.user[i - 1]
  BY <1>1, <1>2 DEF CharsGrow
<1>4. p.user[i - 1] \in Int
  <2>1. p.user \in [0 .. Len(p.chars) -> 0 .. Len(text)]
    BY DEF PlainInv
  <2>2. p.user[i - 1] \in 0 .. Len(text)
    BY <1>1, <2>1, Zenon
  <2> QED BY <2>2
<1>5. ~UserChar(p, i)
  BY <1>3, <1>4 DEF UserChar
<1> QED BY <1>5, CharIsOne DEF CharsGrow

\* A control sequence that has ended, too.
LEMMA WholeStays ==
  ASSUME NEW p, NEW q, PlainInv(p), TextGrows, CharsGrow(p, q), NEW i \in 1 .. Len(p.chars),
         NEW j \in i .. Len(p.chars), Whole(p, i, j)
  PROVE  Whole(q, i, j)'
<1>1. Len(p.chars) \in Nat /\ i - 1 \in 0 .. Len(p.chars) /\ j \in i - 1 .. Len(p.chars)
      /\ \A n \in i .. j : n \in 1 .. Len(p.chars)
  <2>1. Len(p.chars) \in Nat
    BY LenProperties DEF PlainInv
  <2> QED BY <2>1
<1>2. \A n \in i .. j : UserChar(q, n)'
  BY <1>1, UserCharStays DEF Whole
<1>3. Between(q.chars, i - 1, j) = Between(p.chars, i - 1, j)
  <2> DEFINE m == i - 1
  <2>1. m \in 0 .. Len(p.chars) /\ j \in m .. Len(p.chars)
    BY <1>1
  <2> HIDE DEF m
  <2>2. p.chars \in Seq(Characters) /\ q.chars \in Seq(Characters) /\ Len(p.chars) <= Len(q.chars)
        /\ \A n \in 1 .. Len(p.chars) : q.chars[n] = p.chars[n]
    BY DEF PlainInv, CharsGrow
  <2>3. Between(q.chars, m, j) = Between(p.chars, m, j)
    BY <2>1, <2>2, BetweenStays
  <2> QED BY <2>3 DEF m
<1>4. ControlLength(Between(q.chars, i - 1, j), 1) # Partial
  BY <1>3 DEF Whole
<1> QED BY <1>2, <1>4 DEF Whole
-----------------------------------------------------------------------------
(* The terminal goes on *)

\* What a place says of its numbers.
LEMMA RawNumbers ==
  ASSUME NEW p, RawInv(p), p.chars \in Seq(Characters), Len(ended) \in Nat, NEW m \in 0 .. Len(p.raw)
  PROVE  /\ Len(p.raw) \in Nat /\ Len(p.chars) \in Nat /\ p.raw \in Seq(Characters)
         /\ p.g[m] \in 0 .. Len(p.chars) /\ p.k[m] \in 0 .. Len(ended)
<1>1. /\ p.raw \in Seq(Characters) /\ p.g \in [0 .. Len(p.raw) -> 0 .. Len(p.chars)]
      /\ p.k \in [0 .. Len(p.raw) -> 0 .. Len(ended)]
  BY DEF RawInv
<1>2. Len(p.raw) \in Nat /\ Len(p.chars) \in Nat
  BY <1>1, LenProperties
<1>3. p.g[m] \in 0 .. Len(p.chars) /\ p.k[m] \in 0 .. Len(ended)
  BY <1>1, Zenon
<1> QED BY <1>1, <1>2, <1>3

\* What a character of the terminal was it is still.
LEMMA RawCharStays ==
  ASSUME NEW p, NEW q, RawInv(p), p.chars \in Seq(Characters), EndedGrows, CharsGrow(p, q), RawGrows(p, q),
         NEW m \in 1 .. Len(p.raw), RawChar(p, m)
  PROVE  RawChar(q, m)'
<1>1. Len(ended) \in Nat
  BY DEF EndedGrows
<1>2. Len(p.raw) \in Nat /\ Len(q.raw) \in Nat /\ Len(p.raw) <= Len(q.raw)
      /\ m \in 0 .. Len(p.raw) /\ m - 1 \in 0 .. Len(p.raw)
  <2>1. Len(p.raw) \in Nat /\ Len(q.raw) \in Nat /\ Len(p.raw) <= Len(q.raw)
    BY LenProperties DEF RawInv, RawGrows
  <2> QED BY <2>1
<1>3. p.g[m] \in 0 .. Len(p.chars) /\ p.g[m - 1] \in 0 .. Len(p.chars) /\ Len(p.chars) \in Nat
  <2> DEFINE n == m - 1
  <2>1. n \in 0 .. Len(p.raw) /\ m \in 0 .. Len(p.raw)
    BY <1>2
  <2> HIDE DEF n
  <2>2. p.g[n] \in 0 .. Len(p.chars) /\ p.g[m] \in 0 .. Len(p.chars) /\ Len(p.chars) \in Nat
    BY <1>1, <2>1, RawNumbers
  <2> QED BY <2>2 DEF n
<1>4. /\ p.g[m] = p.g[m - 1] + 1 /\ p.k[m] = p.k[m - 1] /\ p.raw[m] = p.chars[p.g[m]]
      /\ p.raw[m] = "esc" => m + 1 <= Len(p.raw) /\ p.raw[m + 1] \notin Runs
  BY DEF RawChar
<1>5. p.g[m] \in 1 .. Len(p.chars)
  BY <1>3, <1>4
<1>6. q.chars[p.g[m]] = p.chars[p.g[m]]
  BY <1>5 DEF CharsGrow
<1>7. q.g[m] = p.g[m] /\ q.g[m - 1] = p.g[m - 1] /\ q.k[m] = p.k[m] /\ q.k[m - 1] = p.k[m - 1] /\ q.raw[m] = p.raw[m]
  BY <1>2 DEF RawGrows
<1>8. q.raw[m] = "esc" => m + 1 <= Len(q.raw) /\ q.raw[m + 1] \notin Runs
  <2> SUFFICES ASSUME q.raw[m] = "esc" PROVE m + 1 <= Len(q.raw) /\ q.raw[m + 1] \notin Runs
    OBVIOUS
  <2>1. m + 1 <= Len(p.raw) /\ p.raw[m + 1] \notin Runs
    BY <1>4, <1>7
  <2>2. m + 1 \in 1 .. Len(p.raw) /\ m + 1 <= Len(q.raw)
    BY <1>2, <2>1
  <2>3. q.raw[m + 1] = p.raw[m + 1]
    BY <2>2 DEF RawGrows
  <2> QED BY <2>1, <2>2, <2>3
<1> QED BY <1>4, <1>6, <1>7, <1>8 DEF RawChar

\* A sentinel stays where it is.
LEMMA RawSentinelStays ==
  ASSUME NEW p, NEW q, RawInv(p), p.chars \in Seq(Characters), EndedGrows, RawGrows(p, q),
         NEW m \in 1 .. Len(p.raw), RawSentinel(p, m)
  PROVE  RawSentinel(q, m)'
<1>1. Len(ended) \in Nat /\ Len(ended') \in Nat /\ Len(ended) <= Len(ended')
      /\ \A k \in 1 .. Len(ended) : ended'[k] = ended[k]
  BY DEF EndedGrows
<1>2. Len(p.raw) \in Nat /\ Len(q.raw) \in Nat /\ Len(p.raw) <= Len(q.raw)
      /\ m \in 0 .. Len(p.raw) /\ m - 1 \in 0 .. Len(p.raw)
  <2>1. Len(p.raw) \in Nat /\ Len(q.raw) \in Nat /\ Len(p.raw) <= Len(q.raw)
    BY LenProperties DEF RawInv, RawGrows
  <2> QED BY <2>1
<1> DEFINE k == p.k[m - 1] + 1
<1>3. /\ k \in 1 .. Len(ended) /\ m + 1 <= Len(p.raw)
      /\ p.raw[m] = "esc" /\ p.raw[m + 1] = ended[k].run
      /\ p.g[m] = p.g[m - 1] /\ p.g[m + 1] = p.g[m - 1]
      /\ p.k[m] = p.k[m - 1] /\ p.k[m + 1] = k /\ p.stand[k] = p.g[m - 1]
  BY DEF RawSentinel
<1>4. m + 1 \in 1 .. Len(p.raw) /\ m + 1 \in 0 .. Len(p.raw) /\ m + 1 <= Len(q.raw)
  BY <1>2, <1>3
<1>5. q.k[m - 1] + 1 = k
  BY <1>2 DEF RawGrows
<1> HIDE DEF k
<1>6. k \in 1 .. Len(ended') /\ ended'[k] = ended[k]
  BY <1>1, <1>3
<1>7. /\ q.raw[m] = p.raw[m] /\ q.raw[m + 1] = p.raw[m + 1] /\ q.stand[k] = p.stand[k]
      /\ q.g[m] = p.g[m] /\ q.g[m - 1] = p.g[m - 1] /\ q.g[m + 1] = p.g[m + 1]
      /\ q.k[m] = p.k[m] /\ q.k[m - 1] = p.k[m - 1] /\ q.k[m + 1] = p.k[m + 1]
  BY <1>2, <1>3, <1>4 DEF RawGrows
<1> QED BY <1>3, <1>4, <1>5, <1>6, <1>7 DEF RawSentinel

\* The story of the terminal grows.
Follows(p, q) ==
  RawInv(p) /\ p.chars \in Seq(Characters) /\ EndedGrows /\ CharsGrow(p, q) /\ RawGrows(p, q)

\* So places stay places,
LEMMA PlaceStays ==
  ASSUME NEW p, NEW q, Follows(p, q), NEW m, Place(p, m)
  PROVE  Place(q, m)'
<1>1. m \in 0 .. Len(p.raw) /\ (m = 0 \/ RawChar(p, m) \/ (m >= 2 /\ RawSentinel(p, m - 1)))
  BY DEF Place
<1>2. Len(p.raw) \in Nat /\ Len(q.raw) \in Nat /\ Len(p.raw) <= Len(q.raw)
  BY LenProperties DEF Follows, RawInv, RawGrows
<1>3. m \in 0 .. Len(q.raw)
  BY <1>1, <1>2
<1>4. CASE m = 0
  BY <1>3, <1>4 DEF Place
<1>5. CASE m # 0 /\ RawChar(p, m)
  <2>1. m \in 1 .. Len(p.raw)
    BY <1>1, <1>2, <1>5
  <2>2. RawChar(q, m)'
    BY <1>5, <2>1, RawCharStays DEF Follows
  <2> QED BY <1>3, <2>2 DEF Place
<1>6. CASE m >= 2 /\ RawSentinel(p, m - 1)
  <2> DEFINE n == m - 1
  <2>1. n \in 1 .. Len(p.raw)
    BY <1>1, <1>2, <1>6
  <2> HIDE DEF n
  <2>2. RawSentinel(p, n)
    BY <1>6 DEF n
  <2>3. RawSentinel(q, n)'
    BY <2>1, <2>2, RawSentinelStays DEF Follows
  <2> QED BY <1>3, <1>6, <2>3 DEF Place, n
<1> QED BY <1>1, <1>4, <1>5, <1>6

\* and pieces lead where they did, unless the flush is among them.
LEMMA LinkStays ==
  ASSUME NEW p, NEW q, Follows(p, q), NEW piece, NEW m, NEW n, Place(p, m), Place(p, n), Link(p, piece, m, n),
         ptyExit = "flushing" => ptyExit' = "flushing" /\ Len(q.raw) = Len(p.raw)
  PROVE  Link(q, piece, m, n)'
<1>1. m \in 0 .. Len(p.raw) /\ n \in 0 .. Len(p.raw) /\ Len(p.raw) \in Nat
  BY LenProperties DEF Place, Follows, RawInv
<1>2. p.raw \in Seq(Characters) /\ q.raw \in Seq(Characters) /\ Len(p.raw) <= Len(q.raw)
      /\ \A i \in 1 .. Len(p.raw) : q.raw[i] = p.raw[i]
  BY DEF Follows, RawInv, RawGrows
<1>3. CASE /\ piece.kind = "output" /\ m <= n /\ \A i \in m + 1 .. n : RawChar(p, i)
           /\ piece.data = Between(p.raw, m, n)
  <2>1. ASSUME NEW i \in m + 1 .. n PROVE RawChar(q, i)'
    <3>1. i \in 1 .. Len(p.raw) /\ RawChar(p, i)
      BY <1>1, <1>3
    <3> QED BY <3>1, RawCharStays DEF Follows
  <2>2. Between(q.raw, m, n) = Between(p.raw, m, n)
    <3>1. n \in m .. Len(p.raw)
      BY <1>1, <1>3
    <3> QED BY <1>1, <1>2, <3>1, BetweenStays
  <2>3. piece.kind = "output" /\ m <= n /\ piece.data = Between(q.raw, m, n)
    BY <1>3, <2>2
  <2> QED BY <2>1, <2>3 DEF Link
<1>4. CASE piece.kind = "run_complete" /\ n = m + 2 /\ RawSentinel(p, m + 1) /\ piece.run = p.raw[m + 2]
  <2> DEFINE o == m + 1
  <2>1. o \in 1 .. Len(p.raw) /\ m + 2 \in 1 .. Len(p.raw)
    BY <1>1, <1>4
  <2> HIDE DEF o
  <2>2. RawSentinel(p, o)
    BY <1>4 DEF o
  <2>3. RawSentinel(q, o)'
    BY <2>1, <2>2, RawSentinelStays DEF Follows
  <2>4. piece.run = q.raw[m + 2]
    BY <1>2, <1>4, <2>1
  <2> QED BY <1>4, <2>3, <2>4 DEF Link, o
<1>5. CASE piece.kind = "record" /\ n = m /\ m >= 2 /\ RawSentinel(p, m - 1) /\ piece.run = p.raw[m]
  <2> DEFINE o == m - 1
  <2>1. o \in 1 .. Len(p.raw) /\ m \in 1 .. Len(p.raw)
    BY <1>1, <1>5
  <2> HIDE DEF o
  <2>2. RawSentinel(p, o)
    BY <1>5 DEF o
  <2>3. RawSentinel(q, o)'
    BY <2>1, <2>2, RawSentinelStays DEF Follows
  <2>4. piece.run = q.raw[m]
    BY <1>2, <1>5, <2>1
  <2> QED BY <1>5, <2>3, <2>4 DEF Link, o
<1>6. CASE piece.kind = "flush" /\ n = m /\ m = Len(p.raw) /\ ptyExit = "flushing"
  BY <1>6 DEF Link
<1> QED BY <1>3, <1>4, <1>5, <1>6 DEF Link

\* Pieces lead where they led.
LEMMA LeadsStay ==
  ASSUME NEW p, NEW q, Follows(p, q), NEW ps, NEW x, NEW y, Leads(p, ps, x, y), Len(ps) \in Nat,
         ptyExit = "flushing" => ptyExit' = "flushing" /\ Len(q.raw) = Len(p.raw)
  PROVE  Leads(q, ps, x, y)'
<1>1. PICK z : Steps(p, ps, z) /\ z[0] = x /\ z[Len(ps)] = y
  BY DEF Leads
<1>2. /\ \A i \in 0 .. Len(ps) : Place(p, z[i])
      /\ \A i \in 1 .. Len(ps) : Link(p, ps[i], z[i - 1], z[i])
  BY <1>1 DEF Steps
<1>3. \A i \in 0 .. Len(ps) : Place(q, z[i])'
  BY <1>2, PlaceStays
<1>4. ASSUME NEW i \in 1 .. Len(ps) PROVE Link(q, ps[i], z[i - 1], z[i])'
  <2>1. Place(p, z[i - 1]) /\ Place(p, z[i]) /\ Link(p, ps[i], z[i - 1], z[i])
    <3>1. i - 1 \in 0 .. Len(ps) /\ i \in 0 .. Len(ps)
      OBVIOUS
    <3> QED BY <1>2, <3>1
  <2> QED BY <2>1, LinkStays
<1>5. Steps(q, ps, z)'
  BY <1>3, <1>4 DEF Steps
<1> QED BY <1>1, <1>5 DEF Leads

\* What has ended at a place has.
LEMMA AwaitsStay ==
  ASSUME NEW p, NEW q, Follows(p, q), NEW m \in 0 .. Len(p.raw), NEW act, Awaits(p, m, act), NEW other,
         act \subseteq other, typed' \ typed \subseteq other
  PROVE  Awaits(q, m, other)'
<1>1. /\ Len(ended) \in Nat /\ \A k \in 1 .. Len(ended) : ended'[k] = ended[k]
      /\ q.k[m] = p.k[m]
  BY DEF Follows, EndedGrows, RawGrows
<1>2. p.k[m] \in 0 .. Len(ended)
  BY <1>1, RawNumbers DEF Follows
<1> SUFFICES ASSUME NEW r \in typed', r \notin other
             PROVE  \E j \in 1 .. q.k[m] : ended'[j].run = r
  BY DEF Awaits
<1>3. r \in typed /\ r \notin act
  OBVIOUS
<1>4. PICK j \in 1 .. p.k[m] : ended[j].run = r
  BY <1>3 DEF Awaits
<1>5. j \in 1 .. Len(ended)
  BY <1>1, <1>2
<1>6. j \in 1 .. q.k[m] /\ ended'[j] = ended[j]
  BY <1>1, <1>5
<1> QED BY <1>4, <1>6
-----------------------------------------------------------------------------
(* The whole story *)

\* The story of the characters goes on with what it says of the new ones,
LEMMA PlainGoesOn ==
  ASSUME NEW p, NEW q, PlainInv(p), ProgramTypes, TextGrows, typed \subseteq typed', CharsGrow(p, q),
         q.user \in [0 .. Len(q.chars) -> 0 .. Len(text')], q.at \in [0 .. Len(q.chars) -> Nat],
         q.user[Len(q.chars)] = Len(text'), q.at[Len(q.chars)] = 0,
         \A i \in Len(p.chars) + 1 .. Len(q.chars) :
           EchoChar(q, i)' \/ (UserChar(q, i)' /\ \E j \in i .. Len(q.chars) : Whole(q, i, j)')
  PROVE  PlainInv(q)'
<1>1. Len(p.chars) \in Nat /\ Len(q.chars) \in Nat /\ Len(p.chars) <= Len(q.chars) /\ q.chars \in Seq(Characters)
  BY LenProperties DEF PlainInv, CharsGrow
<1>2. q.user[0] = 0 /\ q.at[0] = 0
  <2>1. 0 \in 0 .. Len(p.chars)
    BY <1>1
  <2> QED BY <2>1 DEF CharsGrow, PlainInv
<1>3. ASSUME NEW i \in 1 .. Len(q.chars)
      PROVE  EchoChar(q, i)' \/ (UserChar(q, i)' /\ \E j \in i .. Len(q.chars) : Whole(q, i, j)')
  <2>1. CASE i > Len(p.chars)
    <3>1. i \in Len(p.chars) + 1 .. Len(q.chars)
      BY <1>1, <2>1
    <3> QED BY <3>1
  <2>2. CASE ~(i > Len(p.chars))
    <3>1. i \in 1 .. Len(p.chars)
      BY <1>1, <2>2
    <3>2. CASE EchoChar(p, i)
      BY <3>1, <3>2, EchoCharStays
    <3>3. CASE UserChar(p, i) /\ \E j \in i .. Len(p.chars) : Whole(p, i, j)
      <4>1. PICK j \in i .. Len(p.chars) : Whole(p, i, j)
        BY <3>3
      <4>2. Whole(q, i, j)'
        BY <3>1, <4>1, WholeStays
      <4>3. UserChar(q, i)'
        BY <3>1, <3>3, UserCharStays
      <4>4. j \in i .. Len(q.chars)
        BY <1>1, <3>1
      <4> QED BY <4>2, <4>3, <4>4
    <3> QED BY <3>1, <3>2, <3>3 DEF PlainInv
  <2> QED BY <2>1, <2>2
<1> QED BY <1>1, <1>2, <1>3 DEF PlainInv

\* that of the terminal too,
LEMMA RawGoesOn ==
  ASSUME NEW p, NEW q, Follows(p, q),
         q.g \in [0 .. Len(q.raw) -> 0 .. Len(q.chars)], q.k \in [0 .. Len(q.raw) -> 0 .. Len(ended')],
         q.g[Len(q.raw)] = Len(q.chars), q.k[Len(q.raw)] = Len(ended'),
         \A m \in Len(p.raw) + 1 .. Len(q.raw) :
           RawChar(q, m)' \/ RawSentinel(q, m)' \/ (m > 1 /\ RawSentinel(q, m - 1)')
  PROVE  RawInv(q)'
<1>1. Len(p.raw) \in Nat /\ Len(q.raw) \in Nat /\ Len(p.raw) <= Len(q.raw) /\ q.raw \in Seq(Characters)
  BY LenProperties DEF Follows, RawInv, RawGrows
<1>2. q.g[0] = 0 /\ q.k[0] = 0
  <2>1. 0 \in 0 .. Len(p.raw)
    BY <1>1
  <2> QED BY <2>1 DEF Follows, RawGrows, RawInv
<1>3. ASSUME NEW m \in 1 .. Len(q.raw)
      PROVE  RawChar(q, m)' \/ RawSentinel(q, m)' \/ (m > 1 /\ RawSentinel(q, m - 1)')
  <2>1. CASE m > Len(p.raw)
    <3>1. m \in Len(p.raw) + 1 .. Len(q.raw)
      BY <1>1, <2>1
    <3> QED BY <3>1
  <2>2. CASE ~(m > Len(p.raw))
    <3>1. m \in 1 .. Len(p.raw)
      BY <1>1, <2>2
    <3>2. CASE RawChar(p, m)
      BY <3>1, <3>2, RawCharStays DEF Follows
    <3>3. CASE RawSentinel(p, m)
      BY <3>1, <3>3, RawSentinelStays DEF Follows
    <3>4. CASE m > 1 /\ RawSentinel(p, m - 1)
      <4> DEFINE n == m - 1
      <4>1. n \in 1 .. Len(p.raw)
        BY <3>1, <3>4
      <4> HIDE DEF n
      <4>2. RawSentinel(p, n)
        BY <3>4 DEF n
      <4>3. RawSentinel(q, n)'
        BY <4>1, <4>2, RawSentinelStays DEF Follows
      <4> QED BY <3>4, <4>3 DEF n
    <3> QED BY <3>1, <3>2, <3>3, <3>4 DEF Follows, RawInv
  <2> QED BY <2>1, <2>2
<1> QED BY <1>1, <1>2, <1>3 DEF RawInv

\* and that of the sentinels.
LEMMA StandGoesOn ==
  ASSUME NEW p, NEW q, PlainInv(p), StandInv(p), Follows(p, q),
         \A i \in Len(p.chars) + 1 .. Len(q.chars) : \A k \in 1 .. Len(ended) :
           EchoChar(q, i)' => q.run[i] # ended[k].run,
         \A k \in Len(ended) + 1 .. Len(ended') :
           /\ q.stand[k] \in 0 .. Len(q.chars) /\ q.at[q.stand[k]] = 0 /\ ended'[k].before = q.user[q.stand[k]]
           /\ \A i \in 1 .. Len(q.chars) : EchoChar(q, i)' /\ q.run[i] = ended'[k].run => i <= q.stand[k]
  PROVE  StandInv(q)'
<1>1. /\ Len(p.chars) \in Nat /\ Len(q.chars) \in Nat /\ Len(p.chars) <= Len(q.chars)
      /\ Len(ended) \in Nat /\ Len(ended') \in Nat /\ Len(ended) <= Len(ended')
      /\ \A k \in 1 .. Len(ended) : ended'[k] = ended[k] /\ q.stand[k] = p.stand[k]
  BY LenProperties DEF PlainInv, CharsGrow, Follows, EndedGrows, RawGrows
<1>2. ASSUME NEW k \in 1 .. Len(ended)
      PROVE  /\ q.stand[k] \in 0 .. Len(q.chars) /\ q.at[q.stand[k]] = 0 /\ ended'[k].before = q.user[q.stand[k]]
             /\ \A i \in 1 .. Len(q.chars) : EchoChar(q, i)' /\ q.run[i] = ended'[k].run => i <= q.stand[k]
  <2>1. /\ p.stand[k] \in 0 .. Len(p.chars) /\ p.at[p.stand[k]] = 0 /\ ended[k].before = p.user[p.stand[k]]
        /\ \A i \in 1 .. Len(p.chars) : EchoChar(p, i) /\ p.run[i] = ended[k].run => i <= p.stand[k]
    BY DEF StandInv
  <2>2. ended'[k] = ended[k] /\ q.stand[k] = p.stand[k]
    BY <1>1
  <2>3. q.at[p.stand[k]] = p.at[p.stand[k]] /\ q.user[p.stand[k]] = p.user[p.stand[k]]
    BY <2>1 DEF Follows, CharsGrow
  <2>4. p.stand[k] \in 0 .. Len(q.chars)
    BY <1>1, <2>1
  <2>5. ASSUME NEW i \in 1 .. Len(q.chars), EchoChar(q, i)', q.run[i] = ended[k].run
        PROVE  i <= p.stand[k]
    <3>1. CASE i > Len(p.chars)
      <4>1. i \in Len(p.chars) + 1 .. Len(q.chars)
        BY <1>1, <3>1
      <4> QED BY <2>5, <4>1
    <3>2. CASE ~(i > Len(p.chars))
      <4>1. i \in 1 .. Len(p.chars)
        BY <1>1, <3>2
      <4>2. EchoChar(p, i) /\ q.run[i] = p.run[i]
        BY <2>5, <4>1, EchoCharBefore DEF Follows
      <4> QED BY <2>1, <2>5, <4>1, <4>2
    <3> QED BY <3>1, <3>2
  <2> QED BY <2>1, <2>2, <2>3, <2>4, <2>5
<1>3. ASSUME NEW k \in 1 .. Len(ended')
      PROVE  /\ q.stand[k] \in 0 .. Len(q.chars) /\ q.at[q.stand[k]] = 0 /\ ended'[k].before = q.user[q.stand[k]]
             /\ \A i \in 1 .. Len(q.chars) : EchoChar(q, i)' /\ q.run[i] = ended'[k].run => i <= q.stand[k]
  <2>1. k \in 1 .. Len(ended) \/ k \in Len(ended) + 1 .. Len(ended')
    BY <1>1
  <2> QED BY <1>2, <2>1
<1> QED BY <1>3 DEF StandInv

\* The log and the sanitizer hold the story up to `d`, and have got it up to `m`.
Sanitized(p, d, m) ==
  /\ d \in 0 .. p.g[m]
  /\ Outputs(log) = Between(text, 0, p.user[d])
  /\ Keeps(p, d, p.g[m], sanitizer) /\ sanitizer.echoes \in SUBSET Runs
  /\ \A i \in d + 1 .. Len(p.chars) : EchoChar(p, i) => p.run[i] \in sanitizer.echoes
  /\ Awaits(p, m, sanitizer.echoes)
  /\ \A j \in 1 .. p.k[m] : ended[j].run \notin sanitizer.echoes
  /\ \A r \in sanitizer.echoes : \E j \in 1 .. Len(log) : log[j] = [kind |-> "input_run", run |-> r]

\* The scanner has got it up to `n`, and keeps back what it does not know.
ScannedTo(p, n) ==
  /\ Place(p, n) /\ Between(p.raw, n, Len(p.raw)) = scanner.tail \o unread /\ Awaits(p, n, scanner.active)

\* The flush is the last of some pieces.
LastIsFlush(ps) == ps # <<>> /\ \A i \in 1 .. Len(ps) : ps[i].kind = "flush" <=> i = Len(ps)
\* When the terminal is flushed there is a flush to come, as the last, or it has been.
Flushing(p, d) ==
  ptyExit = "flushing" => LastIsFlush(Pending) \/ (Pending = <<>> /\ d = Len(p.chars))

\* The story of all that was printed.
Tale(p) == PlainInv(p) /\ StandInv(p) /\ RawInv(p)
\* How far the host has got with it.
Story(p, d, m, n) ==
  /\ Tale(p) /\ EndedOnce /\ Place(p, m) /\ Sanitized(p, d, m)
  /\ Leads(p, Pending, m, n) /\ ScannedTo(p, n) /\ Flushing(p, d)

\* A step that prints nothing leaves the story what it is.
LEMMA TaleStays ==
  ASSUME NEW p, Tale(p), ProgramTypes, EndedOnce, UNCHANGED <<text, ended>>, typed \subseteq typed'
  PROVE  Tale(p)' /\ Follows(p, p) /\ TextGrows
<1>1. p.chars \in Seq(Characters) /\ p.raw \in Seq(Characters) /\ text \in Seq(Characters)
      /\ ended \in Seq([run : Runs, before : Nat])
  BY DEF Tale, PlainInv, RawInv, ProgramTypes, EndedOnce
<1>2. Len(p.chars) \in Nat /\ Len(p.raw) \in Nat /\ Len(text) \in Nat /\ Len(ended) \in Nat
  BY <1>1, LenProperties
<1>3. TextGrows /\ EndedGrows /\ CharsGrow(p, p) /\ RawGrows(p, p)
  BY <1>1, <1>2 DEF TextGrows, EndedGrows, CharsGrow, RawGrows
<1>4. Follows(p, p)
  BY <1>1, <1>3 DEF Follows, Tale
<1>5. Len(p.chars) + 1 .. Len(p.chars) = {} /\ Len(p.raw) + 1 .. Len(p.raw) = {} /\ Len(ended) + 1 .. Len(ended') = {}
  BY <1>2
<1>6. PlainInv(p)'
  <2>1. /\ p.user \in [0 .. Len(p.chars) -> 0 .. Len(text')] /\ p.at \in [0 .. Len(p.chars) -> Nat]
        /\ p.user[Len(p.chars)] = Len(text') /\ p.at[Len(p.chars)] = 0
    BY DEF Tale, PlainInv
  <2> QED BY <1>3, <1>5, <2>1, PlainGoesOn DEF Tale
<1>7. RawInv(p)'
  <2>1. /\ p.g \in [0 .. Len(p.raw) -> 0 .. Len(p.chars)] /\ p.k \in [0 .. Len(p.raw) -> 0 .. Len(ended')]
        /\ p.g[Len(p.raw)] = Len(p.chars) /\ p.k[Len(p.raw)] = Len(ended')
    BY DEF Tale, RawInv
  <2> QED BY <1>4, <1>5, <2>1, RawGoesOn
<1>8. StandInv(p)'
  BY <1>4, <1>5, StandGoesOn DEF Tale
<1> QED BY <1>3, <1>4, <1>6, <1>7, <1>8 DEF Tale
-----------------------------------------------------------------------------
(* The story goes on as it is *)

\* The rest of a text that grows.
LEMMA BetweenGrows ==
  ASSUME NEW S, NEW s \in Seq(S), NEW t \in Seq(S), NEW m \in 0 .. Len(s)
  PROVE  /\ s \o t \in Seq(S) /\ Len(s \o t) = Len(s) + Len(t)
         /\ \A i \in 1 .. Len(s) : (s \o t)[i] = s[i]
         /\ Between(s \o t, m, Len(s \o t)) = Between(s, m, Len(s)) \o t
<1> DEFINE c == s \o t
           M == Len(s)
           N == Len(t)
           a == Between(c, m, M + N)
           b == Between(s, m, M)
           d == b \o t
<1>1. M \in Nat /\ N \in Nat /\ m \in Nat /\ m <= M
  BY LenProperties
<1>2. c \in Seq(S) /\ Len(c) = M + N
      /\ \A i \in 1 .. M + N : c[i] = IF i <= M THEN s[i] ELSE t[i - M]
  BY ConcatProperties
<1>3. m \in 0 .. Len(c) /\ M + N \in m .. Len(c) /\ M \in m .. Len(s)
  BY <1>1, <1>2
<1>4. a \in Seq(S) /\ Len(a) = M + N - m /\ \A j \in 1 .. M + N - m : a[j] = c[m + j]
  <2> DEFINE L == M + N
  <2>1. c \in Seq(S) /\ m \in 0 .. Len(c) /\ L \in m .. Len(c)
    BY <1>2, <1>3
  <2> HIDE DEF c, L
  <2>2. Between(c, m, L) \in Seq(S) /\ Len(Between(c, m, L)) = L - m
        /\ \A j \in 1 .. L - m : Between(c, m, L)[j] = c[m + j]
    BY <2>1, BetweenIs
  <2> QED BY <2>2 DEF L
<1>5. b \in Seq(S) /\ Len(b) = M - m /\ \A j \in 1 .. M - m : b[j] = s[m + j]
  BY <1>3, BetweenIs
<1> HIDE DEF b
<1>6. d \in Seq(S) /\ Len(d) = (M - m) + N
      /\ \A j \in 1 .. (M - m) + N : d[j] = IF j <= M - m THEN b[j] ELSE t[j - (M - m)]
  <2>1. /\ b \o t \in Seq(S) /\ Len(b \o t) = Len(b) + Len(t)
        /\ \A j \in 1 .. Len(b) + Len(t) : (b \o t)[j] = IF j <= Len(b) THEN b[j] ELSE t[j - Len(b)]
    BY <1>5, ConcatProperties
  <2>2. Len(b) = M - m /\ Len(t) = N
    BY <1>5
  <2> HIDE DEF M, N
  <2>3. d \in Seq(S) /\ Len(d) = (M - m) + N
    BY <2>1, <2>2
  <2> QED BY <2>1, <2>2, <2>3
<1> HIDE DEF a, c, d
<1>7. \A i \in 1 .. M : c[i] = s[i]
  <2> HIDE DEF M, N
  <2> QED BY <1>1, <1>2
<1>8. Len(a) = Len(d) /\ \A j \in 1 .. Len(a) : a[j] = d[j]
  <2> HIDE DEF M, N
  <2>1. Len(a) = Len(d)
    BY <1>1, <1>4, <1>6
  <2>2. ASSUME NEW j \in 1 .. Len(a) PROVE a[j] = d[j]
    <3>1. j \in 1 .. M + N - m /\ j \in 1 .. (M - m) + N /\ m + j \in 1 .. M + N
      BY <1>1, <1>4
    <3>2. CASE j <= M - m
      <4>1. m + j <= M /\ j \in 1 .. M - m
        BY <1>1, <3>1, <3>2
      <4> QED BY <1>2, <1>4, <1>5, <1>6, <3>1, <3>2, <4>1
    <3>3. CASE ~(j <= M - m)
      <4>1. ~(m + j <= M) /\ m + j - M = j - (M - m)
        BY <1>1, <3>1, <3>3
      <4>2. a[j] = c[m + j] /\ c[m + j] = t[m + j - M]
        <5>1. PICK i \in 1 .. M + N : i = m + j
          BY <3>1
        <5>2. ~(i <= M) /\ c[i] = t[i - M]
          BY <1>2, <4>1, <5>1
        <5>3. a[j] = c[m + j]
          BY <1>4, <3>1
        <5>4. i - M = m + j - M
          BY <1>1, <3>1, <5>1
        <5>5. c[m + j] = t[i - M]
          BY <5>1, <5>2, Zenon
        <5> QED BY <5>3, <5>4, <5>5, Zenon
      <4>3. d[j] = t[j - (M - m)]
        BY <1>6, <3>1, <3>3
      <4> QED BY <4>1, <4>2, <4>3
    <3> QED BY <3>2, <3>3
  <2> QED BY <2>1, <2>2
<1>9. a = d
  BY <1>4, <1>6, <1>8, SameText
<1> QED BY <1>2, <1>7, <1>9 DEF a, b, c, d, M, N

\* What the sanitizer keeps it keeps,
LEMMA KeepsStay ==
  ASSUME NEW p, NEW q, PlainInv(p), ProgramTypes, CharsGrow(p, q), TextGrows,
         NEW d, NEW h \in 0 .. Len(p.chars), d \in 0 .. h, Keeps(p, d, h, sanitizer),
         NEW other, sanitizer.echoes \subseteq other,
         sanitizer' = [echoes |-> other, strip |-> sanitizer.strip, tail |-> sanitizer.tail]
  PROVE  Keeps(q, d, h, sanitizer)'
<1> DEFINE N == Len(p.chars)
<1>1. N \in Nat /\ d \in 0 .. N /\ h \in d .. N /\ \A i \in d + 1 .. h : i \in 1 .. N /\ i \in 0 .. N
  <2>1. N \in Nat
    BY LenProperties DEF PlainInv
  <2> HIDE DEF N
  <2>2. h \in 0 .. N
    BY DEF N
  <2> QED BY <2>1, <2>2
<1>2. HeldBack(p, d, h, sanitizer.echoes, sanitizer.tail) /\ StripAt(p, d, sanitizer.strip)
      /\ (sanitizer.strip # NoStrip => d = h)
  BY DEF Keeps
<1>3. /\ sanitizer'.echoes = other /\ sanitizer'.strip = sanitizer.strip /\ sanitizer'.tail = sanitizer.tail
      /\ sanitizer' = [echoes |-> sanitizer'.echoes, strip |-> sanitizer'.strip, tail |-> sanitizer'.tail]
  OBVIOUS
<1>4. Between(q.chars, d, h) = Between(p.chars, d, h)
  <2>1. p.chars \in Seq(Characters) /\ q.chars \in Seq(Characters) /\ Len(p.chars) <= Len(q.chars)
        /\ \A n \in 1 .. Len(p.chars) : q.chars[n] = p.chars[n]
    BY DEF PlainInv, CharsGrow
  <2> QED BY <1>1, <2>1, BetweenStays
<1>5. \A i \in d + 1 .. h : (UserChar(p, i) => UserChar(q, i)') /\ q.at[i] = p.at[i]
  BY <1>1, UserCharStays DEF CharsGrow
<1>6. HeldBack(q, d, h, sanitizer.echoes, sanitizer.tail)'
  <2>1. sanitizer'.tail = Between(q.chars, d, h)
    BY <1>2, <1>3, <1>4 DEF HeldBack
  <2>2. sanitizer'.tail # <<>> => sanitizer'.echoes # {} /\ Len(sanitizer'.tail) < MaxEcho
    BY <1>2, <1>3 DEF HeldBack
  <2>3. (\A i \in d + 1 .. h : UserChar(q, i)') \/ (\A i \in d + 1 .. h : q.at[i] # 0)
    BY <1>2, <1>5 DEF HeldBack
  <2> QED BY <2>1, <2>2, <2>3 DEF HeldBack
<1>7. StripAt(q, d, sanitizer.strip)
  <2>1. q.at[d] = p.at[d]
    BY <1>1 DEF CharsGrow
  <2>2. CASE sanitizer.strip = NoStrip
    BY <1>2, <2>1, <2>2 DEF StripAt
  <2>3. CASE sanitizer.strip # NoStrip
    <3>1. Within(sanitizer.strip, p.run[d], p.at[d])
      BY <1>2, <2>3 DEF StripAt
    <3>2. p.at[d] >= EchoSize /\ EchoSize \in Nat /\ EchoSize >= 1
      BY <3>1, WithinIs, PrefixIs
    <3>3. d # 0
      <4>1. p.at[0] = 0
        BY DEF PlainInv
      <4> QED BY <3>2, <4>1
    <3>4. d \in 1 .. N
      BY <1>1, <3>3
    <3>5. q.run[d] = p.run[d]
      BY <3>4 DEF CharsGrow
    <3> QED BY <2>1, <2>3, <3>1, <3>5 DEF StripAt
  <2> QED BY <2>2, <2>3
<1>8. StripAt(q, d, sanitizer.strip)'
  BY <1>3, <1>7 DEF StripAt
<1> QED BY <1>2, <1>3, <1>6, <1>8 DEF Keeps

\* the log holds what it held,
LEMMA SanitizedStays ==
  ASSUME NEW p, NEW q, Tale(p), ProgramTypes, Follows(p, q), TextGrows,
         NEW d, NEW m, Place(p, m), Sanitized(p, d, m),
         Outputs(log') = Outputs(log), \A j \in 1 .. Len(log) : j \in 1 .. Len(log') /\ log'[j] = log[j],
         NEW other \in SUBSET Runs, sanitizer.echoes \subseteq other,
         sanitizer' = [echoes |-> other, strip |-> sanitizer.strip, tail |-> sanitizer.tail],
         typed' \ typed \subseteq other,
         \A r \in other \ sanitizer.echoes : /\ \A k \in 1 .. Len(ended) : ended[k].run # r
                                             /\ \E j \in 1 .. Len(log') : log'[j] = [kind |-> "input_run", run |-> r],
         \A i \in Len(p.chars) + 1 .. Len(q.chars) : EchoChar(q, i)' => q.run[i] \in other
  PROVE  Sanitized(q, d, m)'
<1> DEFINE h == p.g[m]
<1>1. /\ Len(p.chars) \in Nat /\ h \in 0 .. Len(p.chars) /\ p.k[m] \in 0 .. Len(ended) /\ Len(ended) \in Nat
      /\ m \in 0 .. Len(p.raw)
  BY RawNumbers DEF Follows, EndedGrows, Place
<1>2. q.g[m] = h /\ q.k[m] = p.k[m] /\ \A k \in 1 .. Len(ended) : ended'[k] = ended[k]
  BY <1>1 DEF Follows, RawGrows, EndedGrows
<1>3. /\ d \in 0 .. h /\ Outputs(log) = Between(text, 0, p.user[d])
      /\ Keeps(p, d, h, sanitizer) /\ Awaits(p, m, sanitizer.echoes)
      /\ \A i \in d + 1 .. Len(p.chars) : EchoChar(p, i) => p.run[i] \in sanitizer.echoes
      /\ \A j \in 1 .. p.k[m] : ended[j].run \notin sanitizer.echoes
      /\ \A r \in sanitizer.echoes : \E j \in 1 .. Len(log) : log[j] = [kind |-> "input_run", run |-> r]
  BY DEF Sanitized
<1> HIDE DEF h
<1>4. sanitizer'.echoes = other
  OBVIOUS
<1>5. PlainInv(p) /\ CharsGrow(p, q)
  BY DEF Tale, Follows
<1>6. Keeps(q, d, h, sanitizer)'
  BY <1>1, <1>3, <1>5, KeepsStay
<1>7. Outputs(log') = Between(text', 0, q.user[d])
  <2>1. d \in 0 .. Len(p.chars)
    BY <1>1, <1>3
  <2>2. q.user[d] = p.user[d]
    BY <1>5, <2>1 DEF CharsGrow
  <2>3. p.user[d] \in 0 .. Len(text)
    <3>1. p.user \in [0 .. Len(p.chars) -> 0 .. Len(text)]
      BY <1>5 DEF PlainInv
    <3> QED BY <2>1, <3>1, Zenon
  <2>4. 0 \in 0 .. Len(text)
    <3>1. Len(text) \in Nat
      BY LenProperties DEF ProgramTypes
    <3> QED BY <3>1
  <2>5. Between(text', 0, p.user[d]) = Between(text, 0, p.user[d])
    <3>1. PICK u : u = p.user[d]
      OBVIOUS
    <3>2. u \in 0 .. Len(text)
      BY <2>3, <3>1
    <3>3. text \in Seq(Characters) /\ text' \in Seq(Characters) /\ Len(text) <= Len(text')
          /\ \A i \in 1 .. Len(text) : text'[i] = text[i]
      BY DEF TextGrows
    <3>4. Between(text', 0, u) = Between(text, 0, u)
      BY <2>4, <3>2, <3>3, BetweenStays
    <3> QED BY <3>1, <3>4
  <2> QED BY <1>3, <2>2, <2>5
<1>8. Awaits(q, m, other)'
  BY <1>1, <1>3, AwaitsStay
<1>9. ASSUME NEW i \in d + 1 .. Len(q.chars), EchoChar(q, i)' PROVE q.run[i] \in other
  <2>1. Len(q.chars) \in Nat /\ d \in Nat
    BY <1>3, <1>1, <1>5, LenProperties DEF CharsGrow
  <2>2. CASE i > Len(p.chars)
    <3>1. i \in Len(p.chars) + 1 .. Len(q.chars)
      BY <1>1, <2>1, <2>2
    <3> QED BY <1>9, <3>1
  <2>3. CASE ~(i > Len(p.chars))
    <3>1. i \in 1 .. Len(p.chars) /\ i \in d + 1 .. Len(p.chars)
      BY <1>1, <2>1, <2>3
    <3>2. EchoChar(p, i) /\ q.run[i] = p.run[i]
      BY <1>5, <1>9, <3>1, EchoCharBefore
    <3> QED BY <1>3, <3>1, <3>2
  <2> QED BY <2>2, <2>3
<1>10. ASSUME NEW j \in 1 .. q.k[m] PROVE ended'[j].run \notin other
  <2>1. j \in 1 .. p.k[m] /\ j \in 1 .. Len(ended)
    BY <1>1, <1>2
  <2>2. ended'[j] = ended[j] /\ ended[j].run \notin sanitizer.echoes
    BY <1>2, <1>3, <2>1
  <2> QED BY <2>1, <2>2
<1>11. ASSUME NEW r \in other PROVE \E j \in 1 .. Len(log') : log'[j] = [kind |-> "input_run", run |-> r]
  BY <1>3
<1> QED BY <1>2, <1>3, <1>4, <1>6, <1>7, <1>8, <1>9, <1>10, <1>11 DEF Sanitized

\* the scanner keeps what it kept,
LEMMA ScannedStays ==
  ASSUME NEW p, NEW q, Follows(p, q), NEW n, ScannedTo(p, n),
         NEW more \in Seq(Characters), q.raw = p.raw \o more, unread' = unread \o more,
         scanner.tail \in Seq(Characters), unread \in Seq(Characters),
         NEW other, scanner.active \subseteq other, scanner' = [active |-> other, tail |-> scanner.tail],
         typed' \ typed \subseteq other
  PROVE  ScannedTo(q, n)'
<1>1. Place(p, n) /\ Between(p.raw, n, Len(p.raw)) = scanner.tail \o unread /\ Awaits(p, n, scanner.active)
  BY DEF ScannedTo
<1>2. scanner'.active = other /\ scanner'.tail = scanner.tail
  OBVIOUS
<1>3. Place(q, n)'
  BY <1>1, PlaceStays
<1>4. n \in 0 .. Len(p.raw)
  BY <1>1 DEF Place
<1>5. Awaits(q, n, other)'
  BY <1>1, <1>4, AwaitsStay
<1>6. p.raw \in Seq(Characters)
  BY DEF Follows, RawInv
<1>7. Between(q.raw, n, Len(q.raw)) = Between(p.raw, n, Len(p.raw)) \o more
  BY <1>4, <1>6, BetweenGrows, ZenonT(60)
<1>8. (scanner.tail \o unread) \o more = scanner.tail \o (unread \o more)
  BY TextAssociative
<1> QED BY <1>1, <1>2, <1>3, <1>5, <1>7, <1>8 DEF ScannedTo
-----------------------------------------------------------------------------
(* The pieces that are left *)

\* What is left of the pieces behind the first.
LEMMA LeftIs ==
  ASSUME IInv, pieces # <<>>
  PROVE  /\ PiecesLeft \in Seq(Piece) /\ Tail(pieces) \in Seq(Piece) /\ Len(Tail(pieces)) = Len(pieces) - 1
         /\ \A i \in 1 .. Len(pieces) - 1 : Tail(pieces)[i] = pieces[i + 1]
         /\ Head(pieces).kind # "run_complete" => PiecesLeft = Tail(pieces)
<1>1. pieces \in Seq(Piece) /\ Len(pieces) \in Nat /\ Len(pieces) >= 1
  BY HeadIsPiece DEF IInv, Types
<1>2. Tail(pieces) \in Seq(Piece) /\ Len(Tail(pieces)) = Len(pieces) - 1
      /\ \A i \in 1 .. Len(pieces) - 1 : Tail(pieces)[i] = pieces[i + 1]
  BY <1>1, HeadTailProperties
<1>3. CASE Head(pieces).kind = "run_complete"
  <2> DEFINE record == [kind |-> "record", run |-> Head(pieces).run]
  <2>1. record \in Piece
    <3>1. Head(pieces).run \in Runs
      BY <1>3, HeadIsPiece
    <3> QED BY <3>1 DEF Piece
  <2>2. PiecesLeft = <<record>> \o Tail(pieces)
    BY <1>3 DEF PiecesLeft
  <2> HIDE DEF record
  <2>3. <<record>> \in Seq(Piece)
    BY <2>1
  <2>4. PiecesLeft \in Seq(Piece)
    BY <1>2, <2>2, <2>3, ConcatProperties
  <2> QED BY <1>2, <1>3, <2>4
<1>4. CASE Head(pieces).kind # "run_complete"
  BY <1>2, <1>4 DEF PiecesLeft
<1> QED BY <1>3, <1>4

\* The pieces still to come are pieces.
LEMMA PendingIs ==
  ASSUME IInv
  PROVE  Pending \in Seq(Piece) /\ Len(Pending) \in Nat
<1>1. Pending \in Seq(Piece)
  <2>1. CASE awaited = 0
    BY <2>1 DEF Pending, IInv, Types
  <2>2. CASE awaited # 0
    <3>1. pieces # <<>>
      BY <2>2 DEF IInv, AwaitsHead
    <3> QED BY <2>2, <3>1, LeftIs DEF Pending
  <2> QED BY <2>1, <2>2
<1> QED BY <1>1, LenProperties

\* The flush stays the last piece until it is the only one.
LEMMA FlushStaysLast ==
  ASSUME IInv, pieces # <<>>, LastIsFlush(pieces)
  PROVE  /\ Head(pieces).kind = "flush" => PiecesLeft = <<>>
         /\ Head(pieces).kind # "flush" => LastIsFlush(PiecesLeft)
<1> DEFINE N == Len(pieces)
           q == Tail(pieces)
<1>1. N \in Nat /\ N >= 1 /\ Head(pieces) = pieces[1] /\ \A i \in 1 .. N : pieces[i].kind = "flush" <=> i = N
  BY HeadIsPiece DEF LastIsFlush
<1>2. /\ PiecesLeft \in Seq(Piece) /\ q \in Seq(Piece) /\ Len(q) = N - 1
      /\ \A i \in 1 .. N - 1 : q[i] = pieces[i + 1]
      /\ Head(pieces).kind # "run_complete" => PiecesLeft = q
  BY LeftIs
<1>3. Head(pieces).kind = "flush" <=> N = 1
  <2> HIDE DEF N
  <2>1. 1 \in 1 .. N
    BY <1>1
  <2> QED BY <1>1, <2>1
<1>4. CASE Head(pieces).kind = "flush"
  <2>1. Len(q) = 0 /\ PiecesLeft = q
    BY <1>2, <1>3, <1>4
  <2>2. q = <<>>
    BY <1>2, <2>1, EmptySeq
  <2> QED BY <1>4, <2>1, <2>2
<1>5. CASE Head(pieces).kind = "run_complete"
  <2> DEFINE record == [kind |-> "record", run |-> Head(pieces).run]
  <2>1. PiecesLeft = <<record>> \o q /\ record \in Piece /\ record.kind = "record"
    <3>1. Head(pieces).run \in Runs
      BY <1>5, HeadIsPiece
    <3> QED BY <1>5, <3>1 DEF PiecesLeft, Piece
  <2> HIDE DEF record, q
  <2>2. <<record>> \in Seq(Piece) /\ Len(<<record>>) = 1 /\ <<record>>[1] = record
    BY <2>1
  <2>3. /\ Len(<<record>> \o q) = Len(<<record>>) + Len(q)
        /\ \A i \in 1 .. Len(<<record>>) + Len(q) :
             (<<record>> \o q)[i] = IF i <= Len(<<record>>) THEN <<record>>[i] ELSE q[i - Len(<<record>>)]
    BY <1>2, <2>2, ConcatProperties
  <2> HIDE DEF N
  <2>4. PICK left : left = PiecesLeft
    OBVIOUS
  <2>5. Len(left) = N /\ \A i \in 1 .. N : left[i] = IF i <= 1 THEN record ELSE q[i - 1]
    <3>1. 1 + Len(q) = N
      BY <1>1, <1>2
    <3>2. /\ Len(left) = 1 + Len(q)
          /\ \A i \in 1 .. 1 + Len(q) : left[i] = IF i <= 1 THEN <<record>>[1] ELSE q[i - 1]
      <4>1. left = <<record>> \o q
        BY <2>1, <2>4
      <4>2. \A i \in 1 .. 1 + Len(q) : i <= 1 => i = 1
        BY <1>1, <1>2
      <4> QED BY <2>2, <2>3, <4>1, <4>2
    <3> QED BY <2>2, <3>1, <3>2
  <2>6. ASSUME NEW i \in 1 .. N PROVE left[i].kind = "flush" <=> i = N
    <3>1. CASE i = 1
      BY <1>1, <1>3, <1>5, <2>1, <2>5, <3>1
    <3>2. CASE i # 1
      <4>1. i - 1 \in 1 .. N - 1 /\ (i - 1) + 1 = i /\ ~(i <= 1)
        BY <1>1, <3>2
      <4>2. q[i - 1] = pieces[(i - 1) + 1]
        BY <1>2, <4>1
      <4>3. left[i] = pieces[i]
        BY <2>5, <4>1, <4>2
      <4> QED BY <1>1, <4>3
    <3> QED BY <3>1, <3>2
  <2>7. left # <<>>
    <3>1. Len(left) # 0
      BY <1>1, <2>5
    <3> QED BY <3>1
  <2> QED BY <1>5, <2>4, <2>5, <2>6, <2>7 DEF LastIsFlush
<1>6. CASE Head(pieces).kind \notin {"flush", "run_complete"}
  <2>1. PiecesLeft = q /\ N # 1
    BY <1>2, <1>3, <1>6
  <2> HIDE DEF N, q
  <2>2. ASSUME NEW i \in 1 .. N - 1 PROVE q[i].kind = "flush" <=> i = N - 1
    <3>1. i + 1 \in 1 .. N /\ (i + 1 = N <=> i = N - 1)
      BY <1>1
    <3>2. q[i] = pieces[i + 1]
      BY <1>2
    <3> QED BY <1>1, <3>1, <3>2
  <2>3. q # <<>>
    <3>1. Len(q) # 0
      BY <1>1, <1>2, <2>1
    <3> QED BY <3>1
  <2>4. LastIsFlush(q)
    BY <1>2, <2>2, <2>3 DEF LastIsFlush
  <2> QED BY <1>6, <2>1, <2>4
<1> QED BY <1>4, <1>5, <1>6
-----------------------------------------------------------------------------
(* Steps that leave the ingestion alone *)

\* What the program has printed and typed are what they should be.
LEMMA ProgramIsTyped ==
  ASSUME IInv
  PROVE  /\ ProgramTypes /\ scanner.tail \in Seq(Characters) /\ unread \in Seq(Characters) /\ pieces \in Seq(Piece)
         /\ scanner.active \in SUBSET Runs /\ scanner = [active |-> scanner.active, tail |-> scanner.tail]
BY DEF IInv, Types, ProgramTypes

\* The ends of runs stay what they are.
LEMMA EndedStays ==
  ASSUME EndedOnce, UNCHANGED ended, typed \subseteq typed'
  PROVE  EndedOnce'
BY DEF EndedOnce

\* The parts of a story make one.
LEMMA StoryOf ==
  ASSUME IInv, NEW p, NEW q, NEW d, NEW m, NEW n, Story(p, d, m, n), Tale(q)', EndedOnce', Follows(p, q),
         Sanitized(q, d, m)', ScannedTo(q, n)', Pending' = Pending,
         ptyExit = "flushing" => ptyExit' = "flushing" /\ Len(q.raw) = Len(p.raw),
         ptyExit' = "flushing" => ptyExit = "flushing" /\ Len(q.chars) = Len(p.chars)
  PROVE  Story(q, d, m, n)'
<1>1. Place(q, m)'
  BY PlaceStays DEF Story
<1>2. PICK ps : ps = Pending
  OBVIOUS
<1>3. Leads(p, ps, m, n) /\ Len(ps) \in Nat
  BY <1>2, PendingIs DEF Story
<1>4. Leads(q, ps, m, n)'
  BY <1>3, LeadsStay
<1>5. Leads(q, Pending, m, n)'
  BY <1>2, <1>4 DEF Leads, Steps
<1>6. Flushing(q, d)'
  BY DEF Story, Flushing
<1> QED BY <1>1, <1>5, <1>6 DEF Story

\* A step that has to do with none of it.
LEMMA StoryStays ==
  ASSUME IInv, NEW p, NEW d, NEW m, NEW n, Story(p, d, m, n),
         UNCHANGED <<log, sanitizer, scanner, unread, text, ended, typed>>, Pending' = Pending,
         ptyExit' = ptyExit \/ (ptyExit = "no" /\ ptyExit' = "queued")
  PROVE  Story(p, d, m, n)'
<1>1. /\ Tale(p) /\ EndedOnce /\ Place(p, m) /\ Sanitized(p, d, m) /\ ScannedTo(p, n)
      /\ ProgramTypes /\ scanner.tail \in Seq(Characters) /\ unread \in Seq(Characters)
      /\ scanner = [active |-> scanner.active, tail |-> scanner.tail]
  BY ProgramIsTyped DEF Story
<1>2. Tale(p)' /\ Follows(p, p) /\ TextGrows /\ EndedOnce'
  BY <1>1, TaleStays, EndedStays
<1>3. /\ Len(p.chars) + 1 .. Len(p.chars) = {} /\ typed' \ typed = {}
      /\ p.raw = p.raw \o <<>> /\ unread' = unread \o <<>> /\ <<>> \in Seq(Characters)
  <2>1. p.chars \in Seq(Characters) /\ p.raw \in Seq(Characters)
    BY <1>1 DEF Tale, PlainInv, RawInv
  <2>2. Len(p.chars) \in Nat
    BY <2>1, LenProperties
  <2>3. p.raw \o <<>> = p.raw /\ unread \o <<>> = unread
    BY <1>1, <2>1
  <2> QED BY <2>2, <2>3
<1>4. Sanitized(p, d, m)'
  <2>1. sanitizer = [echoes |-> sanitizer.echoes, strip |-> sanitizer.strip, tail |-> sanitizer.tail]
        /\ sanitizer.echoes \in SUBSET Runs
    BY <1>1 DEF Sanitized, Keeps
  <2>2. \A r \in sanitizer.echoes \ sanitizer.echoes : FALSE
    OBVIOUS
  <2>3. PICK other : other = sanitizer.echoes
    OBVIOUS
  <2>4. /\ sanitizer' = [echoes |-> other, strip |-> sanitizer.strip, tail |-> sanitizer.tail]
        /\ other \in SUBSET Runs /\ sanitizer.echoes \subseteq other /\ typed' \ typed \subseteq other
        /\ other \ sanitizer.echoes = {}
    BY <1>3, <2>1, <2>3
  <2> QED BY <1>1, <1>2, <1>3, <2>4, SanitizedStays
<1>5. ScannedTo(p, n)'
  <2>1. PICK other : other = scanner.active
    OBVIOUS
  <2>2. scanner' = [active |-> other, tail |-> scanner.tail] /\ scanner.active \subseteq other
        /\ typed' \ typed \subseteq other
    BY <1>1, <1>3, <2>1
  <2> QED BY <1>1, <1>2, <1>3, <2>2, ScannedStays
<1> QED BY <1>2, <1>4, <1>5, StoryOf
-----------------------------------------------------------------------------
(* What the log tells *)

\* The records hold the first characters that the program printed.
ToldBy(s) == \E u \in 0 .. Len(text) : Outputs(s) = Between(text, 0, u)

\* The i-th record, the completion of `r`, stands where the k-th run that ended put it.
InPlace(r, i, k) ==
  ended[k].run = r =>
    LET n == Len(Outputs(SubSeq(log, 1, i)))
    IN /\ n <= ended[k].before
       /\ n > ended[k].before - MaxEcho
       /\ Alone(r, i) => n = ended[k].before

\* However much of the log is kept, it holds no more and no less than it should.
LogTells ==
  /\ \A j \in 0 .. Len(log) : ToldBy(SubSeq(log, 1, j))
  /\ \A i \in 1 .. Len(log) : log[i].kind = "exit" => i = Len(log) /\ ptyExit \in {"handled", "reset"}
  /\ \A r \in Runs : \A i \in CompletionsOf(r) : \A k \in DOMAIN ended : InPlace(r, i, k)

\* A run that ends has no completion yet.
EndsAreNew ==
  \A k \in DOMAIN ended' : (k \in DOMAIN ended /\ ended'[k] = ended[k]) \/ CompletionsOf(ended'[k].run) = {}

\* The first records of two logs that agree on them.
LEMMA FirstRecords ==
  ASSUME NEW s, IsSeq(s), NEW t, IsSeq(t), NEW L \in 0 .. Len(s), L <= Len(t),
         \A i \in 1 .. L : t[i] = s[i], NEW j \in 0 .. L
  PROVE  Outputs(SubSeq(t, 1, j)) = Outputs(SubSeq(s, 1, j))
<1> DEFINE a == SubSeq(s, 1, j)
           b == SubSeq(t, 1, j)
<1>1. Len(s) \in Nat /\ Len(t) \in Nat
  BY SeqShape
<1>2. j \in Nat /\ j \in 0 .. Len(s) /\ j \in 0 .. Len(t) /\ \A i \in 1 .. j : i \in 1 .. L
  BY <1>1
<1>3. Len(a) = j /\ \A i \in 1 .. j : a[i] = s[i]
  BY <1>2, SeqCuts
<1>4. Len(b) = j /\ \A i \in 1 .. j : b[i] = t[i]
  BY <1>2, SeqCuts
<1> HIDE DEF a, b
<1>5. \A i \in 1 .. Len(a) : b[i] = a[i]
  BY <1>2, <1>3, <1>4
<1>6. Outputs(a) = Outputs(b)
  BY <1>2, <1>3, <1>4, <1>5, OutputsSame
<1> QED BY <1>6 DEF a, b

\* What the records tell that stay.
LEMMA RecordsTell ==
  ASSUME IsSeq(log), IsSeq(log'), LogTells, NEW L \in 0 .. Len(log), L <= Len(log'),
         \A i \in 1 .. L : log'[i] = log[i], TextGrows, EndsAreNew
  PROVE  /\ \A j \in 0 .. L : ToldBy(SubSeq(log, 1, j))'
         /\ \A r \in Runs : \A i \in CompletionsOf(r)' : i <= L => \A k \in DOMAIN ended' : InPlace(r, i, k)'
<1>1. Len(log) \in Nat /\ Len(log') \in Nat /\ DOMAIN log = 1 .. Len(log) /\ DOMAIN log' = 1 .. Len(log')
  BY SeqShape
<1>2. ASSUME NEW j \in 0 .. L PROVE ToldBy(SubSeq(log, 1, j))'
  <2>1. j \in 0 .. Len(log)
    BY <1>1
  <2>2. PICK u \in 0 .. Len(text) : Outputs(SubSeq(log, 1, j)) = Between(text, 0, u)
    BY <2>1 DEF LogTells, ToldBy
  <2>3. Outputs(SubSeq(log', 1, j)) = Outputs(SubSeq(log, 1, j))
    BY FirstRecords
  <2>4. /\ text \in Seq(Characters) /\ text' \in Seq(Characters) /\ Len(text) <= Len(text')
        /\ \A i \in 1 .. Len(text) : text'[i] = text[i]
    BY DEF TextGrows
  <2>5. u \in 0 .. Len(text') /\ 0 \in 0 .. Len(text)
    <3>1. Len(text) \in Nat /\ Len(text') \in Nat
      BY <2>4, LenProperties
    <3> QED BY <2>4, <3>1
  <2>6. Between(text', 0, u) = Between(text, 0, u)
    BY <2>4, <2>5, BetweenStays
  <2> QED BY <2>2, <2>3, <2>5, <2>6 DEF ToldBy
<1>3. ASSUME NEW r \in Runs, NEW i \in CompletionsOf(r)', i <= L, NEW k \in DOMAIN ended', ended'[k].run = r
      PROVE  LET n == Len(Outputs(SubSeq(log', 1, i)))
             IN /\ n <= ended'[k].before
                /\ n > ended'[k].before - MaxEcho
                /\ Alone(r, i)' => n = ended'[k].before
  <2>1. i \in 1 .. Len(log') /\ log'[i].kind = "run_complete" /\ log'[i].run = r
    BY <1>1 DEF CompletionsOf
  <2>2. i \in 1 .. L /\ i \in 0 .. L /\ i \in 1 .. Len(log)
    BY <1>1, <1>3, <2>1
  <2>3. i \in CompletionsOf(r)
    BY <1>1, <2>1, <2>2 DEF CompletionsOf
  <2>4. k \in DOMAIN ended /\ ended'[k] = ended[k]
    BY <1>3, <2>3 DEF EndsAreNew
  <2>5. InPlace(r, i, k)
    BY <2>3, <2>4 DEF LogTells
  <2>6. Outputs(SubSeq(log', 1, i)) = Outputs(SubSeq(log, 1, i))
    BY <2>2, FirstRecords
  <2>7. Alone(r, i)' => Alone(r, i)
    <3>1. \A j \in 1 .. i : j \in 1 .. L
      BY <1>1, <2>2
    <3> QED BY <3>1 DEF Alone
  <2> QED BY <1>3, <2>4, <2>5, <2>6, <2>7 DEF InPlace
<1>4. \A r \in Runs : \A i \in CompletionsOf(r)' : i <= L => \A k \in DOMAIN ended' : InPlace(r, i, k)'
  BY <1>3 DEF InPlace
<1> QED BY <1>2, <1>4

\* A step that appends nothing, but may cut records off.
LEMMA ShorterLogTells ==
  ASSUME IsSeq(log), IsSeq(log'), LogTells, Len(log') <= Len(log), \A i \in 1 .. Len(log') : log'[i] = log[i],
         TextGrows, EndsAreNew, ptyExit \in {"handled", "reset"} => ptyExit' \in {"handled", "reset"}
  PROVE  LogTells'
<1>1. Len(log) \in Nat /\ Len(log') \in Nat /\ DOMAIN log' = 1 .. Len(log')
  BY SeqShape
<1>2. PICK L : L = Len(log')
  OBVIOUS
<1>3. L \in 0 .. Len(log) /\ L <= Len(log') /\ \A i \in 1 .. L : log'[i] = log[i]
  BY <1>1, <1>2
<1>4. /\ \A j \in 0 .. L : ToldBy(SubSeq(log, 1, j))'
      /\ \A r \in Runs : \A i \in CompletionsOf(r)' : i <= L => \A k \in DOMAIN ended' : InPlace(r, i, k)'
  BY <1>3, RecordsTell
<1>5. \A r \in Runs : \A i \in CompletionsOf(r)' : i <= L
  BY <1>1, <1>2 DEF CompletionsOf
<1>6. ASSUME NEW i \in 1 .. Len(log'), log'[i].kind = "exit"
      PROVE  i = Len(log') /\ ptyExit' \in {"handled", "reset"}
  <2>1. i \in 1 .. Len(log) /\ log[i].kind = "exit"
    BY <1>1, <1>6
  <2>2. i = Len(log) /\ ptyExit \in {"handled", "reset"}
    BY <2>1 DEF LogTells
  <2>3. i = Len(log')
    <3> DEFINE a == Len(log)
               b == Len(log')
    <3>1. a \in Nat /\ b \in Nat /\ b <= a /\ i \in 1 .. b /\ i = a
      BY <1>1, <2>2
    <3> HIDE DEF a, b
    <3>2. i = b
      BY <3>1
    <3> QED BY <3>2 DEF b
  <2> QED BY <2>2, <2>3
<1> QED BY <1>2, <1>4, <1>5, <1>6 DEF LogTells

\* An append.
LEMMA LongerLogTells ==
  ASSUME IInv, LogTells, NEW record, ~poisoned, Enqueue(record),
         UNCHANGED <<landed, poisoned, text, ended>>, ptyExit \notin {"handled", "reset"},
         record.kind = "exit" => ptyExit' \in {"handled", "reset"},
         NEW u \in 0 .. Len(text), Outputs(log) \o OutputOf(record) = Between(text, 0, u),
         NEW newest, newest = Len(log) + 1,
         \A r \in Runs : newest \in CompletionsOf(r)' => \A k \in DOMAIN ended' : InPlace(r, newest, k)'
  PROVE  LogTells' /\ Outputs(log') = Between(text, 0, u)
<1>1. LogTypes /\ text \in Seq(Characters)
  BY DEF IInv, Types, LogTypes
<1>2. /\ LogTypes' /\ Len(log) \in Nat /\ DOMAIN log' = 1 .. Len(log')
      /\ Len(log') = Len(log) + 1 /\ log'[Len(log) + 1] = record /\ Len(log') \in Nat
      /\ \A i \in 1 .. Len(log) : log'[i] = log[i]
  BY <1>1, LogGrows
<1>3. IsSeq(log) /\ IsSeq(log')
  BY <1>1, <1>2 DEF LogTypes
<1>4. Outputs(log') = Between(text, 0, u)
  <2>1. Outputs(log') = Outputs(log) \o OutputOf(log'[Len(log) + 1])
    BY <1>2, OutputsGrow
  <2> QED BY <1>2, <2>1
<1>5. PICK L : L = Len(log)
  OBVIOUS
<1>6. L \in 0 .. Len(log) /\ L <= Len(log') /\ \A i \in 1 .. L : log'[i] = log[i]
  BY <1>2, <1>5
<1>7. TextGrows /\ EndsAreNew
  <2>1. Len(text) \in Nat
    BY <1>1, LenProperties
  <2> QED BY <1>1, <2>1 DEF TextGrows, EndsAreNew
<1>8. /\ \A j \in 0 .. L : ToldBy(SubSeq(log, 1, j))'
      /\ \A r \in Runs : \A i \in CompletionsOf(r)' : i <= L => \A k \in DOMAIN ended' : InPlace(r, i, k)'
  BY <1>3, <1>6, <1>7, RecordsTell
<1>9. ASSUME NEW j \in 0 .. Len(log') PROVE ToldBy(SubSeq(log, 1, j))'
  <2>1. CASE j \in 0 .. L
    BY <1>8, <2>1
  <2>2. CASE j \notin 0 .. L
    <3>1. j = Len(log')
      BY <1>2, <1>5, <2>2
    <3>2. PICK s : s = SubSeq(log', 1, j)
      OBVIOUS
    <3>3. Len(s) = Len(log') /\ \A i \in 1 .. Len(s) : log'[i] = s[i]
      BY <1>2, <1>3, <3>1, <3>2, SeqCuts
    <3>4. Outputs(s) = Outputs(log')
      BY <1>2, <3>3, OutputsSame
    <3> QED BY <1>4, <3>2, <3>4 DEF ToldBy
  <2> QED BY <2>1, <2>2
<1>10. ASSUME NEW r \in Runs, NEW j \in CompletionsOf(r)', NEW k \in DOMAIN ended' PROVE InPlace(r, j, k)'
  <2>1. j \in 1 .. Len(log')
    BY <1>2 DEF CompletionsOf
  <2>2. CASE j <= L
    BY <1>8, <2>2
  <2>3. CASE ~(j <= L)
    <3>1. j = newest
      BY <1>2, <1>5, <2>1, <2>3
    <3> QED BY <3>1
  <2> QED BY <2>2, <2>3
<1>11. ASSUME NEW j \in 1 .. Len(log'), log'[j].kind = "exit"
       PROVE  j = Len(log') /\ ptyExit' \in {"handled", "reset"}
  <2>1. CASE j \in 1 .. Len(log)
    BY <1>2, <1>11, <2>1 DEF LogTells
  <2>2. CASE j \notin 1 .. Len(log)
    <3>1. j = Len(log) + 1
      BY <1>2, <2>2
    <3> QED BY <1>2, <1>11, <3>1
  <2> QED BY <2>1, <2>2
<1> QED BY <1>4, <1>9, <1>10, <1>11 DEF LogTells
-----------------------------------------------------------------------------
(* A run begins *)

\* The numbers of what the log holds.
LEMMA HeldIs ==
  ASSUME NEW p, NEW d, NEW m, ProgramTypes, Tale(p), EndedOnce, Place(p, m), Sanitized(p, d, m)
  PROVE  /\ Len(p.chars) \in Nat /\ Len(p.raw) \in Nat /\ Len(text) \in Nat /\ Len(ended) \in Nat
         /\ p.chars \in Seq(Characters) /\ p.raw \in Seq(Characters) /\ text \in Seq(Characters)
         /\ m \in 0 .. Len(p.raw) /\ p.k[m] \in 0 .. Len(ended)
         /\ p.g[m] \in 0 .. Len(p.chars) /\ d \in 0 .. p.g[m] /\ d \in 0 .. Len(p.chars)
         /\ p.user[d] \in 0 .. Len(text) /\ Outputs(log) = Between(text, 0, p.user[d])
         /\ Outputs(log) \in Seq(Characters) /\ Len(Outputs(log)) = p.user[d]
<1>1. PlainInv(p) /\ RawInv(p) /\ p.chars \in Seq(Characters) /\ text \in Seq(Characters)
  BY DEF Tale, PlainInv, ProgramTypes
<1>2. m \in 0 .. Len(p.raw) /\ Len(ended) \in Nat
  BY LenProperties DEF Place, EndedOnce
<1>3. Len(p.raw) \in Nat /\ Len(p.chars) \in Nat /\ p.raw \in Seq(Characters)
      /\ p.g[m] \in 0 .. Len(p.chars) /\ p.k[m] \in 0 .. Len(ended) /\ Len(text) \in Nat
  BY <1>1, <1>2, RawNumbers, LenProperties
<1>4. d \in 0 .. p.g[m] /\ Outputs(log) = Between(text, 0, p.user[d])
  BY DEF Sanitized
<1>5. d \in 0 .. Len(p.chars)
  BY <1>3, <1>4
<1>6. PICK u : u = p.user[d]
  OBVIOUS
<1>7. u \in 0 .. Len(text)
  <2>1. p.user \in [0 .. Len(p.chars) -> 0 .. Len(text)]
    BY <1>1 DEF PlainInv
  <2> QED BY <1>5, <1>6, <2>1, Zenon
<1>8. Between(text, 0, u) \in Seq(Characters) /\ Len(Between(text, 0, u)) = u
  <2>1. 0 \in 0 .. Len(text) /\ u - 0 = u
    BY <1>3, <1>7
  <2> QED BY <1>1, <1>7, <2>1, BetweenIs
<1> QED BY <1>1, <1>2, <1>3, <1>4, <1>5, <1>6, <1>7, <1>8

\* A record without output.
LEMMA NothingMoreHeld ==
  ASSUME NEW record, record.kind # "output", Outputs(log) \in Seq(Characters)
  PROVE  Outputs(log) \o OutputOf(record) = Outputs(log)
BY DEF OutputOf

\* A run that begins has printed nothing.
LEMMA StartRunTells ==
  ASSUME IInv, ~poisoned, ~stopped', LogTells, NEW r \in Runs, StartRun(r), NEW p, NEW d, NEW m, NEW n, Story(p, d, m, n)
  PROVE  LogTells' /\ Story(p, d, m, n)'
<1> DEFINE record == [kind |-> "input_run", run |-> r]
<1>0. LogTypes
  BY DEF IInv, Types, LogTypes
<1>1. /\ run[r] = "idle" /\ Enqueue(record) /\ session = "running"
      /\ scanner' = [scanner EXCEPT !.active = @ \union {r}]
      /\ sanitizer' = [sanitizer EXCEPT !.echoes = @ \union {r}]
      /\ UNCHANGED <<landed, poisoned, pieces, awaited, ptyExit, unread, ended, text>>
  <2>1. /\ run[r] = "idle" /\ AppendRecord(record) /\ session = "running"
        /\ scanner' = [scanner EXCEPT !.active = @ \union {r}]
        /\ sanitizer' = [sanitizer EXCEPT !.echoes = @ \union {r}]
        /\ UNCHANGED <<landed, poisoned, pieces, awaited, ptyExit, unread, ended, text>>
    BY DEF StartRun, Registered, ingestion
  <2> HIDE DEF record
  <2> QED BY <1>0, <2>1, LogAppends
<1>2. typed \subseteq typed' /\ typed' \ typed \subseteq {r}
  BY DEF StartRun
<1>3. record.kind = "input_run"
  OBVIOUS
<1>4. /\ Tale(p) /\ EndedOnce /\ Place(p, m) /\ Sanitized(p, d, m) /\ ScannedTo(p, n)
      /\ ProgramTypes /\ scanner.tail \in Seq(Characters) /\ unread \in Seq(Characters)
      /\ scanner = [active |-> scanner.active, tail |-> scanner.tail]
  BY ProgramIsTyped DEF Story
<1>5. Tale(p)' /\ Follows(p, p) /\ TextGrows /\ EndedOnce'
  BY <1>1, <1>2, <1>4, TaleStays, EndedStays
<1>6. LogTypes
  BY DEF IInv, Types, LogTypes
<1>7. /\ Len(log) \in Nat /\ Len(log') = Len(log) + 1 /\ log'[Len(log) + 1] = record
      /\ DOMAIN log' = 1 .. Len(log')
      /\ \A i \in 1 .. Len(log) : log'[i] = log[i]
  <2> HIDE DEF record
  <2> QED BY <1>1, <1>6, LogGrows
<1>8. /\ Outputs(log) \o OutputOf(record) = Outputs(log) /\ p.user[d] \in 0 .. Len(text)
      /\ Outputs(log) = Between(text, 0, p.user[d]) /\ Len(p.chars) \in Nat
      /\ p.chars \in Seq(Characters) /\ p.raw \in Seq(Characters)
  BY <1>3, <1>4, HeldIs, NothingMoreHeld
<1>9. LogTells' /\ Outputs(log') = Outputs(log)
  <2>1. PICK newest : newest = Len(log) + 1
    OBVIOUS
  <2>2. \A q \in Runs : newest \notin CompletionsOf(q)'
    BY <1>3, <1>7, <2>1 DEF CompletionsOf
  <2>3. ptyExit \notin {"handled", "reset"}
    BY <1>1 DEF IInv, Phases
  <2>4. PICK u : u = p.user[d]
    OBVIOUS
  <2> HIDE DEF record
  <2>5. LogTells' /\ Outputs(log') = Between(text, 0, u)
    BY <1>1, <1>3, <1>8, <2>1, <2>2, <2>3, <2>4, LongerLogTells
  <2> QED BY <1>8, <2>4, <2>5
<1>10. r \notin typed /\ \A k \in 1 .. Len(ended) : ended[k].run # r
  <2>1. r \notin typed
    BY <1>1 DEF IInv, WaitInv
  <2> QED BY <1>4, <2>1 DEF EndedOnce
<1>11. /\ Len(p.chars) + 1 .. Len(p.chars) = {}
       /\ p.raw = p.raw \o <<>> /\ unread' = unread \o <<>> /\ <<>> \in Seq(Characters)
  BY <1>1, <1>4, <1>8
<1>12. Sanitized(p, d, m)'
  <2>1. PICK other : other = sanitizer.echoes \union {r}
    OBVIOUS
  <2>2. sanitizer = [echoes |-> sanitizer.echoes, strip |-> sanitizer.strip, tail |-> sanitizer.tail]
        /\ sanitizer.echoes \in SUBSET Runs
    BY <1>4 DEF Sanitized, Keeps
  <2>3. /\ sanitizer' = [echoes |-> other, strip |-> sanitizer.strip, tail |-> sanitizer.tail]
        /\ other \in SUBSET Runs /\ sanitizer.echoes \subseteq other /\ typed' \ typed \subseteq other
    BY <1>1, <1>2, <2>1, <2>2
  <2>4. \A j \in 1 .. Len(log) : j \in 1 .. Len(log') /\ log'[j] = log[j]
    BY <1>7
  <2>5. Len(log) + 1 \in 1 .. Len(log')
    BY <1>7
  <2>6. \A q \in other \ sanitizer.echoes : q = r
    BY <2>1
  <2>7. \A q \in other \ sanitizer.echoes :
          /\ \A k \in 1 .. Len(ended) : ended[k].run # q
          /\ \E j \in 1 .. Len(log') : log'[j] = [kind |-> "input_run", run |-> q]
    BY <1>7, <1>10, <2>5, <2>6
  <2> QED BY <1>4, <1>5, <1>9, <1>11, <2>3, <2>4, <2>7, SanitizedStays
<1>13. ScannedTo(p, n)'
  <2>1. PICK other : other = scanner.active \union {r}
    OBVIOUS
  <2>2. scanner' = [active |-> other, tail |-> scanner.tail] /\ scanner.active \subseteq other
        /\ typed' \ typed \subseteq other
    BY <1>1, <1>2, <1>4, <2>1
  <2> QED BY <1>4, <1>5, <1>11, <2>2, ScannedStays
<1>14. Pending' = Pending
  BY <1>1 DEF Pending, PiecesLeft
<1> QED BY <1>1, <1>5, <1>9, <1>12, <1>13, <1>14, StoryOf
-----------------------------------------------------------------------------
(* An ingestion begins *)

\* One text behind the other.
Joined(s, t) == s \o t

\* A text in two parts.
LEMMA BetweenSplits ==
  ASSUME NEW t \in Seq(Characters), NEW n \in 0 .. Len(t), NEW a \in Seq(Characters), NEW b \in Seq(Characters),
         Between(t, n, Len(t)) = Joined(a, b)
  PROVE  \E v \in n .. Len(t) : Between(t, n, v) = a /\ Between(t, v, Len(t)) = b
<1> DEFINE N == Len(t)
           A == Len(a)
           B == Len(b)
           c == a \o b
           w == n + A
<1>1. N \in Nat /\ A \in Nat /\ B \in Nat /\ n \in Nat /\ n <= N /\ N \in n .. N
  BY LenProperties
<1>2. Len(c) = A + B /\ \A j \in 1 .. A + B : c[j] = IF j <= A THEN a[j] ELSE b[j - A]
  BY ConcatProperties
<1>3. Len(c) = N - n /\ \A j \in 1 .. N - n : c[j] = t[n + j]
  <2>1. /\ Len(Between(t, n, N)) = N - n
        /\ \A j \in 1 .. N - n : Between(t, n, N)[j] = t[n + j]
    BY <1>1, BetweenIs
  <2>2. Between(t, n, N) = c
    BY DEF Joined
  <2> HIDE DEF N, c
  <2> QED BY <2>1, <2>2
<1> HIDE DEF c
<1>4. w \in n .. N /\ w \in 0 .. N /\ N - w = B /\ w - n = A /\ N - n = A + B /\ N \in w .. N
  <2> HIDE DEF N, A, B
  <2> QED BY <1>1, <1>2, <1>3
<1> HIDE DEF w
<1> DEFINE x == Between(t, n, w)
           y == Between(t, w, N)
<1>5. x \in Seq(Characters) /\ Len(x) = w - n /\ \A j \in 1 .. w - n : x[j] = t[n + j]
  BY <1>4, BetweenIs
<1>6. y \in Seq(Characters) /\ Len(y) = N - w /\ \A j \in 1 .. N - w : y[j] = t[w + j]
  BY <1>4, BetweenIs
<1> HIDE DEF x, y
<1>7. x = a
  <2>1. \A j \in 1 .. A : x[j] = a[j]
    <3> HIDE DEF N, A, B
    <3>1. ASSUME NEW j \in 1 .. A PROVE x[j] = a[j]
      <4>1. j \in 1 .. w - n /\ j \in 1 .. A + B /\ j \in 1 .. N - n /\ j <= A
        BY <1>1, <1>4
      <4> QED BY <1>2, <1>3, <1>5, <4>1
    <3> QED BY <3>1
  <2>2. Len(x) = A
    BY <1>4, <1>5
  <2> QED BY <1>5, <2>1, <2>2, SameText
<1>8. y = b
  <2>1. \A j \in 1 .. B : y[j] = b[j]
    <3> HIDE DEF N, A, B
    <3>1. ASSUME NEW j \in 1 .. B PROVE y[j] = b[j]
      <4>1. j \in 1 .. N - w
        BY <1>4
      <4>2. PICK i \in 1 .. A + B : i = A + j /\ ~(i <= A) /\ i - A = j
        BY <1>1
      <4>3. c[i] = b[i - A] /\ c[i] = t[n + i]
        BY <1>2, <1>3, <1>4, <4>2
      <4>4. n + i = w + j
        <5>1. w = n + A
          BY DEF w
        <5> QED BY <1>1, <4>2, <5>1
      <4> QED BY <1>6, <4>1, <4>2, <4>3, <4>4, Zenon
    <3> QED BY <3>1
  <2>2. Len(y) = B
    BY <1>4, <1>6
  <2> QED BY <1>6, <2>1, <2>2, SameText
<1>9. w \in n .. N /\ Between(t, n, w) = a /\ Between(t, w, N) = b
  BY <1>4, <1>7, <1>8 DEF x, y
<1> QED BY <1>9

\* The flush is the last step of all.
LEMMA FlushFollows ==
  ASSUME NEW p, NEW S, NEW ps \in Seq(S), NEW x, NEW y, Leads(p, ps, x, y)', y = Len(p.raw), Place(p, y)',
         ptyExit' = "flushing", NEW flush \in S, flush.kind = "flush"
  PROVE  Leads(p, ps \o <<flush>>, x, y)'
<1> DEFINE n == Len(ps)
           os == ps \o <<flush>>
<1>1. n \in Nat /\ Len(os) = n + 1 /\ \A i \in 1 .. n + 1 : os[i] = IF i <= n THEN ps[i] ELSE flush
  <2>1. <<flush>> \in Seq(S) /\ Len(<<flush>>) = 1 /\ <<flush>>[1] = flush /\ n \in Nat
    BY LenProperties
  <2>2. Len(os) = n + Len(<<flush>>)
        /\ \A i \in 1 .. n + Len(<<flush>>) : os[i] = IF i <= n THEN ps[i] ELSE <<flush>>[i - n]
    BY <2>1, ConcatProperties
  <2> HIDE DEF n, os
  <2>3. \A i \in 1 .. n + 1 : ~(i <= n) => i - n = 1
    BY <2>1
  <2> QED BY <2>1, <2>2, <2>3
<1>2. PICK a : Steps(p, ps, a)' /\ a[0] = x /\ a[n] = y
  BY DEF Leads
<1>3. /\ \A i \in 0 .. n : Place(p, a[i])'
      /\ \A i \in 1 .. n : Link(p, ps[i], a[i - 1], a[i])'
  BY <1>2 DEF Steps
<1> HIDE DEF n, os
<1> DEFINE z == [i \in 0 .. n + 1 |-> IF i <= n THEN a[i] ELSE y]
<1>4. (\A i \in 0 .. n : z[i] = a[i]) /\ z[n + 1] = y /\ z[n] = y /\ z[0] = x
  <2>1. \A i \in 0 .. n : i \in 0 .. n + 1 /\ i <= n
    BY <1>1
  <2>2. n + 1 \in 0 .. n + 1 /\ ~(n + 1 <= n) /\ n \in 0 .. n /\ 0 \in 0 .. n
    BY <1>1
  <2> QED BY <1>2, <2>1, <2>2
<1> HIDE DEF z
<1>5. ASSUME NEW i \in 0 .. Len(os) PROVE Place(p, z[i])'
  <2>1. CASE i <= n
    <3>1. i \in 0 .. n
      BY <1>1, <2>1
    <3> QED BY <1>3, <1>4, <3>1
  <2>2. CASE ~(i <= n)
    <3>1. i = n + 1
      BY <1>1, <2>2
    <3> QED BY <1>4, <3>1
  <2> QED BY <2>1, <2>2
<1>6. ASSUME NEW i \in 1 .. Len(os) PROVE Link(p, os[i], z[i - 1], z[i])'
  <2>1. i \in 1 .. n + 1
    BY <1>1
  <2>2. CASE i <= n
    <3>1. i \in 1 .. n /\ i \in 0 .. n /\ i - 1 \in 0 .. n
      BY <1>1, <2>1, <2>2
    <3>2. z[i] = a[i] /\ z[i - 1] = a[i - 1] /\ os[i] = ps[i]
      BY <1>1, <1>4, <2>1, <2>2, <3>1
    <3> QED BY <1>3, <3>1, <3>2
  <2>3. CASE ~(i <= n)
    <3>1. i = n + 1 /\ i - 1 = n
      BY <1>1, <2>1, <2>3
    <3>2. z[i] = y /\ z[i - 1] = y /\ os[i] = flush
      BY <1>1, <1>4, <2>1, <2>3, <3>1
    <3>3. Link(p, flush, y, y)'
      BY DEF Link
    <3> QED BY <3>2, <3>3
  <2> QED BY <2>2, <2>3
<1>7. Steps(p, os, z)'
  BY <1>5, <1>6 DEF Steps
<1>8. z[0] = x /\ z[Len(os)] = y
  BY <1>1, <1>4
<1>9. Leads(p, os, x, y)'
  BY <1>7, <1>8 DEF Leads
<1> QED BY <1>9 DEF os

\* Only the scanner has gone on.
LEMMA SanitizerWaits ==
  ASSUME IInv, NEW p, NEW d, NEW m, NEW n, Story(p, d, m, n),
         UNCHANGED <<log, sanitizer, text, ended, typed>>
  PROVE  /\ Tale(p)' /\ EndedOnce' /\ Place(p, m)' /\ Sanitized(p, d, m)' /\ Follows(p, p)
         /\ p.raw \in Seq(Characters) /\ Len(p.raw) \in Nat /\ RawStory(p)
<1>1. /\ Tale(p) /\ EndedOnce /\ Place(p, m) /\ Sanitized(p, d, m) /\ ProgramTypes
  BY ProgramIsTyped DEF Story
<1>2. Tale(p)' /\ Follows(p, p) /\ TextGrows /\ EndedOnce'
  BY <1>1, TaleStays, EndedStays
<1>3. p.chars \in Seq(Characters) /\ p.raw \in Seq(Characters) /\ Len(p.chars) \in Nat /\ Len(p.raw) \in Nat
  BY <1>1, LenProperties DEF Tale, PlainInv, RawInv
<1>4. Len(p.chars) + 1 .. Len(p.chars) = {} /\ typed' \ typed = {}
  BY <1>3
<1>5. Sanitized(p, d, m)'
  <2>1. PICK other : other = sanitizer.echoes
    OBVIOUS
  <2>2. /\ sanitizer' = [echoes |-> other, strip |-> sanitizer.strip, tail |-> sanitizer.tail]
        /\ other \in SUBSET Runs /\ sanitizer.echoes \subseteq other /\ typed' \ typed \subseteq other
        /\ other \ sanitizer.echoes = {}
    <3>1. sanitizer = [echoes |-> sanitizer.echoes, strip |-> sanitizer.strip, tail |-> sanitizer.tail]
          /\ sanitizer.echoes \in SUBSET Runs
      BY <1>1 DEF Sanitized, Keeps
    <3> QED BY <1>4, <2>1, <3>1
  <2> QED BY <1>1, <1>2, <1>4, <2>2, SanitizedStays
<1>6. Place(p, m)'
  BY <1>1, <1>2, PlaceStays
<1>7. RawStory(p)
  BY <1>1, <1>3 DEF RawStory, Tale, ProgramTypes
<1> QED BY <1>2, <1>3, <1>5, <1>6, <1>7

\* A chunk is scanned: its pieces lead on from where the scanner was.
LEMMA BeginChunkTells ==
  ASSUME IInv, BeginChunk, NEW p, NEW d, NEW m, NEW n, Story(p, d, m, n)
  PROVE  \E w : Story(p, d, m, w)'
<1>1. PICK c \in 1 .. Len(unread) :
        /\ Scanned(ScannerFeed(scanner, SubSeq(unread, 1, c)), <<>>)
        /\ unread' = SubSeq(unread, c + 1, Len(unread))
  BY DEF BeginChunk
<1>2. /\ pieces = <<>> /\ unread # <<>>
      /\ UNCHANGED <<log, sanitizer, awaited, ptyExit, text, ended, typed>>
  BY DEF BeginChunk, logVars, programVars
<1>3. awaited = 0 /\ Pending = <<>> /\ ptyExit # "flushing"
  <2>1. awaited = 0
    BY <1>2 DEF IInv, AwaitsHead
  <2> QED BY <1>2, <2>1 DEF IInv, Phases, Pending
<1>4. /\ EndedOnce /\ Leads(p, <<>>, m, n) /\ ScannedTo(p, n) /\ ProgramTypes
      /\ scanner.tail \in Seq(Characters) /\ unread \in Seq(Characters) /\ scanner.active \in SUBSET Runs
  BY <1>3, ProgramIsTyped DEF Story
<1>5. /\ Tale(p)' /\ EndedOnce' /\ Place(p, m)' /\ Sanitized(p, d, m)' /\ Follows(p, p)
      /\ p.raw \in Seq(Characters) /\ Len(p.raw) \in Nat /\ RawStory(p)
  BY <1>2, SanitizerWaits
<1>6. m = n /\ Place(p, n) /\ Awaits(p, n, scanner.active)
      /\ Between(p.raw, n, Len(p.raw)) = scanner.tail \o unread /\ n \in 0 .. Len(p.raw)
  BY <1>4, LedNowhere DEF ScannedTo, Place
<1>7. PICK a \in Seq(Characters), b \in Seq(Characters) :
        a = SubSeq(unread, 1, c) /\ b = SubSeq(unread, c + 1, Len(unread)) /\ unread = a \o b
  <2> DEFINE L == Len(unread)
  <2>1. L \in Nat /\ 0 \in 0 .. L /\ c \in 0 .. L /\ L \in c .. L /\ c \in 0 .. L /\ L \in 0 .. L
    <3>1. L \in Nat
      BY <1>4, LenProperties
    <3> HIDE DEF L
    <3>2. c \in 1 .. L
      BY DEF L
    <3> QED BY <3>1, <3>2
  <2>2. Between(unread, 0, c) \o Between(unread, c, L) = Between(unread, 0, L)
    BY <1>4, <2>1, BetweenJoins
  <2>3. Between(unread, 0, L) = unread
    BY <1>4, BetweenAll
  <2>4. Between(unread, 0, c) \in Seq(Characters) /\ Between(unread, c, L) \in Seq(Characters)
    BY <1>4, <2>1, BetweenIs
  <2>5. Between(unread, 0, c) = SubSeq(unread, 1, c) /\ Between(unread, c, L) = SubSeq(unread, c + 1, L)
    BY DEF Between
  <2> QED BY <2>2, <2>3, <2>4, <2>5
<1>8. PICK t \in Seq(Characters) : t = scanner.tail \o a
  BY <1>4, ConcatProperties
<1>9. Between(p.raw, n, Len(p.raw)) = Joined(t, b)
  <2>1. (scanner.tail \o a) \o b = scanner.tail \o (a \o b)
    BY <1>4, TextAssociative, ZenonT(60)
  <2>2. Between(p.raw, n, Len(p.raw)) = t \o b
    BY <1>6, <1>7, <1>8, <2>1
  <2> QED BY <2>2 DEF Joined
<1>10. PICK v \in n .. Len(p.raw) : Between(p.raw, n, v) = t /\ Between(p.raw, v, Len(p.raw)) = b
  <2>1. p.raw \in Seq(Characters) /\ n \in 0 .. Len(p.raw)
    BY <1>5, <1>6
  <2>2. PICK raw \in Seq(Characters) : raw = p.raw
    BY <2>1
  <2>3. n \in 0 .. Len(raw) /\ Between(raw, n, Len(raw)) = Joined(t, b)
    BY <1>9, <2>1, <2>2
  <2>4. t \in Seq(Characters) /\ b \in Seq(Characters)
    BY <1>7, <1>8
  <2>5. \E v \in n .. Len(raw) : Between(raw, n, v) = t /\ Between(raw, v, Len(raw)) = b
    BY <2>3, <2>4, BetweenSplits
  <2> QED BY <2>2, <2>5
<1>11. PICK res : res = Scan(t, scanner.active, FALSE)
  OBVIOUS
<1>12. MayScan(p, n, v, FALSE)
  BY <1>5, <1>6 DEF MayScan
<1>13. Finds(p, n, v, FALSE, res)
  BY <1>4, <1>6, <1>10, <1>11, <1>12, ScanFinds
<1>14. PICK w \in n .. v : /\ Leads(p, res.pieces, n, w) /\ Place(p, w) /\ Awaits(p, w, res.active)
                           /\ res.tail = Between(p.raw, w, v) /\ res.pieces \in Seq(Piece)
  BY <1>13 DEF Finds
<1>15. pieces' = res.pieces \o <<>> /\ scanner' = [active |-> res.active, tail |-> res.tail] /\ unread' = b
  BY <1>1, <1>7, <1>8, <1>11 DEF Scanned, ScannerFeed
<1>16. Pending' = res.pieces /\ Len(res.pieces) \in Nat
  BY <1>2, <1>3, <1>14, <1>15, LenProperties DEF Pending
<1>17. Leads(p, Pending, m, w)'
  <2>1. PICK ps : ps = res.pieces
    OBVIOUS
  <2>2. Leads(p, ps, n, w) /\ Len(ps) \in Nat
    BY <1>14, <1>16, <2>1
  <2>3. Leads(p, ps, n, w)'
    BY <1>3, <1>5, <2>2, LeadsStay
  <2> QED BY <1>6, <1>16, <2>1, <2>3 DEF Leads, Steps
<1>18. ScannedTo(p, w)'
  <2>1. Place(p, w)' /\ w \in 0 .. Len(p.raw)
    BY <1>5, <1>14, PlaceStays DEF Place
  <2>2. PICK act : act = res.active
    OBVIOUS
  <2>3. Awaits(p, w, act)'
    <3>1. typed' \ typed \subseteq act
      BY <1>2
    <3> QED BY <1>5, <1>14, <2>1, <2>2, <3>1, AwaitsStay
  <2>4. scanner'.active = act /\ scanner'.tail = res.tail
    BY <1>15, <2>2
  <2>5. Between(p.raw, w, v) \o Between(p.raw, v, Len(p.raw)) = Between(p.raw, w, Len(p.raw))
    <3>1. v \in w .. Len(p.raw) /\ Len(p.raw) \in v .. Len(p.raw)
      BY <1>5, <1>6
    <3> QED BY <1>5, <2>1, <3>1, BetweenJoins
  <2>6. Between(p.raw, w, Len(p.raw)) = scanner'.tail \o unread'
    BY <1>10, <1>14, <1>15, <2>4, <2>5
  <2> QED BY <2>1, <2>3, <2>4, <2>6 DEF ScannedTo
<1>19. Flushing(p, d)'
  BY <1>2, <1>3 DEF Flushing
<1>20. Story(p, d, m, w)'
  BY <1>5, <1>17, <1>18, <1>19 DEF Story
<1> QED BY <1>20
-----------------------------------------------------------------------------
(* The flush begins *)

\* Before the flush no piece of an ingestion is one.
LEMMA NoFlushYet ==
  ASSUME NEW p, NEW ps, NEW x, NEW y, Leads(p, ps, x, y), ptyExit # "flushing"
  PROVE  \A i \in 1 .. Len(ps) : ps[i].kind # "flush"
BY DEF Leads, Steps, Link

\* With a flush at its end, a sequence without one has it last.
LEMMA FlushIsLast ==
  ASSUME NEW S, NEW ps \in Seq(S), NEW flush \in S, flush.kind = "flush",
         \A i \in 1 .. Len(ps) : ps[i].kind # "flush"
  PROVE  LastIsFlush(ps \o <<flush>>)
<1> DEFINE n == Len(ps)
           os == ps \o <<flush>>
<1>1. n \in Nat /\ Len(os) = n + 1 /\ \A i \in 1 .. n + 1 : os[i] = IF i <= n THEN ps[i] ELSE flush
  <2>1. <<flush>> \in Seq(S) /\ Len(<<flush>>) = 1 /\ <<flush>>[1] = flush /\ n \in Nat
    BY LenProperties
  <2>2. Len(os) = n + Len(<<flush>>)
        /\ \A i \in 1 .. n + Len(<<flush>>) : os[i] = IF i <= n THEN ps[i] ELSE <<flush>>[i - n]
    BY <2>1, ConcatProperties
  <2> HIDE DEF n, os
  <2>3. \A i \in 1 .. n + 1 : ~(i <= n) => i - n = 1
    BY <2>1
  <2> QED BY <2>1, <2>2, <2>3
<1>2. \A i \in 1 .. n : ps[i].kind # "flush"
  OBVIOUS
<1>3. os # <<>>
  BY <1>1
<1> HIDE DEF n, os
<1>4. ASSUME NEW i \in 1 .. Len(os) PROVE os[i].kind = "flush" <=> i = Len(os)
  <2>1. CASE i <= n
    <3>1. i \in 1 .. n /\ os[i] = ps[i] /\ i # Len(os)
      BY <1>1, <2>1
    <3> QED BY <1>2, <3>1
  <2>2. CASE ~(i <= n)
    BY <1>1, <2>2
  <2> QED BY <2>1, <2>2
<1>5. LastIsFlush(os)
  BY <1>3, <1>4 DEF LastIsFlush
<1> QED BY <1>5 DEF os

\* The flush scans what the scanner kept, and comes last.
LEMMA BeginFlushTells ==
  ASSUME IInv, BeginFlush, NEW p, NEW d, NEW m, NEW n, Story(p, d, m, n)
  PROVE  \E w : Story(p, d, m, w)'
<1>1. PICK flush : flush = [kind |-> "flush"]
  OBVIOUS
<1>2. /\ pieces = <<>> /\ unread = <<>> /\ ptyExit = "queued" /\ ptyExit' = "flushing"
      /\ Scanned(ScannerFlush(scanner), <<flush>>)
      /\ UNCHANGED <<log, sanitizer, awaited, unread, text, ended, typed>>
  BY <1>1 DEF BeginFlush, logVars, programVars
<1>3. awaited = 0 /\ Pending = <<>>
  <2>1. awaited = 0
    BY <1>2 DEF IInv, AwaitsHead
  <2> QED BY <1>2, <2>1 DEF Pending
<1>4. /\ EndedOnce /\ Leads(p, <<>>, m, n) /\ ScannedTo(p, n)
      /\ scanner.tail \in Seq(Characters) /\ scanner.active \in SUBSET Runs
  BY <1>3, ProgramIsTyped DEF Story
<1>5. /\ Tale(p)' /\ EndedOnce' /\ Place(p, m)' /\ Sanitized(p, d, m)' /\ Follows(p, p)
      /\ p.raw \in Seq(Characters) /\ Len(p.raw) \in Nat /\ RawStory(p)
  BY <1>2, SanitizerWaits
<1>6. PICK w : w = Len(p.raw)
  OBVIOUS
<1>7. m = n /\ Place(p, n) /\ Awaits(p, n, scanner.active)
      /\ Between(p.raw, n, w) = scanner.tail /\ n \in 0 .. w /\ w \in n .. w
  <2>1. Between(p.raw, n, w) = scanner.tail \o <<>>
    BY <1>2, <1>4, <1>6 DEF ScannedTo
  <2>2. scanner.tail \o <<>> = scanner.tail
    BY <1>4
  <2> QED BY <1>4, <1>5, <1>6, <2>1, <2>2, LedNowhere DEF ScannedTo, Place
<1>8. MayScan(p, n, w, TRUE)
  BY <1>5, <1>6, <1>7 DEF MayScan
<1>9. PICK res : res = Scan(Between(p.raw, n, w), scanner.active, TRUE)
  OBVIOUS
<1>10. Finds(p, n, w, TRUE, res)
  BY <1>4, <1>7, <1>8, <1>9, ScanFinds
<1>11. /\ Leads(p, res.pieces, n, w) /\ Place(p, w) /\ Awaits(p, w, res.active)
       /\ res.tail = Between(p.raw, w, w) /\ res.pieces \in Seq(Piece)
  BY <1>10 DEF Finds
<1>12. pieces' = res.pieces \o <<flush>> /\ scanner' = [active |-> res.active, tail |-> <<>>]
  <2>1. Between(p.raw, w, w) = <<>>
    BY <1>5, <1>6, <1>7, BetweenNothing
  <2> QED BY <1>2, <1>7, <1>9, <1>11, <2>1 DEF Scanned, ScannerFlush
<1>13. flush \in Piece /\ flush.kind = "flush" /\ Len(res.pieces) \in Nat
  BY <1>1, <1>11, LenProperties DEF Piece
<1>14. PICK ps \in Seq(Piece) : ps = res.pieces
  BY <1>11
<1>15. Pending' = ps \o <<flush>>
  BY <1>2, <1>3, <1>12, <1>14 DEF Pending
<1>16. Place(p, w)'
  BY <1>5, <1>11, PlaceStays
<1>17. Leads(p, Pending, m, w)'
  <2>1. Leads(p, ps, n, w) /\ Len(ps) \in Nat
    BY <1>11, <1>13, <1>14
  <2>2. Leads(p, ps, n, w)'
    BY <1>2, <1>5, <2>1, LeadsStay
  <2>3. Leads(p, ps \o <<flush>>, n, w)'
    BY <1>2, <1>6, <1>13, <1>16, <2>2, FlushFollows
  <2> QED BY <1>7, <1>15, <2>3 DEF Leads, Steps
<1>18. ScannedTo(p, w)'
  <2>1. PICK act : act = res.active
    OBVIOUS
  <2>2. Awaits(p, w, act)'
    <3>1. typed' \ typed \subseteq act /\ w \in 0 .. Len(p.raw)
      BY <1>2, <1>5, <1>6
    <3> QED BY <1>5, <1>11, <2>1, <3>1, AwaitsStay
  <2>3. scanner'.active = act /\ scanner'.tail = <<>>
    BY <1>12, <2>1
  <2>4. Between(p.raw, w, Len(p.raw)) = scanner'.tail \o unread'
    <3>1. Between(p.raw, w, w) = <<>>
      BY <1>5, <1>6, <1>7, BetweenNothing
    <3> QED BY <1>2, <1>6, <2>3, <3>1
  <2> QED BY <1>16, <2>2, <2>3, <2>4 DEF ScannedTo
<1>19. Flushing(p, d)'
  <2>1. \A i \in 1 .. Len(ps) : ps[i].kind # "flush"
    BY <1>2, <1>11, <1>14, NoFlushYet
  <2>2. LastIsFlush(ps \o <<flush>>)
    BY <1>13, <2>1, FlushIsLast
  <2> QED BY <1>15, <2>2 DEF Flushing, LastIsFlush
<1>20. Story(p, d, m, w)'
  BY <1>5, <1>17, <1>18, <1>19 DEF Story
<1> QED BY <1>20
-----------------------------------------------------------------------------
(* A piece is taken *)

\* The sanitizer that is left at the place `y`, when the log holds the first
\* `e` characters.
Lets(p, y, e, san) ==
  /\ e \in 0 .. p.g[y] /\ Keeps(p, e, p.g[y], san) /\ san.echoes \in SUBSET sanitizer.echoes
  /\ \A i \in e + 1 .. Len(p.chars) : EchoChar(p, i) => p.run[i] \in san.echoes
  /\ Awaits(p, y, san.echoes) /\ \A j \in 1 .. p.k[y] : ended[j].run \notin san.echoes

\* The scanner waits.
LEMMA ScannerWaits ==
  ASSUME IInv, NEW p, NEW d, NEW m, NEW n, Story(p, d, m, n),
         UNCHANGED <<scanner, unread, text, ended, typed>>
  PROVE  /\ Tale(p) /\ EndedOnce /\ Place(p, m) /\ Sanitized(p, d, m) /\ ProgramTypes
         /\ Tale(p)' /\ EndedOnce' /\ Follows(p, p) /\ TextGrows /\ ScannedTo(p, n)'
<1>1. /\ Tale(p) /\ EndedOnce /\ Place(p, m) /\ Sanitized(p, d, m) /\ ScannedTo(p, n)
      /\ ProgramTypes /\ scanner.tail \in Seq(Characters) /\ unread \in Seq(Characters)
      /\ scanner = [active |-> scanner.active, tail |-> scanner.tail]
  BY ProgramIsTyped DEF Story
<1>2. Tale(p)' /\ Follows(p, p) /\ TextGrows /\ EndedOnce'
  BY <1>1, TaleStays, EndedStays
<1>3. /\ typed' \ typed = {}
      /\ p.raw = p.raw \o <<>> /\ unread' = unread \o <<>> /\ <<>> \in Seq(Characters)
  <2>1. p.raw \in Seq(Characters)
    BY <1>1 DEF Tale, RawInv
  <2>2. p.raw \o <<>> = p.raw /\ unread \o <<>> = unread
    BY <1>1, <2>1
  <2> QED BY <2>2
<1>4. ScannedTo(p, n)'
  <2>1. PICK other : other = scanner.active
    OBVIOUS
  <2>2. scanner' = [active |-> other, tail |-> scanner.tail] /\ scanner.active \subseteq other
        /\ typed' \ typed \subseteq other
    BY <1>1, <1>3, <2>1
  <2> QED BY <1>1, <1>2, <1>3, <2>2, ScannedStays
<1> QED BY <1>1, <1>2, <1>4

\* What the sanitizer that is left says of the story it says when it is there.
LEMMA SanitizerIsLeft ==
  ASSUME NEW p, NEW d, NEW m, Tale(p), Sanitized(p, d, m), ProgramTypes, Follows(p, p),
         UNCHANGED <<text, ended, typed>>, NEW y, Place(p, y), NEW e, NEW san, Lets(p, y, e, san),
         sanitizer' = san, Outputs(log') = Between(text, 0, p.user[e]),
         \A j \in 1 .. Len(log) : j \in 1 .. Len(log') /\ log'[j] = log[j]
  PROVE  Sanitized(p, e, y)'
<1>1. PICK other : other = san.echoes
  OBVIOUS
<1>2. Awaits(p, y, other)'
  <2>1. typed' \ typed \subseteq other /\ y \in 0 .. Len(p.raw) /\ Awaits(p, y, other)
    BY <1>1 DEF Lets, Place
  <2> QED BY <2>1, AwaitsStay
<1>3. sanitizer'.echoes = other /\ other \in SUBSET sanitizer.echoes /\ sanitizer.echoes \in SUBSET Runs
  BY <1>1 DEF Lets, Sanitized
<1>4. ASSUME NEW i \in e + 1 .. Len(p.chars), EchoChar(p, i)' PROVE p.run[i] \in other
  <2>1. e \in Nat
    BY DEF Lets
  <2>2. PlainInv(p) /\ CharsGrow(p, p) /\ Len(p.chars) \in Nat
    BY LenProperties DEF Tale, Follows, PlainInv
  <2>3. i \in 1 .. Len(p.chars)
    BY <2>1, <2>2
  <2>4. EchoChar(p, i)
    BY <1>4, <2>2, <2>3, EchoCharBefore
  <2> QED BY <1>1, <2>4 DEF Lets
<1>5. Keeps(p, e, p.g[y], sanitizer)'
  <2>1. Keeps(p, e, p.g[y], san)
    BY DEF Lets
  <2> QED BY <2>1 DEF Keeps, HeldBack, UserChar
<1>6. \A j \in 1 .. p.k[y] : ended'[j].run \notin other
  BY <1>1 DEF Lets
<1>7. \A r \in other : \E j \in 1 .. Len(log') : log'[j] = [kind |-> "input_run", run |-> r]
  BY <1>3 DEF Sanitized
<1>8. e \in 0 .. p.g[y]
  BY DEF Lets
<1> QED BY <1>2, <1>3, <1>4, <1>5, <1>6, <1>7, <1>8 DEF Sanitized

\* Then the story has got on by the piece.
LEMMA PieceTells ==
  ASSUME IInv, NEW p, NEW d, NEW m, NEW n, Story(p, d, m, n),
         UNCHANGED <<scanner, unread, ptyExit, text, ended, typed>>,
         NEW y, Place(p, y), NEW e, NEW san, Lets(p, y, e, san),
         sanitizer' = san, Outputs(log') = Between(text, 0, p.user[e]),
         \A j \in 1 .. Len(log) : j \in 1 .. Len(log') /\ log'[j] = log[j],
         NEW ps, Pending' = ps, Len(ps) \in Nat, Leads(p, ps, y, n),
         ptyExit = "flushing" => LastIsFlush(ps) \/ (ps = <<>> /\ e = Len(p.chars))
  PROVE  Story(p, e, y, n)'
<1>1. /\ Tale(p) /\ EndedOnce /\ Place(p, m) /\ Sanitized(p, d, m) /\ ProgramTypes
      /\ Tale(p)' /\ EndedOnce' /\ Follows(p, p) /\ TextGrows /\ ScannedTo(p, n)'
  BY ScannerWaits
<1>2. Sanitized(p, e, y)'
  BY <1>1, SanitizerIsLeft
<1>3. Place(p, y)'
  BY <1>1, PlaceStays
<1>4. Leads(p, Pending, y, n)'
  <2>1. Leads(p, ps, y, n)'
    BY <1>1, LeadsStay
  <2> QED BY <2>1 DEF Leads, Steps
<1>5. Flushing(p, e)'
  BY DEF Flushing, LastIsFlush
<1> QED BY <1>1, <1>2, <1>3, <1>4, <1>5 DEF Story

\* In a log that does not stop an append stores its record and acknowledges a seq.
LEMMA AwaitsItsOwn ==
  ASSUME IInv, ~poisoned, ~stopped', NEW record, AppendRecord(record), UNCHANGED <<landed, poisoned>>
  PROVE  Enqueue(record) /\ Acknowledged # 0
<1>1. LogTypes
  BY DEF IInv, Types, LogTypes
<1>2. Enqueue(record) /\ LogTypes'
  BY <1>1, LogAppends
<1>3. Len(log) \in Nat /\ Len(log') = Len(log) + 1
  BY <1>1, <1>2, LogGrows
<1>4. Acknowledged = Len(log) + 1
  BY <1>1, <1>2, <1>3, AcknowledgesNumber
<1> QED BY <1>2, <1>3, <1>4

\* What the sanitizer lets through is appended.
LEMMA EmitTells ==
  ASSUME IInv, ~poisoned, ~stopped', LogTells, NEW p, NEW d, NEW m, NEW n, Story(p, d, m, n),
         UNCHANGED <<landed, poisoned, scanner, unread, ptyExit, text, ended, typed>>,
         pieces # <<>>, awaited = 0, NEW res, Emit(res),
         NEW y, Place(p, y), NEW e, e \in d .. p.g[y], Lets(p, y, e, res.sanitizer),
         res.out = Between(text, p.user[d], p.user[e]), Leads(p, PiecesLeft, y, n),
         ptyExit = "flushing" => LastIsFlush(PiecesLeft) \/ (PiecesLeft = <<>> /\ e = Len(p.chars))
  PROVE  LogTells' /\ Story(p, e, y, n)'
<1>1. /\ Tale(p) /\ EndedOnce /\ Place(p, m) /\ Sanitized(p, d, m) /\ ProgramTypes
      /\ Tale(p)' /\ EndedOnce' /\ Follows(p, p) /\ TextGrows /\ ScannedTo(p, n)'
  BY ScannerWaits
<1>2. /\ p.user[d] \in 0 .. Len(text) /\ Outputs(log) = Between(text, 0, p.user[d]) /\ Len(text) \in Nat
      /\ text \in Seq(Characters) /\ d \in 0 .. Len(p.chars) /\ Len(p.chars) \in Nat
  BY <1>1, HeldIs
<1>3. p.g[y] \in 0 .. Len(p.chars)
  BY <1>1 DEF Tale, RawInv, Place
<1>4. e \in d .. Len(p.chars)
  BY <1>2, <1>3
<1>5. PICK u \in 0 .. Len(text), v \in Nat : v \in u .. Len(text) /\ u = p.user[d] /\ v = p.user[e]
  <2>1. PICK u \in 0 .. Len(text) : u = p.user[d]
    BY <1>2
  <2>2. p.user[e] \in u .. Len(text)
    BY <1>1, <1>2, <1>4, <2>1, UserGrows DEF Tale
  <2> QED BY <1>2, <2>1, <2>2
<1>6. PICK ps \in Seq(Piece) : ps = PiecesLeft /\ Len(ps) \in Nat
  BY LeftIs, LenProperties
<1>7. PICK san : san = res.sanitizer
  OBVIOUS
<1>8. IsSeq(log) /\ Len(log) \in Nat
  BY SeqShape DEF IInv, Types
<1>9. ptyExit \notin {"handled", "reset"}
  BY DEF IInv, Phases
<1>10. /\ LogTells' /\ Outputs(log') = Between(text, 0, v) /\ Pending' = ps
       /\ \A j \in 1 .. Len(log) : j \in 1 .. Len(log') /\ log'[j] = log[j]
  <2>1. CASE res.out = <<>>
    <3>1. pieces' = PiecesLeft /\ UNCHANGED <<log, awaited>>
      BY <2>1 DEF Emit
    <3>2. Pending' = ps
      BY <1>6, <3>1 DEF Pending
    <3>3. u = v
      <4>1. Len(Between(text, u, v)) = v - u
        BY <1>2, <1>5, BetweenIs
      <4>2. Len(Between(text, u, v)) = 0
        BY <1>5, <2>1
      <4> QED BY <1>2, <4>1, <4>2
    <3>4. EndsAreNew
      BY DEF EndsAreNew
    <3>5. LogTells'
      BY <1>1, <1>8, <3>1, <3>4, ShorterLogTells
    <3>6. Outputs(log') = Between(text, 0, v)
      BY <1>2, <1>5, <3>1, <3>3
    <3>7. \A j \in 1 .. Len(log) : j \in 1 .. Len(log') /\ log'[j] = log[j]
      BY <3>1
    <3> QED BY <3>2, <3>5, <3>6, <3>7
  <2>2. CASE res.out # <<>>
    <3>1. PICK record : record = [kind |-> "output", data |-> res.out]
      OBVIOUS
    <3>2. Enqueue(record) /\ pieces' = pieces /\ awaited' # 0
      BY <2>2, <3>1, AwaitsItsOwn DEF Emit
    <3>3. Pending' = ps
      <4>1. awaited' # 0 /\ PiecesLeft' = PiecesLeft
        BY <3>2 DEF PiecesLeft
      <4> QED BY <1>6, <4>1 DEF Pending
    <3>4. record.kind = "output" /\ OutputOf(record) = Between(text, u, v)
      BY <1>5, <3>1 DEF OutputOf
    <3>5. Outputs(log) \o OutputOf(record) = Between(text, 0, v)
      <4>1. 0 \in 0 .. Len(text) /\ u \in 0 .. Len(text) /\ v \in u .. Len(text)
        BY <1>2, <1>5
      <4>2. Between(text, 0, u) \o Between(text, u, v) = Between(text, 0, v)
        BY <1>2, <4>1, BetweenJoins
      <4> QED BY <1>2, <1>5, <3>4, <4>2
    <3>6. LogTypes
      BY DEF IInv, Types, LogTypes
    <3>7. /\ Len(log') = Len(log) + 1 /\ log'[Len(log) + 1] = record
          /\ \A i \in 1 .. Len(log) : log'[i] = log[i]
      BY <3>2, <3>6, LogGrows
    <3>8. PICK newest : newest = Len(log) + 1
      OBVIOUS
    <3>9. \A q \in Runs : newest \notin CompletionsOf(q)'
      BY <3>4, <3>7, <3>8 DEF CompletionsOf
    <3>10. v \in 0 .. Len(text)
      BY <1>2, <1>5
    <3>11. LogTells' /\ Outputs(log') = Between(text, 0, v)
      BY <1>9, <3>2, <3>4, <3>5, <3>8, <3>9, <3>10, LongerLogTells
    <3>12. \A j \in 1 .. Len(log) : j \in 1 .. Len(log') /\ log'[j] = log[j]
      BY <1>8, <3>7
    <3> QED BY <3>3, <3>11, <3>12
  <2> QED BY <2>1, <2>2
<1>11. Story(p, e, y, n)'
  <2>1. sanitizer' = san /\ Lets(p, y, e, san)
    BY <1>7 DEF Emit
  <2>2. Leads(p, ps, y, n) /\ (ptyExit = "flushing" => LastIsFlush(ps) \/ (ps = <<>> /\ e = Len(p.chars)))
    BY <1>6
  <2>3. Outputs(log') = Between(text, 0, p.user[e])
    BY <1>5, <1>10
  <2> QED BY <1>6, <1>10, <2>1, <2>2, <2>3, PieceTells
<1> QED BY <1>10, <1>11
-----------------------------------------------------------------------------
(* Output and flush *)

\* The first piece leads to the second.
LEMMA HeadLeads ==
  ASSUME IInv, pieces # <<>>, awaited = 0, NEW p, NEW d, NEW m, NEW n, Story(p, d, m, n)
  PROVE  \E y : /\ Place(p, m) /\ Place(p, y) /\ Link(p, Head(pieces), m, y) /\ Leads(p, Tail(pieces), y, n)
                /\ ptyExit = "flushing" => LastIsFlush(pieces)
<1>1. Pending = pieces /\ pieces \in Seq(Piece)
  BY ProgramIsTyped DEF Pending
<1>2. PICK ps \in Seq(Piece) : ps = pieces
  BY <1>1
<1>3. Leads(p, ps, m, n)
  BY <1>1, <1>2 DEF Story
<1>4. \E y : Place(p, m) /\ Place(p, y) /\ Link(p, Head(ps), m, y) /\ Leads(p, Tail(ps), y, n)
  BY <1>2, <1>3, LeadsFirst
<1>5. ptyExit = "flushing" => LastIsFlush(pieces)
  BY <1>1 DEF Story, Flushing
<1> QED BY <1>2, <1>4, <1>5

\* A final text is read to its end.
Reaches(final, e, h) == final => e = h

\* What is stripped of a part of the story.
LEMMA StripLets ==
  ASSUME NEW p, NEW d, NEW y, NEW h, h = p.g[y], NEW echoes, NEW final, MayStrip(p, d, h, echoes, final),
         NEW strip, StripAt(p, d, strip), echoes \in SUBSET sanitizer.echoes, Awaits(p, y, echoes),
         \A i \in d + 1 .. Len(p.chars) : EchoChar(p, i) => p.run[i] \in echoes,
         \A j \in 1 .. p.k[y] : ended[j].run \notin echoes,
         NEW res, res = Strip(Between(p.chars, d, h), echoes, strip, final)
  PROVE  \E e \in d .. h : /\ res.out = Between(text, p.user[d], p.user[e]) /\ Lets(p, y, e, res.sanitizer)
                           /\ Reaches(final, e, h)
<1>1. PICK e \in d .. h :
        /\ res.out = Between(text, p.user[d], p.user[e])
        /\ Keeps(p, e, h, res.sanitizer) /\ res.sanitizer.echoes = echoes
        /\ Reaches(final, e, h)
  <2>1. PICK e \in d .. h :
          /\ res.out = Between(text, p.user[d], p.user[e])
          /\ Keeps(p, e, h, res.sanitizer) /\ res.sanitizer.echoes = echoes
          /\ final => e = h
    BY StripTells
  <2>2. Reaches(final, e, h)
    BY <2>1, Zenon DEF Reaches
  <2> QED BY <2>1, <2>2
<1>2. d \in Nat /\ h \in Nat /\ d <= h /\ Len(p.chars) \in Nat
  BY MayStripIs
<1>3. e \in 0 .. h /\ \A i \in e + 1 .. Len(p.chars) : i \in d + 1 .. Len(p.chars)
  BY <1>1, <1>2
<1>4. Lets(p, y, e, res.sanitizer)
  BY <1>1, <1>3 DEF Lets
<1> QED BY <1>1, <1>4

\* What is read of the story is what the sanitizer kept, and more.
LEMMA MayStripOn ==
  ASSUME NEW p, NEW d, NEW m, Tale(p), Sanitized(p, d, m), ProgramTypes, Unmistakable, EndedOnce, Place(p, m),
         NEW h \in Nat, h >= p.g[m], h <= Len(p.chars), NEW final \in BOOLEAN, final => h = Len(p.chars)
  PROVE  /\ MayStrip(p, d, h, sanitizer.echoes, final) /\ StripAt(p, d, sanitizer.strip)
         /\ sanitizer.tail \o Between(p.chars, p.g[m], h) = Between(p.chars, d, h)
<1>1. /\ Len(p.chars) \in Nat /\ p.chars \in Seq(Characters)
      /\ p.g[m] \in 0 .. Len(p.chars) /\ d \in 0 .. p.g[m] /\ d \in 0 .. Len(p.chars)
  BY HeldIs
<1>2. h \in d .. Len(p.chars) /\ h \in p.g[m] .. Len(p.chars) /\ p.g[m] \in d .. Len(p.chars)
  BY <1>1
<1>3. \A i \in d + 1 .. h : i \in d + 1 .. Len(p.chars)
  BY <1>1, <1>2
<1>4. MayStrip(p, d, h, sanitizer.echoes, final)
  BY <1>1, <1>2, <1>3 DEF MayStrip, Tale, Sanitized
<1>5. StripAt(p, d, sanitizer.strip) /\ sanitizer.tail = Between(p.chars, d, p.g[m])
  BY DEF Sanitized, Keeps, HeldBack
<1>6. Between(p.chars, d, p.g[m]) \o Between(p.chars, p.g[m], h) = Between(p.chars, d, h)
  BY <1>1, <1>2, BetweenJoins
<1> QED BY <1>4, <1>5, <1>6

\* Output of the terminal.
LEMMA TakeOutputTells ==
  ASSUME IInv, Unmistakable, ~poisoned, ~stopped', LogTells, NEW p, NEW d, NEW m, NEW n, Story(p, d, m, n),
         TakePiece, Head(pieces).kind = "output"
  PROVE  LogTells' /\ \E e, y : Story(p, e, y, n)'
<1>1. /\ pieces # <<>> /\ awaited = 0
      /\ Emit(SanitizerFeed(sanitizer, Head(pieces).data))
      /\ UNCHANGED <<landed, poisoned, scanner, unread, ptyExit, text, ended, typed>>
  BY DEF TakePiece, programVars
<1>2. PICK y : /\ Place(p, m) /\ Place(p, y) /\ Link(p, Head(pieces), m, y) /\ Leads(p, Tail(pieces), y, n)
               /\ ptyExit = "flushing" => LastIsFlush(pieces)
  BY <1>1, HeadLeads
<1>3. /\ m <= y /\ \A i \in m + 1 .. y : RawChar(p, i)
      /\ Head(pieces).data = Between(p.raw, m, y)
  BY <1>2 DEF Link
<1>4. /\ Tale(p) /\ EndedOnce /\ Place(p, m) /\ Sanitized(p, d, m) /\ ProgramTypes
  BY <1>1, ScannerWaits
<1>5. /\ Len(p.chars) \in Nat /\ Len(p.raw) \in Nat /\ Len(ended) \in Nat /\ p.chars \in Seq(Characters)
      /\ p.g[m] \in 0 .. Len(p.chars) /\ d \in 0 .. p.g[m]
  BY <1>4, HeldIs
<1>6. m \in 0 .. Len(p.raw) /\ y \in m .. Len(p.raw)
  BY <1>2, <1>3, <1>5 DEF Place
<1>7. /\ p.g[y] \in p.g[m] .. Len(p.chars) /\ p.k[y] = p.k[m]
      /\ Between(p.raw, m, y) = Between(p.chars, p.g[m], p.g[y])
  BY <1>3, <1>4, <1>5, <1>6, RawRun DEF Tale
<1>8. PICK h \in Nat : h = p.g[y] /\ h >= p.g[m] /\ h <= Len(p.chars)
  BY <1>5, <1>7
<1>9. PICK echoes : echoes = sanitizer.echoes
  OBVIOUS
<1>10. PICK strip : strip = sanitizer.strip
  OBVIOUS
<1>11. /\ MayStrip(p, d, h, echoes, FALSE) /\ StripAt(p, d, strip)
       /\ sanitizer.tail \o Between(p.chars, p.g[m], h) = Between(p.chars, d, h)
  BY <1>4, <1>8, <1>9, <1>10, MayStripOn
<1>12. PICK res : res = Strip(Between(p.chars, d, h), echoes, strip, FALSE)
  OBVIOUS
<1>13. Emit(res)
  BY <1>1, <1>3, <1>7, <1>8, <1>9, <1>10, <1>11, <1>12 DEF SanitizerFeed
<1>14. /\ echoes \in SUBSET sanitizer.echoes /\ Awaits(p, y, echoes)
       /\ \A i \in d + 1 .. Len(p.chars) : EchoChar(p, i) => p.run[i] \in echoes
       /\ \A j \in 1 .. p.k[y] : ended[j].run \notin echoes
  BY <1>4, <1>7, <1>9 DEF Sanitized, Awaits
<1>15. PICK e \in d .. h : res.out = Between(text, p.user[d], p.user[e]) /\ Lets(p, y, e, res.sanitizer)
  BY <1>8, <1>11, <1>12, <1>14, StripLets
<1>16. PiecesLeft = Tail(pieces)
  BY <1>1, LeftIs
<1>17. ptyExit = "flushing" => LastIsFlush(PiecesLeft)
  BY <1>1, <1>2, FlushStaysLast
<1>18. LogTells' /\ Story(p, e, y, n)'
  BY <1>1, <1>2, <1>8, <1>13, <1>15, <1>16, <1>17, EmitTells
<1> QED BY <1>18

\* The flush at the end.
LEMMA TakeFlushTells ==
  ASSUME IInv, Unmistakable, ~poisoned, ~stopped', LogTells, NEW p, NEW d, NEW m, NEW n, Story(p, d, m, n),
         TakePiece, Head(pieces).kind = "flush"
  PROVE  LogTells' /\ \E e, y : Story(p, e, y, n)'
<1>1. /\ pieces # <<>> /\ awaited = 0
      /\ Emit(SanitizerFlush(sanitizer))
      /\ UNCHANGED <<landed, poisoned, scanner, unread, ptyExit, text, ended, typed>>
  BY DEF TakePiece, programVars
<1>2. PICK y : /\ Place(p, m) /\ Place(p, y) /\ Link(p, Head(pieces), m, y) /\ Leads(p, Tail(pieces), y, n)
               /\ ptyExit = "flushing" => LastIsFlush(pieces)
  BY <1>1, HeadLeads
<1>3. y = m /\ m = Len(p.raw) /\ ptyExit = "flushing"
  BY <1>2 DEF Link
<1>4. /\ Tale(p) /\ EndedOnce /\ Place(p, m) /\ Sanitized(p, d, m) /\ ProgramTypes
  BY <1>1, ScannerWaits
<1>5. /\ Len(p.chars) \in Nat /\ p.chars \in Seq(Characters)
      /\ p.g[m] \in 0 .. Len(p.chars) /\ d \in 0 .. p.g[m] /\ p.g[m] = Len(p.chars)
  BY <1>3, <1>4, HeldIs DEF Tale, RawInv
<1>6. PICK h \in Nat : h = p.g[y] /\ h = Len(p.chars)
  BY <1>3, <1>5
<1>7. PICK echoes : echoes = sanitizer.echoes
  OBVIOUS
<1>8. PICK strip : strip = sanitizer.strip
  OBVIOUS
<1>9. /\ MayStrip(p, d, h, echoes, TRUE) /\ StripAt(p, d, strip)
      /\ sanitizer.tail \o Between(p.chars, p.g[m], h) = Between(p.chars, d, h)
  <2>1. h >= p.g[m] /\ h <= Len(p.chars)
    BY <1>5, <1>6
  <2> QED BY <1>4, <1>6, <1>7, <1>8, <2>1, MayStripOn
<1>10. sanitizer.tail = Between(p.chars, d, h)
  BY <1>3, <1>4, <1>6 DEF Sanitized, Keeps, HeldBack
<1>11. PICK res : res = Strip(Between(p.chars, d, h), echoes, strip, TRUE)
  OBVIOUS
<1>12. Emit(res)
  BY <1>1, <1>7, <1>8, <1>10, <1>11 DEF SanitizerFlush
<1>13. /\ echoes \in SUBSET sanitizer.echoes /\ Awaits(p, y, echoes)
       /\ \A i \in d + 1 .. Len(p.chars) : EchoChar(p, i) => p.run[i] \in echoes
       /\ \A j \in 1 .. p.k[y] : ended[j].run \notin echoes
  BY <1>3, <1>4, <1>7 DEF Sanitized
<1>14. PICK e \in d .. h : /\ res.out = Between(text, p.user[d], p.user[e]) /\ Lets(p, y, e, res.sanitizer)
                           /\ Reaches(TRUE, e, h)
  BY <1>6, <1>9, <1>11, <1>13, StripLets
<1>15. PiecesLeft = Tail(pieces)
  BY <1>1, LeftIs
<1>16. PiecesLeft = <<>> /\ e = Len(p.chars)
  <2>1. e = h
    BY <1>14, Zenon DEF Reaches
  <2> QED BY <1>1, <1>2, <1>3, <1>6, <2>1, FlushStaysLast
<1>17. LogTells' /\ Story(p, e, y, n)'
  BY <1>1, <1>2, <1>6, <1>12, <1>14, <1>15, <1>16, EmitTells
<1> QED BY <1>17
-----------------------------------------------------------------------------
(* The end of a run *)

\* Where an echo is not under way nothing of one is kept back or stripped.
LEMMA NothingOfEcho ==
  ASSUME NEW p, Tale(p), NEW d, NEW m, Place(p, m), Sanitized(p, d, m), p.at[p.g[m]] = 0
  PROVE  /\ sanitizer.strip = NoStrip
         /\ \A i \in d + 1 .. p.g[m] : ~EchoChar(p, i)
<1>1. /\ p.g[m] \in 0 .. Len(p.chars) /\ d \in 0 .. p.g[m] /\ Len(p.chars) \in Nat /\ PlainInv(p)
  BY LenProperties DEF Tale, RawInv, PlainInv, Place, Sanitized
<1>2. /\ HeldBack(p, d, p.g[m], sanitizer.echoes, sanitizer.tail)
      /\ StripAt(p, d, sanitizer.strip) /\ (sanitizer.strip # NoStrip => d = p.g[m])
  BY DEF Sanitized, Keeps
<1>3. sanitizer.strip = NoStrip
  <2>1. SUFFICES ASSUME sanitizer.strip # NoStrip PROVE FALSE
    OBVIOUS
  <2>2. Within(sanitizer.strip, p.run[d], p.at[d]) /\ p.at[d] = 0
    BY <1>2, <2>1 DEF StripAt
  <2>3. p.at[d] >= EchoSize
    BY <2>2, WithinIs
  <2> QED BY <2>2, <2>3, PrefixIs
<1>4. ASSUME NEW i \in d + 1 .. p.g[m] PROVE ~EchoChar(p, i)
  <2>1. i \in 1 .. Len(p.chars) /\ p.g[m] \in d + 1 .. p.g[m]
    BY <1>1
  <2>2. ~(\A j \in d + 1 .. p.g[m] : p.at[j] # 0)
    BY <2>1
  <2>3. UserChar(p, i)
    BY <1>2, <2>2 DEF HeldBack
  <2> QED BY <1>1, <2>1, <2>3, CharIsOne
<1> QED BY <1>3, <1>4

\* Behind the place `m` the sentinel of `r` stands.
HasSentinel(p, m, r) == RawSentinel(p, m + 1) /\ r = p.raw[m + 2]
\* There the run `r` has ended, and its echoes are over.
EndsAt(p, m, r) ==
  /\ p.g[m + 2] = p.g[m] /\ p.k[m + 2] = p.k[m] + 1 /\ p.k[m] \in Nat
  /\ p.k[m] + 1 \in 1 .. Len(ended) /\ ended[p.k[m] + 1].run = r
  /\ ended[p.k[m] + 1].before = p.user[p.g[m]] /\ p.at[p.g[m]] = 0
  /\ \A i \in 1 .. Len(p.chars) : EchoChar(p, i) /\ p.run[i] = r => i <= p.g[m]

\* The story says so of every sentinel.
LEMMA SentinelStands ==
  ASSUME NEW p, Tale(p), EndedOnce, NEW m \in 0 .. Len(p.raw), NEW r, HasSentinel(p, m, r)
  PROVE  EndsAt(p, m, r)
<1>0. RawSentinel(p, m + 1) /\ r = p.raw[m + 2]
  BY DEF HasSentinel
<1>1. m \in Nat /\ m + 1 - 1 = m /\ m + 1 + 1 = m + 2
  <2>1. Len(p.raw) \in Nat
    BY LenProperties DEF Tale, RawInv
  <2> QED BY <2>1
<1>2. PICK k : k = p.k[m] + 1
  OBVIOUS
<1>3. /\ k \in 1 .. Len(ended) /\ p.raw[m + 2] = ended[k].run
      /\ p.g[m + 2] = p.g[m] /\ p.k[m + 2] = k /\ p.stand[k] = p.g[m]
  BY <1>0, <1>1, <1>2 DEF RawSentinel
<1>4. /\ p.at[p.stand[k]] = 0 /\ ended[k].before = p.user[p.stand[k]]
      /\ \A i \in 1 .. Len(p.chars) : EchoChar(p, i) /\ p.run[i] = ended[k].run => i <= p.stand[k]
  BY <1>3 DEF Tale, StandInv
<1>5. p.k[m] \in Nat
  BY SMTT(40) DEF Tale, RawInv
<1> QED BY <1>0, <1>2, <1>3, <1>4, <1>5 DEF EndsAt

\* The end of a run gives up its echo.
LEMMA TakeCompletionTells ==
  ASSUME IInv, Unmistakable, ~poisoned, ~stopped', LogTells, NEW p, NEW d, NEW m, NEW n, Story(p, d, m, n),
         TakePiece, Head(pieces).kind = "run_complete"
  PROVE  LogTells' /\ \E e, y : Story(p, e, y, n)'
<1>1. /\ pieces # <<>> /\ awaited = 0
      /\ Emit(Deregister(sanitizer, Head(pieces).run))
      /\ UNCHANGED <<landed, poisoned, scanner, unread, ptyExit, text, ended, typed>>
  BY DEF TakePiece, programVars
<1>2. PICK y : /\ Place(p, m) /\ Place(p, y) /\ Link(p, Head(pieces), m, y) /\ Leads(p, Tail(pieces), y, n)
               /\ ptyExit = "flushing" => LastIsFlush(pieces)
  BY <1>1, HeadLeads
<1>3. y = m + 2 /\ RawSentinel(p, m + 1) /\ Head(pieces).run = p.raw[m + 2]
  BY <1>2 DEF Link
<1>4. PICK r : r = Head(pieces).run
  OBVIOUS
<1>5. /\ Tale(p) /\ EndedOnce /\ Place(p, m) /\ Sanitized(p, d, m) /\ ProgramTypes
  BY <1>1, ScannerWaits
<1>6. /\ Len(p.chars) \in Nat /\ p.g[m] \in 0 .. Len(p.chars) /\ d \in 0 .. p.g[m] /\ m \in 0 .. Len(p.raw)
      /\ d \in 0 .. Len(p.chars)
  BY <1>5, HeldIs
<1>7. /\ p.g[y] = p.g[m] /\ p.k[y] = p.k[m] + 1 /\ p.k[m] \in Nat
      /\ p.k[m] + 1 \in 1 .. Len(ended) /\ ended[p.k[m] + 1].run = r /\ p.at[p.g[m]] = 0
      /\ \A i \in 1 .. Len(p.chars) : EchoChar(p, i) /\ p.run[i] = r => i <= p.g[m]
  <2>1. HasSentinel(p, m, r)
    BY <1>3, <1>4 DEF HasSentinel
  <2>2. EndsAt(p, m, r)
    BY <1>5, <1>6, <2>1, SentinelStands
  <2> QED BY <1>3, <2>2 DEF EndsAt
<1>8. sanitizer.strip = NoStrip /\ \A i \in d + 1 .. p.g[m] : ~EchoChar(p, i)
  BY <1>5, <1>7, NothingOfEcho
<1>9. PICK h \in Nat : h = p.g[y] /\ h = p.g[m] /\ h <= Len(p.chars)
  BY <1>6, <1>7
<1>10. PICK echoes : echoes = sanitizer.echoes \ {r}
  OBVIOUS
<1>11. /\ MayStrip(p, d, h, sanitizer.echoes, FALSE) /\ StripAt(p, d, NoStrip)
       /\ sanitizer.tail = Between(p.chars, d, h)
  <2>1. h >= p.g[m]
    BY <1>6, <1>9
  <2>2. MayStrip(p, d, h, sanitizer.echoes, FALSE) /\ StripAt(p, d, sanitizer.strip)
    BY <1>5, <1>9, <2>1, MayStripOn
  <2>3. sanitizer.tail = Between(p.chars, d, h)
    BY <1>5, <1>9 DEF Sanitized, Keeps, HeldBack
  <2> QED BY <1>8, <2>2, <2>3
<1>12. MayStrip(p, d, h, echoes, FALSE)
  BY <1>8, <1>9, <1>10, <1>11 DEF MayStrip
<1>13. PICK res : res = Strip(Between(p.chars, d, h), echoes, NoStrip, FALSE)
  OBVIOUS
<1>14. Emit(res)
  <2>1. {c \in sanitizer.strip.candidates : c.run # r} = {}
    BY <1>8 DEF NoStrip
  <2>2. Deregister(sanitizer, r) = res
    BY <1>10, <1>11, <1>13, <2>1 DEF Deregister
  <2> QED BY <1>1, <1>4, <2>2
<1>15. Awaits(p, y, echoes)
  <2>1. RawStory(p) /\ Awaits(p, m, sanitizer.echoes)
    BY <1>5 DEF RawStory, Tale, PlainInv, ProgramTypes, Sanitized
  <2> QED BY <1>3, <1>4, <1>5, <1>10, <2>1, NextIsActive
<1>16. \A j \in 1 .. p.k[y] : ended[j].run \notin echoes
  <2>1. ASSUME NEW j \in 1 .. p.k[y] PROVE ended[j].run \notin echoes
    <3>1. j \in 1 .. p.k[m] \/ j = p.k[m] + 1
      BY <1>7
    <3>2. CASE j \in 1 .. p.k[m]
      BY <1>5, <1>10, <3>2 DEF Sanitized
    <3>3. CASE j = p.k[m] + 1
      BY <1>7, <1>10, <3>3
    <3> QED BY <3>1, <3>2, <3>3
  <2> QED BY <2>1
<1>17. \A i \in d + 1 .. Len(p.chars) : EchoChar(p, i) => p.run[i] \in echoes
  <2>1. ASSUME NEW i \in d + 1 .. Len(p.chars), EchoChar(p, i) PROVE p.run[i] \in echoes
    <3>1. i \in 1 .. Len(p.chars) /\ i \in Nat
      BY <1>6
    <3>2. ~(i <= p.g[m])
      <4>1. i <= p.g[m] => i \in d + 1 .. p.g[m]
        BY <1>6
      <4> QED BY <1>8, <2>1, <4>1
    <3>3. p.run[i] # r
      BY <1>7, <2>1, <3>1, <3>2
    <3>4. p.run[i] \in sanitizer.echoes
      BY <1>5, <2>1 DEF Sanitized
    <3> QED BY <1>10, <3>3, <3>4
  <2> QED BY <2>1
<1>18. echoes \in SUBSET sanitizer.echoes
  BY <1>10
<1>19. PICK e \in d .. h : res.out = Between(text, p.user[d], p.user[e]) /\ Lets(p, y, e, res.sanitizer)
  BY <1>9, <1>11, <1>12, <1>13, <1>15, <1>16, <1>17, <1>18, StripLets
<1>20. Leads(p, PiecesLeft, y, n)
  <2>1. PICK record : record = [kind |-> "record", run |-> r]
    OBVIOUS
  <2>2. PiecesLeft = <<record>> \o Tail(pieces)
    BY <1>1, <1>4, <2>1 DEF PiecesLeft
  <2>3. y >= 2 /\ y - 1 = m + 1 /\ y \in Nat
    BY <1>3, <1>6
  <2>4. Link(p, record, y, y)
    BY <1>3, <1>4, <2>1, <2>3 DEF Link
  <2>5. Leads(p, <<record>>, y, y)
    BY <1>2, <2>4, LeadsByOne
  <2>6. PICK ps \in Seq(Piece) : ps = Tail(pieces)
    BY <1>1, LeftIs
  <2>7. record \in Piece
    <3>1. p.raw[m + 2] \in Runs
      <4>1. p.k[m] + 1 \in 1 .. Len(ended) /\ ended \in Seq([run : Runs, before : Nat])
        BY <1>5, <1>7 DEF EndedOnce
      <4>2. ended[p.k[m] + 1] \in [run : Runs, before : Nat]
        BY <4>1, ElementOfSeq
      <4> QED BY <1>3, <1>4, <1>7, <4>2
    <3> QED BY <1>3, <1>4, <2>1, <3>1 DEF Piece
  <2>8. <<record>> \in Seq(Piece)
    BY <2>7
  <2>9. Leads(p, <<record>> \o ps, y, n)
    BY <1>2, <2>5, <2>6, <2>8, LeadsOn
  <2> QED BY <2>2, <2>6, <2>9
<1>21. ptyExit = "flushing" => LastIsFlush(PiecesLeft)
  BY <1>1, <1>2, FlushStaysLast
<1>22. LogTells' /\ Story(p, e, y, n)'
  BY <1>1, <1>2, <1>9, <1>14, <1>19, <1>20, <1>21, EmitTells
<1> QED BY <1>22
-----------------------------------------------------------------------------
(* A completion is recorded *)

\* How far the log is behind what the run had printed.
LEMMA HowFarBehind ==
  ASSUME NEW p, NEW d, NEW m, Tale(p), EndedOnce, ProgramTypes, Place(p, m), Sanitized(p, d, m)
  PROVE  LET n == Len(Outputs(log))
             before == p.user[p.g[m]]
         IN  /\ n \in Nat /\ before \in Nat /\ n <= before /\ n > before - MaxEcho
             /\ sanitizer.echoes = {} => n = before
<1> DEFINE n == Len(Outputs(log))
           before == p.user[p.g[m]]
           held == Len(sanitizer.tail)
<1>1. /\ Len(p.chars) \in Nat /\ p.chars \in Seq(Characters) /\ Len(text) \in Nat
      /\ p.g[m] \in 0 .. Len(p.chars) /\ d \in 0 .. p.g[m] /\ d \in 0 .. Len(p.chars)
      /\ n = p.user[d] /\ n \in 0 .. Len(text)
  BY HeldIs
<1>2. p.g[m] \in d .. Len(p.chars)
  BY <1>1
<1>3. before \in n .. Len(text) /\ before <= n + (p.g[m] - d)
  BY <1>1, <1>2, UserGrows DEF Tale
<1>4. /\ sanitizer.tail = Between(p.chars, d, p.g[m])
      /\ sanitizer.tail # <<>> => sanitizer.echoes # {} /\ held < MaxEcho
  BY DEF Sanitized, Keeps, HeldBack
<1>5. held = p.g[m] - d
  <2>1. PICK h : h = p.g[m]
    OBVIOUS
  <2>2. Len(Between(p.chars, d, h)) = h - d
    BY <1>1, <1>2, <2>1, BetweenIs
  <2> QED BY <1>4, <2>1, <2>2
<1>6. MaxEcho \in Nat /\ MaxEcho > 0
  BY PrefixIs DEF MaxEcho, EchoSize
<1>7. sanitizer.tail = <<>> => held = 0
  OBVIOUS
<1>8. held < MaxEcho /\ (sanitizer.echoes = {} => held = 0)
  <2> HIDE DEF held
  <2> QED BY <1>4, <1>6, <1>7
<1>9. PICK g \in Nat : g = p.g[m]
  BY <1>1
<1> HIDE DEF n, before, held
<1>10. n \in Nat /\ before \in Nat /\ n <= before
  BY <1>1, <1>3
<1>11. before <= n + held
  <2>1. d \in Nat
    BY <1>1
  <2> QED BY <1>3, <1>5, <1>9
<1>12. n > before - MaxEcho /\ (sanitizer.echoes = {} => n = before)
  <2>1. held \in Nat
    BY <1>1, <1>2, <1>5, <1>9
  <2> QED BY <1>6, <1>8, <1>10, <1>11, <2>1
<1> QED BY <1>10, <1>12 DEF n, before

\* The record of a completion stands where the sentinel did.
LEMMA RecordIsInPlace ==
  ASSUME NEW p, NEW d, NEW m, Tale(p), EndedOnce, ProgramTypes, Place(p, m), Sanitized(p, d, m),
         NEW x \in 0 .. Len(p.raw), m = x + 2, NEW r, HasSentinel(p, x, r),
         NEW newest, newest = Len(log) + 1, IsSeq(log), IsSeq(log'), Len(log') = newest,
         \A j \in 1 .. Len(log) : log'[j] = log[j], Outputs(log') = Outputs(log), UNCHANGED ended,
         NEW k \in 1 .. Len(ended)
  PROVE  InPlace(r, newest, k)'
<1>1. SUFFICES ASSUME ended[k].run = r PROVE
        LET n == Len(Outputs(log))
        IN  n <= ended[k].before /\ n > ended[k].before - MaxEcho /\ (Alone(r, newest)' => n = ended[k].before)
  <2>1. SubSeq(log', 1, newest) = log'
    <3>1. Len(log') \in Nat /\ log' \in Seq({log'[i] : i \in DOMAIN log'})
      BY SeqShape DEF IsSeq
    <3>2. Between(log', 0, Len(log')) = log'
      BY <3>1, BetweenAll
    <3> QED BY <3>2 DEF Between
  <2>2. Outputs(SubSeq(log', 1, newest)) = Outputs(log)
    BY <2>1
  <2> QED BY <2>2 DEF InPlace
<1>2. EndsAt(p, x, r)
  BY SentinelStands
<1>3. k = p.k[x] + 1
  BY <1>1, <1>2 DEF EndsAt, EndedOnce
<1>4. ended[k].before = p.user[p.g[m]] /\ p.k[m] = k
  BY <1>2, <1>3 DEF EndsAt
<1>5. Alone(r, newest)' => sanitizer.echoes = {}
  <2>1. SUFFICES ASSUME Alone(r, newest)', NEW q \in sanitizer.echoes PROVE FALSE
    OBVIOUS
  <2>2. PICK j \in 1 .. Len(log) : log[j] = [kind |-> "input_run", run |-> q]
    BY DEF Sanitized
  <2>3. j \in 1 .. newest /\ log'[j] = log[j]
    BY <2>2, SeqShape
  <2>4. q = r
    BY <2>1, <2>2, <2>3 DEF Alone
  <2>5. k \in 1 .. p.k[m]
    BY <1>4
  <2> QED BY <1>1, <2>4, <2>5 DEF Sanitized
<1>6. LET n == Len(Outputs(log))
          before == p.user[p.g[m]]
      IN  /\ n \in Nat /\ before \in Nat /\ n <= before /\ n > before - MaxEcho
          /\ sanitizer.echoes = {} => n = before
  BY HowFarBehind
<1> QED BY <1>4, <1>5, <1>6

\* A completion is appended.
LEMMA TakeRecordTells ==
  ASSUME IInv, ~poisoned, ~stopped', LogTells, NEW p, NEW d, NEW m, NEW n, Story(p, d, m, n),
         TakePiece, Head(pieces).kind = "record"
  PROVE  LogTells' /\ \E e, y : Story(p, e, y, n)'
<1>1. PICK r : r = Head(pieces).run
  OBVIOUS
<1>2. PICK record : record = [kind |-> "run_complete", run |-> r, input |-> active[r]]
  OBVIOUS
<1>3. /\ pieces # <<>> /\ awaited = 0 /\ Enqueue(record) /\ awaited' # 0
      /\ UNCHANGED <<sanitizer, pieces, landed, poisoned, scanner, unread, ptyExit, text, ended, typed>>
  <2>1. /\ pieces # <<>> /\ awaited = 0 /\ AppendRecord(record) /\ awaited' = Acknowledged
        /\ UNCHANGED <<sanitizer, pieces, landed, poisoned, scanner, unread, ptyExit, text, ended, typed>>
    BY <1>1, <1>2 DEF TakePiece, programVars
  <2> QED BY <2>1, AwaitsItsOwn
<1>4. PICK y : /\ Place(p, m) /\ Place(p, y) /\ Link(p, Head(pieces), m, y) /\ Leads(p, Tail(pieces), y, n)
               /\ ptyExit = "flushing" => LastIsFlush(pieces)
  BY <1>3, HeadLeads
<1>5. y = m /\ m >= 2 /\ RawSentinel(p, m - 1) /\ r = p.raw[m]
  BY <1>1, <1>4 DEF Link
<1>6. /\ Tale(p) /\ EndedOnce /\ Place(p, m) /\ Sanitized(p, d, m) /\ ProgramTypes
  BY <1>3, ScannerWaits
<1>7. /\ Len(p.raw) \in Nat /\ m \in 0 .. Len(p.raw) /\ p.user[d] \in 0 .. Len(text) /\ Len(ended) \in Nat
      /\ Outputs(log) = Between(text, 0, p.user[d]) /\ Outputs(log) \in Seq(Characters)
  BY <1>6, HeldIs
<1>8. PICK x \in 0 .. Len(p.raw) : m = x + 2 /\ m - 1 = x + 1
  BY <1>5, <1>7
<1>9. HasSentinel(p, x, r)
  BY <1>5, <1>8 DEF HasSentinel
<1>10. LogTypes /\ IsSeq(log) /\ Len(log) \in Nat
  BY SeqShape DEF IInv, Types, LogTypes
<1>11. /\ LogTypes' /\ Len(log') = Len(log) + 1
       /\ \A i \in 1 .. Len(log) : log'[i] = log[i]
  BY <1>3, <1>10, LogGrows
<1>12. PICK newest : newest = Len(log) + 1
  OBVIOUS
<1>13. record.kind = "run_complete" /\ Outputs(log) \o OutputOf(record) = Outputs(log)
  <2>1. record.kind = "run_complete"
    BY <1>2
  <2> QED BY <1>7, <2>1, NothingMoreHeld
<1>14. Outputs(log') = Outputs(log)
  <2>1. OutputOf(log'[Len(log) + 1]) = OutputOf(record)
    BY <1>3, <1>10, LogGrows
  <2>2. Outputs(log') = Outputs(log) \o OutputOf(log'[Len(log) + 1])
    BY <1>10, <1>11, OutputsGrow
  <2> QED BY <1>13, <2>1, <2>2
<1>15. \A q \in Runs : newest \in CompletionsOf(q)' => \A k \in DOMAIN ended' : InPlace(q, newest, k)'
  <2>1. SUFFICES ASSUME NEW q \in Runs, newest \in CompletionsOf(q)', NEW k \in DOMAIN ended'
                 PROVE  InPlace(q, newest, k)'
    OBVIOUS
  <2>2. log'[newest] = record
    BY <1>3, <1>10, <1>12, LogGrows
  <2>3. q = r
    BY <1>2, <2>1, <2>2 DEF CompletionsOf
  <2>4. k \in 1 .. Len(ended) /\ UNCHANGED ended /\ IsSeq(log')
    <3>1. ended \in Seq([run : Runs, before : Nat])
      BY <1>6 DEF EndedOnce
    <3> QED BY <1>3, <1>11, <3>1, LenProperties DEF LogTypes
  <2>5. InPlace(r, newest, k)'
    BY <1>6, <1>8, <1>9, <1>10, <1>11, <1>12, <1>14, <2>4, RecordIsInPlace
  <2> QED BY <2>3, <2>5
<1>16. LogTells'
  <2>1. ptyExit \notin {"handled", "reset"}
    BY <1>3 DEF IInv, Phases
  <2>2. PICK u \in 0 .. Len(text) : u = p.user[d]
    BY <1>7
  <2>3. Outputs(log) \o OutputOf(record) = Between(text, 0, u)
    BY <1>7, <1>13, <2>2
  <2> QED BY <1>3, <1>12, <1>13, <1>15, <2>1, <2>3, LongerLogTells
<1>17. PICK ps \in Seq(Piece) : ps = PiecesLeft /\ Len(ps) \in Nat /\ ps = Tail(pieces)
  BY <1>3, LeftIs, LenProperties
<1>18. Pending' = ps
  <2>1. awaited' # 0 /\ PiecesLeft' = PiecesLeft
    BY <1>3 DEF PiecesLeft
  <2> QED BY <1>17, <2>1 DEF Pending
<1>19. Story(p, d, m, n)'
  <2>1. PICK san : san = sanitizer
    OBVIOUS
  <2>2. Lets(p, m, d, san) /\ sanitizer' = san
    BY <1>3, <1>6, <2>1 DEF Lets, Sanitized
  <2>3. Leads(p, ps, m, n) /\ (ptyExit = "flushing" => LastIsFlush(ps) \/ (ps = <<>> /\ d = Len(p.chars)))
    BY <1>3, <1>4, <1>5, <1>17, FlushStaysLast
  <2>4. Outputs(log') = Between(text, 0, p.user[d])
    BY <1>7, <1>14
  <2>5. \A j \in 1 .. Len(log) : j \in 1 .. Len(log') /\ log'[j] = log[j]
    BY <1>10, <1>11
  <2> QED BY <1>3, <1>4, <1>17, <1>18, <2>2, <2>3, <2>4, <2>5, PieceTells
<1> QED BY <1>16, <1>19

\* A piece is taken.
LEMMA TakePieceTells ==
  ASSUME IInv, Unmistakable, ~poisoned, ~stopped', LogTells, NEW p, NEW d, NEW m, NEW n, Story(p, d, m, n), TakePiece
  PROVE  LogTells' /\ \E e, y : Story(p, e, y, n)'
<1>1. pieces # <<>> /\ pieces \in Seq(Piece)
  BY ProgramIsTyped DEF TakePiece
<1>2. Head(pieces) \in Piece
  BY <1>1
<1>3. Head(pieces).kind \in {"output", "run_complete", "flush", "record"}
  BY <1>2 DEF Piece
<1> QED BY <1>3, TakeOutputTells, TakeCompletionTells, TakeFlushTells, TakeRecordTells
-----------------------------------------------------------------------------
(* The program prints *)

\* When what is printed has its place in the story, the host has got as far as before.
LEMMA PrintsTell ==
  ASSUME IInv, NEW p, NEW d, NEW m, NEW n, Story(p, d, m, n), ptyExit = "no",
         UNCHANGED <<log, scanner, sanitizer, pieces, awaited, ptyExit, typed>>,
         NEW q, Tale(q)', EndedOnce', Follows(p, q), TextGrows,
         NEW more \in Seq(Characters), q.raw = p.raw \o more, unread' = unread \o more,
         \A i \in Len(p.chars) + 1 .. Len(q.chars) : EchoChar(q, i)' => q.run[i] \in sanitizer.echoes
  PROVE  Story(q, d, m, n)'
<1>1. /\ Tale(p) /\ EndedOnce /\ Place(p, m) /\ Sanitized(p, d, m) /\ ScannedTo(p, n)
      /\ ProgramTypes /\ scanner.tail \in Seq(Characters) /\ unread \in Seq(Characters)
      /\ scanner = [active |-> scanner.active, tail |-> scanner.tail]
  BY ProgramIsTyped DEF Story
<1>2. Sanitized(q, d, m)'
  <2>1. sanitizer = [echoes |-> sanitizer.echoes, strip |-> sanitizer.strip, tail |-> sanitizer.tail]
        /\ sanitizer.echoes \in SUBSET Runs
    BY <1>1 DEF Sanitized, Keeps
  <2>2. PICK other : other = sanitizer.echoes
    OBVIOUS
  <2>3. /\ sanitizer' = [echoes |-> other, strip |-> sanitizer.strip, tail |-> sanitizer.tail]
        /\ other \in SUBSET Runs /\ sanitizer.echoes \subseteq other /\ typed' \ typed \subseteq other
        /\ other \ sanitizer.echoes = {}
    BY <2>1, <2>2
  <2> QED BY <1>1, <2>2, <2>3, SanitizedStays
<1>3. ScannedTo(q, n)'
  <2>1. PICK other : other = scanner.active
    OBVIOUS
  <2>2. scanner' = [active |-> other, tail |-> scanner.tail] /\ scanner.active \subseteq other
        /\ typed' \ typed \subseteq other
    BY <1>1, <2>1
  <2> QED BY <1>1, <2>2, ScannedStays
<1>4. Pending' = Pending
  BY DEF Pending, PiecesLeft
<1> QED BY <1>2, <1>3, <1>4, StoryOf

\* Characters come to the story, and `new` says what they are.
Adds(p, q, word, new) ==
  LET N == Len(p.chars)
      M == Len(p.raw)
      L == Len(word)
  IN  /\ q.chars = p.chars \o word /\ q.raw = p.raw \o word /\ q.stand = p.stand
      /\ q.user = [i \in 0 .. N + L |-> IF i <= N THEN p.user[i] ELSE new.user[i - N]]
      /\ q.at = [i \in 0 .. N + L |-> IF i <= N THEN p.at[i] ELSE new.at[i - N]]
      /\ q.run = [i \in 1 .. N + L |-> IF i <= N THEN p.run[i] ELSE new.run]
      /\ q.echo = [i \in 1 .. N + L |-> IF i <= N THEN p.echo[i] ELSE new.echo]
      /\ q.g = [i \in 0 .. M + L |-> IF i <= M THEN p.g[i] ELSE N + (i - M)]
      /\ q.k = [i \in 0 .. M + L |-> IF i <= M THEN p.k[i] ELSE Len(ended)]

\* There is a story with them.
LEMMA AddsExists ==
  ASSUME NEW p, NEW word, NEW new
  PROVE  \E q : Adds(p, q, word, new)
<1> DEFINE N == Len(p.chars)
           M == Len(p.raw)
           L == Len(word)
<1>1. PICK a : a = p.chars \o word
  OBVIOUS
<1>2. PICK h : h = p.raw \o word
  OBVIOUS
<1>3. PICK b : b = [i \in 0 .. N + L |-> IF i <= N THEN p.user[i] ELSE new.user[i - N]]
  OBVIOUS
<1>4. PICK c : c = [i \in 0 .. N + L |-> IF i <= N THEN p.at[i] ELSE new.at[i - N]]
  OBVIOUS
<1>5. PICK e : e = [i \in 1 .. N + L |-> IF i <= N THEN p.run[i] ELSE new.run]
  OBVIOUS
<1>6. PICK f : f = [i \in 1 .. N + L |-> IF i <= N THEN p.echo[i] ELSE new.echo]
  OBVIOUS
<1>7. PICK g : g = [i \in 0 .. M + L |-> IF i <= M THEN p.g[i] ELSE N + (i - M)]
  OBVIOUS
<1>8. PICK k : k = [i \in 0 .. M + L |-> IF i <= M THEN p.k[i] ELSE Len(ended)]
  OBVIOUS
<1>9. PICK l : l = p.stand
  OBVIOUS
<1>10. PICK q : /\ q.chars = a /\ q.user = b /\ q.at = c /\ q.run = e /\ q.echo = f
                /\ q.raw = h /\ q.g = g /\ q.k = k /\ q.stand = l
  <2>1. PICK q : q = [chars |-> a, user |-> b, at |-> c, run |-> e, echo |-> f,
                      raw |-> h, g |-> g, k |-> k, stand |-> l]
    OBVIOUS
  <2>2. /\ q.chars = a /\ q.user = b /\ q.at = c /\ q.run = e /\ q.echo = f
        /\ q.raw = h /\ q.g = g /\ q.k = k /\ q.stand = l
    BY <2>1
  <2> QED BY <2>2
<1>11. Adds(p, q, word, new)
  BY <1>1, <1>2, <1>3, <1>4, <1>5, <1>6, <1>7, <1>8, <1>9, <1>10, Zenon DEF Adds
<1> QED BY <1>11

\* What it says of the old characters,
LEMMA AddsKeeps ==
  ASSUME NEW p, NEW q, NEW word \in Seq(Characters), NEW new,
         Adds(p, q, word, new), p.chars \in Seq(Characters), p.raw \in Seq(Characters)
  PROVE  /\ Len(p.chars) \in Nat /\ Len(p.raw) \in Nat /\ Len(word) \in Nat
         /\ CharsGrow(p, q) /\ RawGrows(p, q)
         /\ Len(q.chars) = Len(p.chars) + Len(word) /\ Len(q.raw) = Len(p.raw) + Len(word)
<1> DEFINE N == Len(p.chars)
           M == Len(p.raw)
           L == Len(word)
<1>1. N \in Nat /\ M \in Nat /\ L \in Nat
  BY LenProperties
<1>2. /\ q.chars \in Seq(Characters) /\ Len(q.chars) = N + L /\ \A i \in 1 .. N : q.chars[i] = p.chars[i]
  <2>1. 0 \in 0 .. N
    BY <1>1
  <2> QED BY <2>1, BetweenGrows DEF Adds
<1>3. /\ q.raw \in Seq(Characters) /\ Len(q.raw) = M + L /\ \A i \in 1 .. M : q.raw[i] = p.raw[i]
  <2>1. 0 \in 0 .. M
    BY <1>1
  <2> QED BY <2>1, BetweenGrows DEF Adds
<1>4. /\ \A i \in 0 .. N : i \in 0 .. N + L /\ i <= N
      /\ \A i \in 1 .. N : i \in 1 .. N + L /\ i <= N
      /\ \A i \in 0 .. M : i \in 0 .. M + L /\ i <= M
      /\ N <= N + L /\ M <= M + L
  <2> HIDE DEF N, M, L
  <2> QED BY <1>1
<1>5. \A i \in 0 .. N : q.user[i] = p.user[i] /\ q.at[i] = p.at[i]
  BY <1>4 DEF Adds
<1>6. \A i \in 1 .. N : q.run[i] = p.run[i] /\ q.echo[i] = p.echo[i]
  BY <1>4 DEF Adds
<1>7. \A i \in 0 .. M : q.g[i] = p.g[i] /\ q.k[i] = p.k[i]
  BY <1>4 DEF Adds
<1>8. q.stand = p.stand
  BY DEF Adds
<1>9. CharsGrow(p, q)
  BY <1>2, <1>4, <1>5, <1>6 DEF CharsGrow
<1>10. RawGrows(p, q)
  BY <1>3, <1>4, <1>7, <1>8 DEF RawGrows
<1> QED BY <1>1, <1>2, <1>3, <1>9, <1>10

\* What it says of the j-th of the new ones.
NewIs(p, q, word, new, j) ==
  LET i == Len(p.chars) + j
      m == Len(p.raw) + j
  IN  /\ q.chars[i] = word[j] /\ q.user[i] = new.user[j] /\ q.at[i] = new.at[j]
      /\ q.run[i] = new.run /\ q.echo[i] = new.echo
      /\ q.raw[m] = word[j] /\ q.g[m] = i /\ q.k[m] = Len(ended)

\* and of each of the new ones.
LEMMA AddsSays ==
  ASSUME NEW p, NEW q, NEW word \in Seq(Characters), NEW new,
         Adds(p, q, word, new), p.chars \in Seq(Characters), p.raw \in Seq(Characters),
         NEW j \in 1 .. Len(word)
  PROVE  NewIs(p, q, word, new, j)
<1> DEFINE N == Len(p.chars)
           M == Len(p.raw)
           L == Len(word)
<1>1. N \in Nat /\ M \in Nat /\ L \in Nat /\ j \in Nat
  BY LenProperties
<1>2. \A x \in 1 .. N + L : (p.chars \o word)[x] = IF x <= N THEN p.chars[x] ELSE word[x - N]
  BY ConcatProperties
<1>3. \A x \in 1 .. M + L : (p.raw \o word)[x] = IF x <= M THEN p.raw[x] ELSE word[x - M]
  BY ConcatProperties
<1>4. PICK i : i = N + j
  OBVIOUS
<1>5. PICK m : m = M + j
  OBVIOUS
<1>6. /\ i \in 1 .. N + L /\ i \in 0 .. N + L /\ ~(i <= N) /\ i - N = j
      /\ m \in 1 .. M + L /\ m \in 0 .. M + L /\ ~(m <= M) /\ m - M = j
  <2>1. j \in 1 .. L
    OBVIOUS
  <2> HIDE DEF N, M, L
  <2> QED BY <1>1, <1>4, <1>5, <2>1
<1>7. q.chars[i] = word[j] /\ q.raw[m] = word[j]
  BY <1>2, <1>3, <1>6 DEF Adds
<1>8. q.user[i] = new.user[j] /\ q.at[i] = new.at[j] /\ q.run[i] = new.run /\ q.echo[i] = new.echo
  BY <1>6 DEF Adds
<1>9. q.g[m] = i /\ q.k[m] = Len(ended)
  BY <1>6, <1>4, ZenonT(60) DEF Adds
<1> QED BY <1>7, <1>8, <1>9, <1>4, <1>5 DEF NewIs
-----------------------------------------------------------------------------
(* Characters that come to the terminal *)

\* No ESC in a word begins a sentinel, whatever follows.
Closed(word) == \A j \in 1 .. Len(word) : word[j] = "esc" => j + 1 <= Len(word) /\ word[j + 1] \notin Runs

\* The story that says what they are goes on.
LEMMA AddsFollows ==
  ASSUME NEW p, Tale(p), EndedOnce, UNCHANGED <<ended, typed>>, NEW q, NEW word \in Seq(Characters),
         NEW new, Adds(p, q, word, new)
  PROVE  /\ Follows(p, q) /\ p.chars \in Seq(Characters) /\ p.raw \in Seq(Characters)
         /\ Len(ended) \in Nat
<1>1. p.chars \in Seq(Characters) /\ p.raw \in Seq(Characters) /\ RawInv(p)
  BY DEF Tale, PlainInv, RawInv
<1>2. CharsGrow(p, q) /\ RawGrows(p, q)
  BY <1>1, AddsKeeps
<1>3. Len(ended) \in Nat
  <2>1. ended \in Seq([run : Runs, before : Nat])
    BY DEF EndedOnce
  <2> QED BY <2>1, LenProperties
<1>4. EndedGrows
  BY <1>3 DEF EndedGrows
<1> QED BY <1>1, <1>2, <1>3, <1>4 DEF Follows

\* A new character is where it should be.
LEMMA AddsPlace ==
  ASSUME NEW p, NEW q, NEW word \in Seq(Characters), Closed(word), NEW new,
         Adds(p, q, word, new), p.chars \in Seq(Characters), p.raw \in Seq(Characters),
         p.g[Len(p.raw)] = Len(p.chars), p.k[Len(p.raw)] = Len(ended), NEW j \in 1 .. Len(word)
  PROVE  RawChar(q, Len(p.raw) + j)'
<1> DEFINE N == Len(p.chars)
           M == Len(p.raw)
           L == Len(word)
<1>1. /\ N \in Nat /\ M \in Nat /\ L \in Nat
      /\ CharsGrow(p, q) /\ RawGrows(p, q) /\ Len(q.chars) = N + L /\ Len(q.raw) = M + L
  BY AddsKeeps
<1>2. PICK i : i = N + j
  OBVIOUS
<1>3. PICK m : m = M + j
  OBVIOUS
<1>4. q.chars[i] = word[j] /\ q.raw[m] = word[j] /\ q.g[m] = i /\ q.k[m] = Len(ended)
  <2>1. NewIs(p, q, word, new, j)
    BY AddsSays
  <2> QED BY <1>2, <1>3, <2>1 DEF NewIs
<1>5. q.g[m - 1] = i - 1 /\ q.k[m - 1] = Len(ended)
  <2>1. CASE j = 1
    <3>1. m - 1 = M /\ i - 1 = N /\ M \in 0 .. M
      BY <1>1, <1>2, <1>3, <2>1
    <3>2. q.g[M] = p.g[M] /\ q.k[M] = p.k[M]
      BY <1>1, <3>1 DEF RawGrows
    <3> QED BY <3>1, <3>2
  <2>2. CASE j # 1
    <3>1. PICK l \in 1 .. Len(word) : l = j - 1
      BY <1>1, <2>2
    <3>2. PICK o : o = m - 1
      OBVIOUS
    <3>3. PICK c : c = i - 1
      OBVIOUS
    <3>4. o = M + l /\ c = N + l
      BY <1>1, <1>2, <1>3, <3>1, <3>2, <3>3
    <3>5. q.g[o] = c /\ q.k[o] = Len(ended)
      <4>1. NewIs(p, q, word, new, l)
        BY AddsSays
      <4> QED BY <3>4, <4>1 DEF NewIs
    <3> QED BY <3>2, <3>3, <3>5
  <2> QED BY <2>1, <2>2
<1>6. q.raw[m] = "esc" => m + 1 <= Len(q.raw) /\ q.raw[m + 1] \notin Runs
  <2>1. SUFFICES ASSUME word[j] = "esc" PROVE m + 1 <= Len(q.raw) /\ q.raw[m + 1] \notin Runs
    BY <1>4
  <2>2. j + 1 <= L /\ word[j + 1] \notin Runs
    BY <2>1 DEF Closed
  <2>3. PICK l \in 1 .. Len(word) : l = j + 1
    BY <1>1, <2>2
  <2>4. PICK o : o = m + 1
    OBVIOUS
  <2>5. PICK c : c = N + l
    OBVIOUS
  <2>6. o = M + l /\ o <= M + L
    <3> HIDE DEF M, L
    <3> QED BY <1>1, <1>3, <2>2, <2>3, <2>4
  <2>7. q.raw[o] = word[l]
    <3>1. NewIs(p, q, word, new, l)
      BY AddsSays
    <3> QED BY <2>6, <3>1 DEF NewIs
  <2> QED BY <1>1, <2>2, <2>3, <2>4, <2>6, <2>7
<1>7. i = i - 1 + 1
  BY <1>1, <1>2
<1>8. RawChar(q, m)'
  BY <1>4, <1>5, <1>6, <1>7 DEF RawChar
<1> QED BY <1>3, <1>8

\* So the story of the terminal stays true.
LEMMA AddsRaw ==
  ASSUME NEW p, Tale(p), EndedOnce, UNCHANGED <<ended, typed>>, NEW q, NEW word \in Seq(Characters),
         Closed(word), NEW new, Adds(p, q, word, new)
  PROVE  RawInv(q)'
<1> DEFINE N == Len(p.chars)
           M == Len(p.raw)
           L == Len(word)
           K == Len(ended)
<1>1. Follows(p, q) /\ p.chars \in Seq(Characters) /\ p.raw \in Seq(Characters) /\ K \in Nat
  BY AddsFollows
<1>2. /\ N \in Nat /\ M \in Nat /\ L \in Nat
      /\ Len(q.chars) = N + L /\ Len(q.raw) = M + L
  BY <1>1, AddsKeeps
<1>3. /\ p.g \in [0 .. M -> 0 .. N] /\ p.k \in [0 .. M -> 0 .. K]
      /\ p.g[M] = N /\ p.k[M] = K
  BY DEF Tale, RawInv
<1>4. /\ q.g = [i \in 0 .. M + L |-> IF i <= M THEN p.g[i] ELSE N + (i - M)]
      /\ q.k = [i \in 0 .. M + L |-> IF i <= M THEN p.k[i] ELSE K]
  BY DEF Adds
<1>5. /\ q.g \in [0 .. M + L -> 0 .. N + L] /\ q.k \in [0 .. M + L -> 0 .. K]
      /\ q.g[M + L] = N + L /\ q.k[M + L] = K
  <2> HIDE DEF N, M, L, K
  <2>1. ASSUME NEW i \in 0 .. M + L
        PROVE  /\ (IF i <= M THEN p.g[i] ELSE N + (i - M)) \in 0 .. N + L
               /\ (IF i <= M THEN p.k[i] ELSE K) \in 0 .. K
    <3>1. CASE i <= M
      <4>1. i \in 0 .. M
        BY <1>2, <3>1
      <4>2. p.g[i] \in 0 .. N /\ p.k[i] \in 0 .. K
        BY <1>3, <4>1
      <4> QED BY <1>2, <3>1, <4>2
    <3>2. CASE ~(i <= M)
      BY <1>1, <1>2, <3>2
    <3> QED BY <3>1, <3>2
  <2>2. q.g \in [0 .. M + L -> 0 .. N + L] /\ q.k \in [0 .. M + L -> 0 .. K]
    BY <1>4, <2>1
  <2>3. M + L \in 0 .. M + L
    BY <1>2
  <2>4. CASE L = 0
    <3>1. M + L = M /\ N + L = N
      BY <1>2, <2>4
    <3> QED BY <1>2, <1>3, <1>4, <2>2, <2>3, <3>1
  <2>5. CASE L # 0
    <3>1. ~(M + L <= M) /\ N + (M + L - M) = N + L
      BY <1>2, <2>5
    <3> QED BY <1>4, <2>2, <2>3, <3>1, SMTT(40)
  <2> QED BY <2>2, <2>4, <2>5
<1>6. \A m \in M + 1 .. M + L : RawChar(q, m)'
  <2>1. SUFFICES ASSUME NEW m \in M + 1 .. M + L PROVE RawChar(q, m)'
    OBVIOUS
  <2>2. PICK j \in 1 .. L : m = M + j
    <3> HIDE DEF M, L
    <3>1. m - M \in 1 .. L /\ m = M + (m - M)
      BY <1>2
    <3> QED BY <3>1
  <2>3. RawChar(q, M + j)'
    BY <1>1, <1>3, AddsPlace
  <2> QED BY <2>2, <2>3
<1>7. Len(ended') = K
  OBVIOUS
<1> QED BY <1>1, <1>2, <1>5, <1>6, <1>7, RawGoesOn
-----------------------------------------------------------------------------
(* What new characters are *)

\* The new places in the program's text and in echoes are numbers, and the last
\* is the end of the text, outside of echoes.
NewNumbers(word, new) ==
  /\ \A j \in 1 .. Len(word) : new.user[j] \in 0 .. Len(text') /\ new.at[j] \in Nat
  /\ IF Len(word) = 0 THEN Len(text') = Len(text)
     ELSE new.user[Len(word)] = Len(text') /\ new.at[Len(word)] = 0

\* So the story of the characters keeps its numbers.
LEMMA AddsNumbers ==
  ASSUME NEW p, PlainInv(p), TextGrows, NEW q, NEW word \in Seq(Characters), NEW new,
         Adds(p, q, word, new), NewNumbers(word, new), Len(q.chars) = Len(p.chars) + Len(word)
  PROVE  /\ q.user \in [0 .. Len(q.chars) -> 0 .. Len(text')] /\ q.at \in [0 .. Len(q.chars) -> Nat]
         /\ q.user[Len(q.chars)] = Len(text') /\ q.at[Len(q.chars)] = 0
<1> DEFINE N == Len(p.chars)
           L == Len(word)
           T == Len(text)
           U == Len(text')
           all == N + L
<1>1. N \in Nat /\ L \in Nat /\ T \in Nat /\ U \in Nat /\ T <= U
  BY LenProperties DEF PlainInv, TextGrows
<1>2. /\ p.user \in [0 .. N -> 0 .. T] /\ p.at \in [0 .. N -> Nat] /\ p.user[N] = T /\ p.at[N] = 0
  BY DEF PlainInv
<1>3. /\ q.user = [i \in 0 .. N + L |-> IF i <= N THEN p.user[i] ELSE new.user[i - N]]
      /\ q.at = [i \in 0 .. N + L |-> IF i <= N THEN p.at[i] ELSE new.at[i - N]]
  BY DEF Adds
<1>4. /\ \A j \in 1 .. L : new.user[j] \in 0 .. U /\ new.at[j] \in Nat
      /\ L = 0 => U = T
      /\ L # 0 => new.user[L] = U /\ new.at[L] = 0
  BY DEF NewNumbers
<1>5. Len(q.chars) = all
  OBVIOUS
<1> HIDE DEF N, L, T, U
<1>6. ASSUME NEW i \in 0 .. all
      PROVE  /\ (IF i <= N THEN p.user[i] ELSE new.user[i - N]) \in 0 .. U
             /\ (IF i <= N THEN p.at[i] ELSE new.at[i - N]) \in Nat
  <2>1. CASE i <= N
    <3>1. i \in 0 .. N
      BY <1>1, <2>1
    <3>2. p.user[i] \in 0 .. T /\ p.at[i] \in Nat
      BY <1>2, <3>1
    <3> QED BY <1>1, <2>1, <3>2
  <2>2. CASE ~(i <= N)
    <3>1. PICK j \in 1 .. L : j = i - N
      BY <1>1, <2>2
    <3> QED BY <1>4, <2>2, <3>1
  <2> QED BY <2>1, <2>2
<1>7. q.user \in [0 .. all -> 0 .. U] /\ q.at \in [0 .. all -> Nat]
  BY <1>3, <1>6
<1>8. all \in 0 .. all
  BY <1>1
<1>9. q.user[all] = U /\ q.at[all] = 0
  <2>1. CASE L = 0
    <3>1. all = N /\ all <= N
      BY <1>1, <2>1
    <3>2. q.user[all] = p.user[all] /\ q.at[all] = p.at[all]
      BY <1>3, <1>8, <3>1
    <3> QED BY <1>2, <1>4, <2>1, <3>1, <3>2
  <2>2. CASE L # 0
    <3>1. ~(all <= N) /\ all - N = L
      BY <1>1, <2>2
    <3>2. q.user[all] = new.user[all - N] /\ q.at[all] = new.at[all - N]
      BY <1>3, <1>8, <3>1
    <3> QED BY <1>4, <2>2, <3>1, <3>2
  <2> QED BY <2>1, <2>2
<1> HIDE DEF all
<1>10. q.user[Len(q.chars)] = U /\ q.at[Len(q.chars)] = 0
  BY <1>5, <1>9
<1>11. q.user \in [0 .. Len(q.chars) -> 0 .. U] /\ q.at \in [0 .. Len(q.chars) -> Nat]
  BY <1>5, <1>7
<1> QED BY <1>10, <1>11 DEF U

\* A new character is one of an echo that is expected, or the program's.
NewChar(q, i) ==
  \/ /\ EchoChar(q, i)' /\ q.run[i] \in sanitizer.echoes
     /\ \A k \in 1 .. Len(ended) : ended[k].run # q.run[i]
  \/ /\ UserChar(q, i)' /\ ~EchoChar(q, i)'
     /\ \E j \in i .. Len(q.chars) : Whole(q, i, j)'

\* The story goes on with them.
LEMMA AddsTell ==
  ASSUME IInv, NEW p, NEW d, NEW m, NEW n, Story(p, d, m, n), ptyExit = "no",
         UNCHANGED <<log, scanner, sanitizer, pieces, awaited, ptyExit, typed, ended>>, TextGrows,
         NEW word \in Seq(Characters), Closed(word), unread' = unread \o word,
         NEW q, NEW new, Adds(p, q, word, new), NewNumbers(word, new),
         \A i \in Len(p.chars) + 1 .. Len(q.chars) : NewChar(q, i)
  PROVE  Story(q, d, m, n)'
<1>1. Tale(p) /\ EndedOnce /\ ProgramTypes
  BY ProgramIsTyped DEF Story
<1>2. Follows(p, q) /\ p.chars \in Seq(Characters) /\ p.raw \in Seq(Characters) /\ Len(ended) \in Nat
  BY <1>1, AddsFollows
<1>3. CharsGrow(p, q) /\ Len(q.chars) = Len(p.chars) + Len(word)
  BY <1>2, AddsKeeps
<1>4. RawInv(q)'
  BY <1>1, AddsRaw
<1>5. PlainInv(q)'
  <2>1. /\ q.user \in [0 .. Len(q.chars) -> 0 .. Len(text')] /\ q.at \in [0 .. Len(q.chars) -> Nat]
        /\ q.user[Len(q.chars)] = Len(text') /\ q.at[Len(q.chars)] = 0
    BY <1>1, <1>3, AddsNumbers DEF Tale
  <2>2. \A i \in Len(p.chars) + 1 .. Len(q.chars) :
          EchoChar(q, i)' \/ (UserChar(q, i)' /\ \E j \in i .. Len(q.chars) : Whole(q, i, j)')
    BY DEF NewChar
  <2>3. PlainInv(p) /\ typed \subseteq typed'
    BY <1>1 DEF Tale
  <2> QED BY <1>1, <1>3, <2>1, <2>2, <2>3, PlainGoesOn
<1>6. StandInv(q)'
  <2>1. \A i \in Len(p.chars) + 1 .. Len(q.chars) : \A k \in 1 .. Len(ended) :
          EchoChar(q, i)' => q.run[i] # ended[k].run
    BY DEF NewChar
  <2>2. Len(ended) + 1 .. Len(ended') = {}
    BY <1>2
  <2>3. PlainInv(p) /\ StandInv(p)
    BY <1>1 DEF Tale
  <2> QED BY <1>2, <2>1, <2>2, <2>3, StandGoesOn
<1>7. EndedOnce'
  BY <1>1, EndedStays
<1>8. Tale(q)'
  BY <1>4, <1>5, <1>6 DEF Tale
<1>9. q.raw = p.raw \o word
  BY DEF Adds
<1>10. \A i \in Len(p.chars) + 1 .. Len(q.chars) : EchoChar(q, i)' => q.run[i] \in sanitizer.echoes
  BY DEF NewChar
<1> QED BY <1>2, <1>7, <1>8, <1>9, <1>10, PrintsTell
-----------------------------------------------------------------------------
(* A word of the program *)

\* The program prints its control sequences in one go.
WholeControls == \A word \in Prints : \A j \in DOMAIN word : ControlLength(Rest(word, j), 1) # Partial

\* So no word of it ends in the middle of one.
LEMMA WordIs ==
  ASSUME WholeControls, NEW word \in Prints
  PROVE  /\ word \in Seq(Characters) /\ Closed(word) /\ Len(word) \in Nat
         /\ \A j \in 1 .. Len(word) : ControlLength(Rest(word, j), 1) # Partial
<1>0. Len(word) \in Nat
  <2>1. word \in Seq(STRING \ Runs)
    BY RunsAssumption
  <2> QED BY <2>1, LenProperties
<1>1. word \in Seq(STRING \ Runs)
  BY RunsAssumption
<1>2. Len(word) \in Nat /\ DOMAIN word = 1 .. Len(word) /\ \A j \in 1 .. Len(word) : word[j] \in STRING \ Runs
  BY <1>1, LenProperties, ElementOfSeq
<1>3. word \in Seq(Characters)
  <2>1. \A j \in 1 .. Len(word) : word[j] \in Characters
    BY <1>2 DEF Characters
  <2>2. word = [j \in 1 .. Len(word) |-> word[j]]
    BY <1>1
  <2> QED BY <1>2, <2>1, <2>2, SeqDef
<1>4. \A j \in 1 .. Len(word) : ControlLength(Rest(word, j), 1) # Partial
  BY <1>2 DEF WholeControls
<1>5. ASSUME NEW j \in 1 .. Len(word), word[j] = "esc" PROVE j + 1 <= Len(word) /\ word[j + 1] \notin Runs
  <2>1. j \in 1 .. Len(word) + 1
    <3>1. PICK L : L = Len(word)
      OBVIOUS
    <3>2. L \in Nat /\ j \in 1 .. L
      BY <1>0, <1>5, <3>1
    <3>3. j \in 1 .. L + 1
      BY <3>2
    <3> QED BY <3>1, <3>3
  <2>2. /\ Len(Rest(word, j)) = Len(word) - j + 1
        /\ \A x \in 1 .. Len(word) - j + 1 : Rest(word, j)[x] = word[j + x - 1]
    BY <1>3, <2>1, RestOf
  <2>3. j + 1 <= Len(word)
    <3>0. j \in 1 .. Len(word) /\ (j # Len(word) => j + 1 <= Len(word))
      <4>1. PICK L : L = Len(word)
        OBVIOUS
      <4>2. L \in Nat /\ j \in 1 .. L
        BY <1>0, <1>5, <4>1
      <4>3. j # L => j + 1 <= L
        BY <4>2
      <4> QED BY <4>1, <4>2, <4>3
    <3>1. SUFFICES ASSUME j = Len(word) PROVE FALSE
      BY <3>0
    <3>2. PICK t : t = Rest(word, j)
      OBVIOUS
    <3>3. Len(t) = 1 /\ t[1] = "esc"
      <4>1. Len(word) - j + 1 = 1 /\ 1 \in 1 .. Len(word) - j + 1 /\ j + 1 - 1 = j
        BY <1>2, <3>1
      <4> QED BY <1>5, <2>2, <3>2, <4>1
    <3>4. ControlLength(t, 1) = Partial
      BY <3>3 DEF ControlLength
    <3> QED BY <1>4, <3>2, <3>4
  <2>4. j + 1 \in 1 .. Len(word)
    BY <1>2, <2>3
  <2> QED BY <1>2, <2>3, <2>4
<1>6. Closed(word)
  BY <1>5 DEF Closed
<1> QED BY <1>2, <1>3, <1>4, <1>6

\* A text that grows by a word.
LEMMA TextGrowsBy ==
  ASSUME ProgramTypes, NEW word \in Seq(Characters), text' = text \o word
  PROVE  /\ TextGrows /\ Len(text') = Len(text) + Len(word) /\ Len(text) \in Nat /\ Len(word) \in Nat
         /\ \A j \in 1 .. Len(word) : text'[Len(text) + j] = word[j]
<1> DEFINE T == Len(text)
           L == Len(word)
<1>1. T \in Nat /\ L \in Nat /\ text \in Seq(Characters)
  BY LenProperties DEF ProgramTypes
<1>2. /\ text' \in Seq(Characters) /\ Len(text') = T + L
      /\ \A i \in 1 .. T + L : text'[i] = IF i <= T THEN text[i] ELSE word[i - T]
  BY <1>1, ConcatProperties
<1> HIDE DEF T, L
<1>3. /\ T <= T + L /\ \A i \in 1 .. T : i \in 1 .. T + L /\ i <= T
      /\ \A j \in 1 .. L : T + j \in 1 .. T + L /\ ~(T + j <= T) /\ T + j - T = j
  BY <1>1
<1>4. (\A i \in 1 .. T : text'[i] = text[i]) /\ \A j \in 1 .. L : text'[T + j] = word[j]
  <2>1. ASSUME NEW i \in 1 .. T PROVE text'[i] = text[i]
    <3>1. i \in 1 .. T + L /\ i <= T
      BY <1>3
    <3>2. \A x \in 1 .. T + L : text'[x] = IF x <= T THEN text[x] ELSE word[x - T]
      BY <1>2, Zenon
    <3>3. text'[i] = IF i <= T THEN text[i] ELSE word[i - T]
      BY <3>1, <3>2
    <3> QED BY <3>1, <3>3
  <2>2. ASSUME NEW j \in 1 .. L PROVE text'[T + j] = word[j]
    <3>1. PICK i : i = T + j
      OBVIOUS
    <3>2. i \in 1 .. T + L /\ ~(i <= T) /\ i - T = j
      BY <1>1, <3>1
    <3>3. text'[i] = word[i - T]
      BY <1>2, <3>2
    <3> QED BY <3>1, <3>2, <3>3
  <2> QED BY <2>1, <2>2
<1>5. T <= Len(text')
  BY <1>2, <1>3
<1>6. TextGrows
  BY <1>1, <1>2, <1>4, <1>5 DEF TextGrows, T
<1> QED BY <1>1, <1>2, <1>4, <1>6 DEF T, L

\* A place in a text, and the last one behind a word.
RestGrows(s, word, j) ==
  \A t, i, e : t = s \o word /\ i = Len(s) + j - 1 /\ e = Len(t) => Between(t, i, e) = Rest(word, j)

\* What is behind it is the rest of the word.
LEMMA RestOfGrown ==
  ASSUME NEW s \in Seq(Characters), NEW word \in Seq(Characters), NEW j \in 1 .. Len(word)
  PROVE  RestGrows(s, word, j)
<1> SUFFICES ASSUME NEW t, t = s \o word, NEW i, i = Len(s) + j - 1, NEW e, e = Len(t)
             PROVE  Between(t, i, e) = Rest(word, j)
  BY DEF RestGrows
<1> DEFINE N == Len(s)
           L == Len(word)
<1>1. N \in Nat /\ L \in Nat /\ N \in 0 .. N /\ j \in Nat /\ j >= 1 /\ j <= L
  BY LenProperties
<1>2. t \in Seq(Characters) /\ Len(t) = N + L /\ Between(t, N, Len(t)) = Between(s, N, N) \o word
  BY <1>1, BetweenGrows
<1>3. Between(s, N, N) = <<>>
  BY <1>1, BetweenNothing
<1>4. Between(t, N, e) = word
  BY <1>2, <1>3
<1>5. N \in 0 .. Len(t) /\ e \in N .. Len(t) /\ j \in 1 .. e - N
  <2>1. e = N + L /\ Len(t) = N + L
    BY <1>2
  <2> HIDE DEF N, L
  <2> QED BY <1>1, <2>1
<1>6. Rest(Between(t, N, e), j) = Between(t, N + j - 1, e)
  BY <1>2, <1>5, RestOfPart
<1> QED BY <1>4, <1>6

\* A word of the program comes to its text.
LEMMA WordTells ==
  ASSUME IInv, WholeControls, NEW p, NEW d, NEW m, NEW n, Story(p, d, m, n), ptyExit = "no",
         UNCHANGED <<log, scanner, sanitizer, pieces, awaited, ptyExit, typed, ended>>,
         NEW word \in Prints, unread' = unread \o word, text' = text \o word
  PROVE  \E q : Story(q, d, m, n)'
<1> DEFINE N == Len(p.chars)
           L == Len(word)
           T == Len(text)
<1>1. Tale(p) /\ EndedOnce /\ ProgramTypes
  BY ProgramIsTyped DEF Story
<1>2. /\ word \in Seq(Characters) /\ Closed(word) /\ L \in Nat
      /\ \A j \in 1 .. L : ControlLength(Rest(word, j), 1) # Partial
  BY WordIs
<1>3. /\ TextGrows /\ Len(text') = T + L /\ T \in Nat
      /\ \A j \in 1 .. L : text'[T + j] = word[j]
  BY <1>1, <1>2, TextGrowsBy
<1>4. PICK new : /\ new.user = [j \in 1 .. L |-> T + j] /\ new.at = [j \in 1 .. L |-> 0]
  <2>1. PICK a : a = [j \in 1 .. L |-> T + j]
    OBVIOUS
  <2>2. PICK b : b = [j \in 1 .. L |-> 0]
    OBVIOUS
  <2>3. PICK new : new = [user |-> a, at |-> b]
    OBVIOUS
  <2>4. new.user = a /\ new.at = b
    BY <2>3
  <2> QED BY <2>1, <2>2, <2>4, Zenon
<1>5. PICK q : Adds(p, q, word, new)
  BY AddsExists
<1>6. p.chars \in Seq(Characters) /\ p.raw \in Seq(Characters)
  BY <1>1 DEF Tale, PlainInv, RawInv
<1>7. CharsGrow(p, q) /\ N \in Nat /\ Len(q.chars) = N + L /\ q.chars = p.chars \o word
  <2>1. CharsGrow(p, q) /\ N \in Nat /\ Len(q.chars) = N + L
    BY <1>2, <1>5, <1>6, AddsKeeps
  <2>2. q.chars = p.chars \o word
    BY <1>5, Zenon DEF Adds
  <2> QED BY <2>1, <2>2
<1>8. NewNumbers(word, new)
  <2>1. \A j \in 1 .. L : new.user[j] = T + j /\ new.at[j] = 0
    BY <1>4
  <2> HIDE DEF L, T
  <2>2. \A j \in 1 .. L : T + j \in 0 .. T + L
    BY <1>2, <1>3
  <2>3. L # 0 => L \in 1 .. L
    BY <1>2
  <2>4. L = 0 => T + L = T
    BY <1>3
  <2> QED BY <1>3, <2>1, <2>2, <2>3, <2>4 DEF NewNumbers, L, T
<1>9. /\ \A j \in 1 .. L : /\ q.chars[N + j] = word[j] /\ q.user[N + j] = T + j /\ q.at[N + j] = 0
      /\ q.user[N] = T /\ q.at[N] = 0
  <2>1. ASSUME NEW j \in 1 .. L PROVE q.chars[N + j] = word[j] /\ q.user[N + j] = T + j /\ q.at[N + j] = 0
    <3>1. NewIs(p, q, word, new, j)
      BY <1>2, <1>5, <1>6, AddsSays
    <3> QED BY <1>4, <3>1 DEF NewIs
  <2>2. p.user[N] = T /\ p.at[N] = 0
    BY <1>1 DEF Tale, PlainInv
  <2>3. N \in 0 .. N
    BY <1>7
  <2>4. q.user[N] = p.user[N] /\ q.at[N] = p.at[N]
    BY <1>7, <2>3 DEF CharsGrow
  <2> QED BY <2>1, <2>2, <2>4
<1>10. ASSUME NEW j \in 1 .. L, NEW i, i = N + j PROVE UserChar(q, i)' /\ ~EchoChar(q, i)'
  <2>1. j \in Nat /\ T + j - 1 \in Nat /\ T + j = T + j - 1 + 1
    BY <1>3
  <2>2. q.at[i - 1] = 0 /\ q.user[i - 1] = T + j - 1
    <3>1. CASE j = 1
      <4>1. i - 1 = N /\ T + j - 1 = T
        BY <1>3, <1>7, <1>10, <3>1
      <4> QED BY <1>9, <4>1
    <3>2. CASE j # 1
      <4>1. PICK l \in 1 .. L : l = j - 1
        BY <1>2, <3>2
      <4>2. i - 1 = N + l /\ T + j - 1 = T + l
        <5>1. i = N + j /\ N \in Nat /\ T \in Nat /\ j \in Nat /\ l = j - 1
          BY <1>3, <1>7, <1>10, <2>1, <4>1
        <5> HIDE DEF N, T
        <5> QED BY <5>1
      <4> QED BY <1>9, <4>2
    <3> QED BY <3>1, <3>2
  <2>3. q.chars[i] = text'[q.user[i]] /\ q.user[i] = T + j /\ q.at[i] = 0
    BY <1>3, <1>9, <1>10
  <2>4. UserChar(q, i)'
    BY <2>1, <2>2, <2>3 DEF UserChar
  <2>5. ~EchoChar(q, i)'
    <3>1. q.user[i] # q.user[i - 1]
      BY <2>1, <2>2, <2>3
    <3> QED BY <3>1 DEF EchoChar
  <2> QED BY <2>4, <2>5
<1>11. ASSUME NEW i \in N + 1 .. Len(q.chars) PROVE NewChar(q, i)
  <2>1. PICK e : e = Len(q.chars)
    OBVIOUS
  <2>2. PICK j \in 1 .. L : i = N + j
    <3> HIDE DEF N, L
    <3>1. i - N \in 1 .. L /\ i = N + (i - N)
      BY <1>2, <1>7
    <3> QED BY <3>1
  <2>3. UserChar(q, i)' /\ ~EchoChar(q, i)'
    BY <1>10, <2>2
  <2>4. ASSUME NEW k \in i .. e PROVE UserChar(q, k)'
    <3>1. PICK l \in 1 .. L : k = N + l
      <4> HIDE DEF N, L
      <4>1. k - N \in 1 .. L /\ k = N + (k - N)
        BY <1>2, <1>7, <2>1, <2>2
      <4> QED BY <4>1
    <3> QED BY <1>10, <3>1
  <2>5. ControlLength(Between(q.chars, i - 1, e), 1) # Partial
    <3>1. PICK o : o = i - 1
      OBVIOUS
    <3>2. o = N + j - 1
      BY <2>2, <3>1
    <3>3. Between(q.chars, o, e) = Rest(word, j)
      <4>1. PICK t : t = q.chars
        OBVIOUS
      <4>2. PICK s : s = p.chars
        OBVIOUS
      <4>3. s \in Seq(Characters) /\ t = s \o word /\ o = Len(s) + j - 1 /\ e = Len(t)
        BY <1>6, <1>7, <2>1, <3>2, <4>1, <4>2
      <4>4. RestGrows(s, word, j)
        BY <1>2, <4>3, RestOfGrown
      <4>5. Between(t, o, e) = Rest(word, j)
        BY <4>3, <4>4, Zenon DEF RestGrows
      <4> QED BY <4>1, <4>5
    <3> QED BY <1>2, <3>1, <3>3
  <2>6. Whole(q, i, e)'
    BY <2>4, <2>5 DEF Whole
  <2>7. e \in i .. Len(q.chars)
    <3> HIDE DEF N, L
    <3> QED BY <1>2, <1>7, <2>1, <2>2
  <2> QED BY <2>3, <2>6, <2>7 DEF NewChar
<1>12. Story(q, d, m, n)'
  BY <1>2, <1>3, <1>5, <1>8, <1>11, AddsTell
<1> QED BY <1>12
-----------------------------------------------------------------------------
(* The terminal echoes a postamble *)

\* There is no ESC in an echo.
LEMMA EchoIsClosed ==
  ASSUME NEW r \in Runs, NEW echo \in Echoes(r)
  PROVE  /\ echo \in Seq(Characters) /\ Closed(echo) /\ Len(echo) \in Nat /\ Len(echo) >= 1
<1>1. /\ echo \in Seq(Characters) /\ Len(echo) \in EchoSize + 2 .. EchoSize + 3 /\ EchoSize \in Nat
      /\ \A j \in 1 .. EchoSize : echo[j] = EchoPrefix[j] /\ EchoPrefix[j] # "esc"
      /\ echo[EchoSize + 1] = r /\ r # "esc"
      /\ Len(echo) = EchoSize + 2 => echo[EchoSize + 2] # "esc"
      /\ Len(echo) = EchoSize + 3 => echo[EchoSize + 2] # "esc" /\ echo[EchoSize + 3] # "esc"
  BY EchoIs, PrefixIs, SentinelAssumption, ZenonT(60)
<1>2. ASSUME NEW j \in 1 .. Len(echo) PROVE echo[j] # "esc"
  <2>1. PICK L : L = Len(echo)
    OBVIOUS
  <2>2. PICK e : e = EchoSize
    OBVIOUS
  <2>3. j \in 1 .. e \/ j = e + 1 \/ j = e + 2 \/ (j = e + 3 /\ L = e + 3)
    BY <1>1, <2>1, <2>2
  <2>4. L = e + 2 \/ L = e + 3
    BY <1>1, <2>1, <2>2
  <2> QED BY <1>1, <2>1, <2>2, <2>3, <2>4
<1>3. Len(echo) \in Nat /\ Len(echo) >= 1
  BY <1>1
<1> QED BY <1>1, <1>2, <1>3 DEF Closed

\* A run that was typed and has not ended is one whose echo is expected.
LEMMA EchoIsExpected ==
  ASSUME ProgramTypes, NEW p, NEW d, NEW m, Tale(p), EndedOnce, Place(p, m), Sanitized(p, d, m),
         NEW r \in typed, ~ \E i \in DOMAIN ended : ended[i].run = r
  PROVE  r \in sanitizer.echoes /\ \A k \in 1 .. Len(ended) : ended[k].run # r
<1>1. p.k[m] \in 0 .. Len(ended) /\ Len(ended) \in Nat
  BY HeldIs
<1>2. \A k \in 1 .. Len(ended) : ended[k].run # r
  BY ElementOfSeq DEF EndedOnce
<1>3. \A j \in 1 .. p.k[m] : j \in 1 .. Len(ended)
  BY <1>1
<1> QED BY <1>2, <1>3 DEF Sanitized, Awaits

\* An echo comes to the terminal.
LEMMA EchoTells ==
  ASSUME IInv, NEW p, NEW d, NEW m, NEW n, Story(p, d, m, n), ptyExit = "no",
         UNCHANGED <<log, scanner, sanitizer, pieces, awaited, ptyExit, typed, ended, text>>,
         NEW r \in typed, ~ \E i \in DOMAIN ended : ended[i].run = r,
         NEW echo \in Echoes(r), unread' = unread \o echo
  PROVE  \E q : Story(q, d, m, n)'
<1> DEFINE N == Len(p.chars)
           L == Len(echo)
           T == Len(text)
<1>1. Tale(p) /\ EndedOnce /\ ProgramTypes /\ r \in Runs
  BY ProgramIsTyped DEF Story, ProgramTypes
<1>2. echo \in Seq(Characters) /\ Closed(echo) /\ L \in Nat /\ L >= 1
  BY <1>1, EchoIsClosed
<1>3. TextGrows /\ T \in Nat /\ Len(text') = T
  BY <1>1, LenProperties DEF TextGrows, ProgramTypes
<1>4. PICK new : /\ new.user = [j \in 1 .. L |-> T] /\ new.at = [j \in 1 .. L |-> IF j = L THEN 0 ELSE j]
                 /\ new.run = r /\ new.echo = echo
  <2>1. PICK a : a = [j \in 1 .. L |-> T]
    OBVIOUS
  <2>2. PICK b : b = [j \in 1 .. L |-> IF j = L THEN 0 ELSE j]
    OBVIOUS
  <2>3. PICK new : new = [user |-> a, at |-> b, run |-> r, echo |-> echo]
    OBVIOUS
  <2>4. new.user = a /\ new.at = b /\ new.run = r /\ new.echo = echo
    BY <2>3
  <2> QED BY <2>1, <2>2, <2>4, Zenon
<1>5. PICK q : Adds(p, q, echo, new)
  BY AddsExists
<1>6. p.chars \in Seq(Characters) /\ p.raw \in Seq(Characters)
  BY <1>1 DEF Tale, PlainInv, RawInv
<1>7. CharsGrow(p, q) /\ N \in Nat /\ Len(q.chars) = N + L
  BY <1>2, <1>5, <1>6, AddsKeeps
<1>8. NewNumbers(echo, new)
  <2>1. \A j \in 1 .. L : new.user[j] = T /\ new.at[j] = IF j = L THEN 0 ELSE j
    BY <1>4
  <2> HIDE DEF L, T
  <2>2. \A j \in 1 .. L : j \in Nat /\ T \in 0 .. T
    BY <1>2, <1>3
  <2>3. L # 0 /\ L \in 1 .. L
    BY <1>2
  <2> QED BY <1>3, <2>1, <2>2, <2>3 DEF NewNumbers, L, T
<1>9. /\ \A j \in 1 .. L : /\ q.chars[N + j] = echo[j] /\ q.user[N + j] = T
                           /\ q.at[N + j] = IF j = L THEN 0 ELSE j
                           /\ q.run[N + j] = r /\ q.echo[N + j] = echo
      /\ q.user[N] = T /\ q.at[N] = 0
  <2>1. ASSUME NEW j \in 1 .. L
        PROVE  /\ q.chars[N + j] = echo[j] /\ q.user[N + j] = T /\ q.at[N + j] = IF j = L THEN 0 ELSE j
               /\ q.run[N + j] = r /\ q.echo[N + j] = echo
    <3>1. NewIs(p, q, echo, new, j)
      BY <1>2, <1>5, <1>6, AddsSays
    <3> QED BY <1>4, <3>1 DEF NewIs
  <2>2. p.user[N] = T /\ p.at[N] = 0
    BY <1>1 DEF Tale, PlainInv
  <2>3. N \in 0 .. N
    BY <1>7
  <2>4. q.user[N] = p.user[N] /\ q.at[N] = p.at[N]
    BY <1>7, <2>3 DEF CharsGrow
  <2> QED BY <2>1, <2>2, <2>4
<1>10. EchoAt(q, N, r, echo)'
  <2>1. N >= 0 /\ N + L <= Len(q.chars)
    BY <1>7
  <2>2. L \in 1 .. L
    BY <1>2
  <2>3. q.at[N + L] = 0
    BY <1>9, <2>2
  <2>4. \A j \in 1 .. L : j < L => j # L
    BY <1>2
  <2>5. \A j \in 1 .. L : /\ q.chars[N + j] = echo[j] /\ q.user[N + j] = q.user[N]
                          /\ q.run[N + j] = r /\ q.echo[N + j] = echo /\ (j < L => q.at[N + j] = j)
    BY <1>9, <2>4
  <2> QED BY <1>9, <2>1, <2>3, <2>5 DEF EchoAt
<1>11. ASSUME NEW j \in 1 .. L, NEW i, i = N + j PROVE EchoChar(q, i)'
  <2>1. q.user[i] = T /\ q.echo[i] = echo /\ q.run[i] = r
    BY <1>9, <1>11
  <2>2. q.at[i - 1] = j - 1 /\ q.user[i - 1] = T
    <3>1. CASE j = 1
      <4>1. i - 1 = N /\ j - 1 = 0
        BY <1>7, <1>11, <3>1
      <4> QED BY <1>9, <4>1
    <3>2. CASE j # 1
      <4>1. PICK l \in 1 .. L : l = j - 1 /\ l # L
        BY <1>2, <3>2
      <4>2. i - 1 = N + l
        <5>1. i = N + j /\ N \in Nat /\ j \in Nat /\ l = j - 1
          BY <1>7, <1>11, <4>1
        <5> HIDE DEF N
        <5> QED BY <5>1
      <4> QED BY <1>9, <4>1, <4>2, ZenonT(60)
    <3> QED BY <3>1, <3>2
  <2>3. j - 1 < L /\ i - 1 - (j - 1) = N
    <3>1. i = N + j /\ N \in Nat /\ j \in Nat /\ L \in Nat /\ j <= L
      BY <1>2, <1>7, <1>11
    <3> HIDE DEF N, L
    <3> QED BY <3>1
  <2>4. q.at[i - 1] < Len(q.echo[i]) /\ i - 1 - q.at[i - 1] = N
    BY <2>1, <2>2, <2>3
  <2> QED BY <1>10, <2>1, <2>2, <2>4 DEF EchoChar
<1>12. r \in sanitizer.echoes /\ \A k \in 1 .. Len(ended) : ended[k].run # r
  BY <1>1, EchoIsExpected DEF Story
<1>13. ASSUME NEW i \in N + 1 .. Len(q.chars) PROVE NewChar(q, i)
  <2>1. PICK j \in 1 .. L : i = N + j
    <3> HIDE DEF N, L
    <3>1. i - N \in 1 .. L /\ i = N + (i - N)
      BY <1>2, <1>7
    <3> QED BY <3>1
  <2>2. EchoChar(q, i)'
    BY <1>11, <2>1
  <2>3. q.run[i] = r
    BY <1>9, <2>1
  <2> QED BY <1>12, <2>2, <2>3 DEF NewChar
<1>14. Story(q, d, m, n)'
  BY <1>2, <1>3, <1>5, <1>8, <1>13, AddsTell
<1> QED BY <1>14
-----------------------------------------------------------------------------
(* A run ends *)

\* The sentinel of `r` comes to the story.
AddsEnd(p, q, r) ==
  LET N == Len(p.chars)
      M == Len(p.raw)
      K == Len(ended)
  IN  /\ q.chars = p.chars /\ q.user = p.user /\ q.at = p.at /\ q.run = p.run /\ q.echo = p.echo
      /\ q.raw = p.raw \o Sentinel(r)
      /\ q.g = [i \in 0 .. M + 2 |-> IF i <= M THEN p.g[i] ELSE N]
      /\ q.k = [i \in 0 .. M + 2 |-> IF i <= M THEN p.k[i] ELSE IF i = M + 1 THEN K ELSE K + 1]
      /\ q.stand = [k \in 1 .. K + 1 |-> IF k <= K THEN p.stand[k] ELSE N]

\* There is a story with it.
LEMMA AddsEndExists ==
  ASSUME NEW p, NEW r
  PROVE  \E q : AddsEnd(p, q, r)
<1> DEFINE N == Len(p.chars)
           M == Len(p.raw)
           K == Len(ended)
<1>1. PICK a : a = p.raw \o Sentinel(r)
  OBVIOUS
<1>2. PICK b : b = [i \in 0 .. M + 2 |-> IF i <= M THEN p.g[i] ELSE N]
  OBVIOUS
<1>3. PICK c : c = [i \in 0 .. M + 2 |-> IF i <= M THEN p.k[i] ELSE IF i = M + 1 THEN K ELSE K + 1]
  OBVIOUS
<1>4. PICK e : e = [k \in 1 .. K + 1 |-> IF k <= K THEN p.stand[k] ELSE N]
  OBVIOUS
<1>5. PICK q : q = [chars |-> p.chars, user |-> p.user, at |-> p.at, run |-> p.run, echo |-> p.echo,
                    raw |-> a, g |-> b, k |-> c, stand |-> e]
  OBVIOUS
<1>6. /\ q.chars = p.chars /\ q.user = p.user /\ q.at = p.at /\ q.run = p.run /\ q.echo = p.echo
      /\ q.raw = a /\ q.g = b /\ q.k = c /\ q.stand = e
  BY <1>5
<1> QED BY <1>1, <1>2, <1>3, <1>4, <1>6, Zenon DEF AddsEnd

\* The runs that ended, with one more.
LEMMA EndedGrowsBy ==
  ASSUME EndedOnce, text \in Seq(Characters), NEW r \in typed, r \in Runs, ~ \E i \in DOMAIN ended : ended[i].run = r,
         UNCHANGED typed, ended' = Append(ended, [run |-> r, before |-> Len(text)])
  PROVE  /\ EndedGrows /\ EndedOnce' /\ Len(ended) \in Nat /\ Len(ended') = Len(ended) + 1
         /\ ended'[Len(ended) + 1].run = r /\ ended'[Len(ended) + 1].before = Len(text)
<1> DEFINE S == [run : Runs, before : Nat]
           K == Len(ended)
<1>1. PICK e : e = [run |-> r, before |-> Len(text)]
  OBVIOUS
<1>2. Len(text) \in Nat
  BY LenProperties
<1>3. e \in S /\ e.run = r /\ e.before = Len(text)
  BY <1>1, <1>2
<1>4. ended \in Seq(S) /\ ended' = Append(ended, e)
  BY <1>1 DEF EndedOnce
<1> HIDE DEF S
<1>5. /\ ended' \in Seq(S) /\ Len(ended') = K + 1 /\ K \in Nat /\ DOMAIN ended = 1 .. K
      /\ \A k \in 1 .. K : ended'[k] = ended[k]
      /\ ended'[K + 1] = e
  BY <1>3, <1>4, AppendProperties, LenProperties
<1> HIDE DEF K
<1>6. K <= Len(ended') /\ \A k \in 1 .. Len(ended') : k \in 1 .. K \/ k = K + 1
  BY <1>5
<1>7. \A k \in 1 .. Len(ended') : ended'[k].run \in typed'
  BY <1>3, <1>5, <1>6 DEF EndedOnce, K
<1>8. \A k, l \in 1 .. Len(ended') : ended'[k].run = ended'[l].run => k = l
  <2>1. \A k \in 1 .. K : ended[k].run # r
    BY <1>5
  <2> QED BY <1>3, <1>5, <1>6, <2>1 DEF EndedOnce, K
<1>9. EndedOnce'
  BY <1>5, <1>7, <1>8 DEF EndedOnce, S
<1>10. EndedGrows
  BY <1>5, <1>6 DEF EndedGrows, K
<1> QED BY <1>3, <1>5, <1>9, <1>10 DEF K

\* The characters are what they were.
LEMMA EndKeepsChars ==
  ASSUME NEW p, NEW q, NEW r, AddsEnd(p, q, r), p.chars \in Seq(Characters)
  PROVE  CharsGrow(p, q) /\ Len(p.chars) \in Nat /\ Len(q.chars) = Len(p.chars)
BY LenProperties DEF AddsEnd, CharsGrow

\* The terminal has two more, of the sentinel.
LEMMA EndGrowsRaw ==
  ASSUME NEW p, NEW q, NEW r \in Runs, AddsEnd(p, q, r), p.raw \in Seq(Characters), Len(ended) \in Nat
  PROVE  LET M == Len(p.raw)
             N == Len(p.chars)
             K == Len(ended)
         IN  /\ RawGrows(p, q) /\ M \in Nat /\ Len(q.raw) = M + 2 /\ Sentinel(r) \in Seq(Characters)
             /\ q.raw[M + 1] = "esc" /\ q.raw[M + 2] = r
             /\ q.g[M] = p.g[M] /\ q.g[M + 1] = N /\ q.g[M + 2] = N
             /\ q.k[M] = p.k[M] /\ q.k[M + 1] = K /\ q.k[M + 2] = K + 1
             /\ q.stand[K + 1] = N
<1> DEFINE M == Len(p.raw)
           N == Len(p.chars)
           K == Len(ended)
<1>1. PICK w : w = Sentinel(r)
  OBVIOUS
<1>2. w \in Seq(Characters) /\ Len(w) = 2 /\ w[1] = "esc" /\ w[2] = r
  BY <1>1 DEF Sentinel, Characters
<1>3. /\ q.raw = p.raw \o w
      /\ q.g = [i \in 0 .. M + 2 |-> IF i <= M THEN p.g[i] ELSE N]
      /\ q.k = [i \in 0 .. M + 2 |-> IF i <= M THEN p.k[i] ELSE IF i = M + 1 THEN K ELSE K + 1]
      /\ q.stand = [k \in 1 .. K + 1 |-> IF k <= K THEN p.stand[k] ELSE N]
  BY <1>1 DEF AddsEnd
<1>4. M \in Nat
  BY LenProperties
<1>5. /\ q.raw \in Seq(Characters) /\ Len(q.raw) = M + 2
      /\ \A i \in 1 .. M + 2 : q.raw[i] = IF i <= M THEN p.raw[i] ELSE w[i - M]
  <2>1. PICK s : s = p.raw
    OBVIOUS
  <2>2. s \in Seq(Characters) /\ q.raw = s \o w /\ Len(s) = M
    BY <1>3, <2>1
  <2>3. /\ s \o w \in Seq(Characters) /\ Len(s \o w) = Len(s) + Len(w)
        /\ \A i \in 1 .. Len(s) + Len(w) : (s \o w)[i] = IF i <= Len(s) THEN s[i] ELSE w[i - Len(s)]
    <3>1. s \in Seq(Characters) /\ w \in Seq(Characters)
      BY <1>2, <2>2
    <3> QED BY <3>1, ConcatProperties
  <2> HIDE DEF M
  <2> QED BY <1>2, <2>1, <2>2, <2>3
<1> HIDE DEF M, N, K
<1>6. /\ M <= M + 2 /\ M + 1 \in 1 .. M + 2 /\ M + 2 \in 1 .. M + 2 /\ ~(M + 1 <= M) /\ ~(M + 2 <= M)
      /\ M + 1 - M = 1 /\ M + 2 - M = 2 /\ M \in 0 .. M + 2 /\ M <= M /\ M + 1 \in 0 .. M + 2 /\ M + 2 \in 0 .. M + 2
      /\ M + 1 # M + 2
  BY <1>4
<1>7. q.raw[M + 1] = "esc" /\ q.raw[M + 2] = r
  <2>1. \A i \in 1 .. M + 2 : ~(i <= M) => q.raw[i] = w[i - M]
    BY <1>5
  <2>2. q.raw[M + 1] = w[M + 1 - M] /\ q.raw[M + 2] = w[M + 2 - M]
    BY <1>6, <2>1
  <2> QED BY <1>2, <1>6, <2>2
<1>8. q.g[M] = p.g[M] /\ q.g[M + 1] = N /\ q.g[M + 2] = N
  BY <1>3, <1>6
<1>9. q.k[M] = p.k[M] /\ q.k[M + 1] = K /\ q.k[M + 2] = K + 1
  BY <1>3, <1>6
<1>10. K \in Nat
  BY DEF K
<1>11. q.stand[K + 1] = N
  <2>1. K + 1 \in 1 .. K + 1 /\ ~(K + 1 <= K)
    BY <1>10
  <2> QED BY <1>3, <2>1
<1>12. RawGrows(p, q)
  <2>1. \A i \in 1 .. M : i \in 1 .. M + 2 /\ i <= M
    BY <1>4
  <2>2. \A i \in 0 .. M : i \in 0 .. M + 2 /\ i <= M
    BY <1>4
  <2>3. \A k \in 1 .. K : k \in 1 .. K + 1 /\ k <= K
    BY <1>10
  <2>4. \A i \in 1 .. M : q.raw[i] = p.raw[i]
    BY <1>5, <2>1
  <2>5. \A i \in 0 .. M : q.g[i] = p.g[i] /\ q.k[i] = p.k[i]
    BY <1>3, <2>2
  <2>6. \A k \in 1 .. K : q.stand[k] = p.stand[k]
    BY <1>3, <2>3
  <2>7. M <= Len(q.raw)
    BY <1>5, <1>6
  <2> QED BY <1>5, <2>4, <2>5, <2>6, <2>7 DEF RawGrows, M, K
<1> QED BY <1>1, <1>2, <1>4, <1>5, <1>7, <1>8, <1>9, <1>11, <1>12 DEF M, N, K

\* The numbers of the terminal's story stay numbers.
LEMMA EndNumbers ==
  ASSUME NEW p, NEW q, NEW r, AddsEnd(p, q, r), RawInv(p), p.chars \in Seq(Characters), p.raw \in Seq(Characters),
         Len(ended) \in Nat
  PROVE  /\ q.g \in [0 .. Len(p.raw) + 2 -> 0 .. Len(p.chars)]
         /\ q.k \in [0 .. Len(p.raw) + 2 -> 0 .. Len(ended) + 1]
<1> DEFINE M == Len(p.raw)
           N == Len(p.chars)
           K == Len(ended)
<1>1. M \in Nat /\ N \in Nat /\ K \in Nat
  BY LenProperties
<1>2. /\ q.g = [i \in 0 .. M + 2 |-> IF i <= M THEN p.g[i] ELSE N]
      /\ q.k = [i \in 0 .. M + 2 |-> IF i <= M THEN p.k[i] ELSE IF i = M + 1 THEN K ELSE K + 1]
  BY DEF AddsEnd
<1>3. p.g \in [0 .. M -> 0 .. N] /\ p.k \in [0 .. M -> 0 .. K]
  BY DEF RawInv
<1> HIDE DEF M, N, K
<1>4. /\ \A i \in 0 .. M + 2 : i <= M => i \in 0 .. M
      /\ N \in 0 .. N /\ K \in 0 .. K + 1 /\ K + 1 \in 0 .. K + 1
  BY <1>1
<1>5. \A i \in 0 .. M : p.g[i] \in 0 .. N
  BY <1>3, Zenon
<1>6. \A i \in 0 .. M : p.k[i] \in 0 .. K
  BY <1>3, Zenon
<1>7. \A i \in 0 .. M : p.k[i] \in 0 .. K + 1
  BY <1>1, <1>6
<1>8. q.g \in [0 .. M + 2 -> 0 .. N]
  BY <1>2, <1>4, <1>5
<1>9. q.k \in [0 .. M + 2 -> 0 .. K + 1]
  BY <1>2, <1>4, <1>7
<1> QED BY <1>8, <1>9 DEF M, N, K
-----------------------------------------------------------------------------
(* The story with the end of a run *)

\* The terminal's story stays true.
LEMMA EndRaw ==
  ASSUME NEW p, NEW q, NEW r \in Runs, AddsEnd(p, q, r), RawInv(p), Follows(p, q),
         Len(ended') = Len(ended) + 1, ended'[Len(ended) + 1].run = r
  PROVE  RawInv(q)'
<1> DEFINE M == Len(p.raw)
           N == Len(p.chars)
           K == Len(ended)
<1>1. /\ p.chars \in Seq(Characters) /\ p.raw \in Seq(Characters) /\ K \in Nat
      /\ p.g[M] = N /\ p.k[M] = K
  BY DEF Follows, RawInv, EndedGrows
<1>2. CharsGrow(p, q) /\ N \in Nat /\ Len(q.chars) = N
  BY <1>1, EndKeepsChars
<1>3. /\ RawGrows(p, q) /\ M \in Nat /\ Len(q.raw) = M + 2
      /\ q.raw[M + 1] = "esc" /\ q.raw[M + 2] = r
      /\ q.g[M] = N /\ q.g[M + 1] = N /\ q.g[M + 2] = N
      /\ q.k[M] = K /\ q.k[M + 1] = K /\ q.k[M + 2] = K + 1 /\ q.stand[K + 1] = N
  BY <1>1, EndGrowsRaw
<1>4. q.g \in [0 .. M + 2 -> 0 .. N] /\ q.k \in [0 .. M + 2 -> 0 .. K + 1]
  BY <1>1, EndNumbers
<1>5. PICK m : m = M + 1
  OBVIOUS
<1>6. RawSentinel(q, m)'
  <2>1. m - 1 = M /\ m + 1 = M + 2 /\ K + 1 \in 1 .. Len(ended') /\ m + 1 <= Len(q.raw)
    <3>1. M \in Nat /\ K \in Nat /\ Len(q.raw) = M + 2 /\ Len(ended') = K + 1
      BY <1>1, <1>3
    <3> HIDE DEF M, K
    <3> QED BY <1>5, <3>1
  <2>2. /\ q.raw[m] = "esc" /\ q.raw[m + 1] = r /\ q.g[m - 1] = N /\ q.g[m] = N /\ q.g[m + 1] = N
        /\ q.k[m - 1] = K /\ q.k[m] = K /\ q.k[m + 1] = K + 1
    BY <1>3, <1>5, <2>1
  <2>3. q.k[m - 1] + 1 = K + 1
    BY <2>2
  <2> QED BY <1>3, <2>1, <2>2, <2>3 DEF RawSentinel
<1>7. ASSUME NEW i \in M + 1 .. Len(q.raw)
      PROVE  RawChar(q, i)' \/ RawSentinel(q, i)' \/ (i > 1 /\ RawSentinel(q, i - 1)')
  <2>1. i = m \/ (i > 1 /\ i - 1 = m)
    <3>1. M \in Nat /\ Len(q.raw) = M + 2
      BY <1>3
    <3> HIDE DEF M
    <3> QED BY <1>5, <3>1
  <2>2. i = m => RawSentinel(q, i)'
    BY <1>6
  <2>3. i - 1 = m => RawSentinel(q, i - 1)'
    BY <1>6
  <2> QED BY <2>1, <2>2, <2>3
<1>8. /\ q.g \in [0 .. Len(q.raw) -> 0 .. Len(q.chars)] /\ q.k \in [0 .. Len(q.raw) -> 0 .. Len(ended')]
      /\ q.g[Len(q.raw)] = Len(q.chars) /\ q.k[Len(q.raw)] = Len(ended')
  BY <1>2, <1>3, <1>4
<1> QED BY <1>7, <1>8, RawGoesOn

\* That of the characters, too.
LEMMA EndPlain ==
  ASSUME NEW p, NEW q, NEW r, AddsEnd(p, q, r), PlainInv(p), ProgramTypes, TextGrows, UNCHANGED <<text, typed>>
  PROVE  PlainInv(q)'
<1>1. p.chars \in Seq(Characters)
  BY DEF PlainInv
<1>2. CharsGrow(p, q) /\ Len(p.chars) \in Nat /\ Len(q.chars) = Len(p.chars)
  BY <1>1, EndKeepsChars
<1>3. Len(p.chars) + 1 .. Len(q.chars) = {}
  BY <1>2
<1>4. /\ q.user \in [0 .. Len(q.chars) -> 0 .. Len(text')] /\ q.at \in [0 .. Len(q.chars) -> Nat]
      /\ q.user[Len(q.chars)] = Len(text') /\ q.at[Len(q.chars)] = 0
  BY <1>2 DEF AddsEnd, PlainInv
<1> QED BY <1>2, <1>3, <1>4, PlainGoesOn

\* And that of the sentinels.
LEMMA EndStand ==
  ASSUME NEW p, NEW q, NEW r \in Runs, AddsEnd(p, q, r), Tale(p), Follows(p, q),
         Len(ended') = Len(ended) + 1, ended'[Len(ended) + 1].before = Len(text)
  PROVE  StandInv(q)'
<1> DEFINE N == Len(p.chars)
           K == Len(ended)
<1>1. /\ PlainInv(p) /\ StandInv(p) /\ p.chars \in Seq(Characters) /\ p.raw \in Seq(Characters) /\ K \in Nat
      /\ p.user[N] = Len(text) /\ p.at[N] = 0
  BY DEF Tale, RawInv, PlainInv, Follows, EndedGrows
<1>2. N \in Nat /\ Len(q.chars) = N
  BY <1>1, EndKeepsChars
<1>3. q.stand[K + 1] = N
  BY <1>1, EndGrowsRaw
<1>4. N + 1 .. Len(q.chars) = {}
  BY <1>2
<1>5. q.user[N] = Len(text) /\ q.at[N] = 0
  BY <1>1 DEF AddsEnd
<1>6. ASSUME NEW k \in K + 1 .. Len(ended')
      PROVE  /\ q.stand[k] \in 0 .. Len(q.chars) /\ q.at[q.stand[k]] = 0 /\ ended'[k].before = q.user[q.stand[k]]
             /\ \A i \in 1 .. Len(q.chars) : EchoChar(q, i)' /\ q.run[i] = ended'[k].run => i <= q.stand[k]
  <2>1. k = K + 1
    <3>1. K \in Nat /\ Len(ended') = K + 1
      BY <1>1
    <3> HIDE DEF K
    <3> QED BY <3>1
  <2>2. q.stand[k] = N /\ ended'[k].before = Len(text)
    BY <1>3, <2>1
  <2>3. N \in 0 .. N /\ \A i \in 1 .. N : i <= N
    BY <1>2
  <2> QED BY <1>2, <1>5, <2>2, <2>3
<1> QED BY <1>1, <1>4, <1>6, StandGoesOn

\* The program's shell ends a run.
LEMMA SentinelTells ==
  ASSUME IInv, NEW p, NEW d, NEW m, NEW n, Story(p, d, m, n), ptyExit = "no",
         UNCHANGED <<log, scanner, sanitizer, pieces, awaited, ptyExit, typed, text>>,
         NEW r \in typed, ~ \E i \in DOMAIN ended : ended[i].run = r,
         unread' = unread \o Sentinel(r), ended' = Append(ended, [run |-> r, before |-> Len(text)])
  PROVE  \E q : Story(q, d, m, n)'
<1>1. Tale(p) /\ EndedOnce /\ ProgramTypes /\ r \in Runs /\ text \in Seq(Characters)
  BY ProgramIsTyped DEF Story, ProgramTypes
<1>2. /\ EndedGrows /\ EndedOnce' /\ Len(ended) \in Nat /\ Len(ended') = Len(ended) + 1
      /\ ended'[Len(ended) + 1].run = r /\ ended'[Len(ended) + 1].before = Len(text)
  BY <1>1, EndedGrowsBy
<1>3. PICK q : AddsEnd(p, q, r)
  BY AddsEndExists
<1>4. PlainInv(p) /\ RawInv(p) /\ p.chars \in Seq(Characters) /\ p.raw \in Seq(Characters)
  BY <1>1 DEF Tale, PlainInv, RawInv
<1>5. TextGrows
  BY <1>1, LenProperties DEF TextGrows
<1>6. CharsGrow(p, q) /\ Len(p.chars) \in Nat /\ Len(q.chars) = Len(p.chars)
  BY <1>3, <1>4, EndKeepsChars
<1>7. RawGrows(p, q) /\ Sentinel(r) \in Seq(Characters)
  BY <1>1, <1>2, <1>3, <1>4, EndGrowsRaw
<1>8. Follows(p, q)
  BY <1>2, <1>4, <1>6, <1>7 DEF Follows
<1>9. RawInv(q)'
  BY <1>1, <1>2, <1>3, <1>4, <1>8, EndRaw
<1>10. PlainInv(q)'
  BY <1>1, <1>3, <1>4, <1>5, EndPlain
<1>11. StandInv(q)'
  BY <1>1, <1>2, <1>3, <1>8, EndStand
<1>12. Tale(q)'
  BY <1>9, <1>10, <1>11 DEF Tale
<1>13. PICK more : more = Sentinel(r)
  OBVIOUS
<1>14. more \in Seq(Characters) /\ q.raw = p.raw \o more /\ unread' = unread \o more
  BY <1>3, <1>7, <1>13 DEF AddsEnd
<1>15. Len(p.chars) + 1 .. Len(q.chars) = {}
  BY <1>6
<1>16. Story(q, d, m, n)'
  BY <1>2, <1>5, <1>8, <1>12, <1>14, <1>15, PrintsTell
<1> QED BY <1>16
-----------------------------------------------------------------------------
(* Every step keeps what the log tells *)

\* No record was rolled back or dropped.
Complete == ~poisoned /\ ~stopped

\* What holds while the log is complete, and what of it holds of a log that was cut or that stopped.
OutputInv ==
  /\ LogTells
  /\ ptyExit \in {"handled", "reset"} /\ Complete => Outputs(log) = text
  /\ ptyExit \notin {"handled", "reset"} /\ Complete => \E p, d, m, n : Story(p, d, m, n)

\* No step takes back an exit that was handled.
ExitStays == ptyExit \in {"handled", "reset"} => ptyExit' \in {"handled", "reset"}

\* A run that has not ended is not completed.
LEMMA NotYetCompleted ==
  ASSUME IInv, NEW r \in Runs, ~ \E i \in DOMAIN ended : ended[i].run = r
  PROVE  CompletionsOf(r) = {}
BY DEF IInv, LogInv, Printed

\* What the program prints goes on, and a run that ends has no completion yet.
LEMMA PrintsGrow ==
  ASSUME IInv, ProgramPrints
  PROVE  TextGrows /\ EndsAreNew
<1>1. ProgramTypes /\ ended \in Seq([run : Runs, before : Nat]) /\ text \in Seq(Characters) /\ typed \subseteq Runs
  BY DEF IInv, Types, ProgramTypes
<1>2. CASE UNCHANGED ended /\ \E word \in Prints : text' = text \o word
  <2>1. PICK word \in Prints : text' = text \o word
    BY <1>2
  <2>2. word \in Seq(Characters)
    <3>1. word \in Seq(STRING \ Runs)
      BY RunsAssumption
    <3>2. Len(word) \in Nat /\ \A j \in 1 .. Len(word) : word[j] \in STRING \ Runs
      BY <3>1, LenProperties, ElementOfSeq
    <3>3. \A j \in 1 .. Len(word) : word[j] \in Characters
      BY <3>2 DEF Characters
    <3>4. word = [j \in 1 .. Len(word) |-> word[j]]
      BY <3>1
    <3> QED BY <3>2, <3>3, <3>4, SeqDef
  <2>3. TextGrows
    BY <1>1, <2>1, <2>2, TextGrowsBy
  <2>4. EndsAreNew
    BY <1>2 DEF EndsAreNew
  <2> QED BY <2>3, <2>4
<1>3. CASE UNCHANGED <<text, ended>>
  BY <1>1, <1>3, LenProperties DEF TextGrows, EndsAreNew
<1>4. CASE /\ UNCHANGED text
           /\ \E r \in typed : /\ ~ \E i \in DOMAIN ended : ended[i].run = r
                               /\ ended' = Append(ended, [run |-> r, before |-> Len(text)])
  <2>1. PICK r \in typed : /\ ~ \E i \in DOMAIN ended : ended[i].run = r
                           /\ ended' = Append(ended, [run |-> r, before |-> Len(text)])
    BY <1>4
  <2>2. PICK e : e = [run |-> r, before |-> Len(text)]
    OBVIOUS
  <2>3. e \in [run : Runs, before : Nat] /\ e.run = r
    BY <1>1, <2>2, LenProperties
  <2>4. PICK S : S = [run : Runs, before : Nat]
    OBVIOUS
  <2>5. ended \in Seq(S) /\ e \in S /\ ended' = Append(ended, e)
    BY <1>1, <2>1, <2>2, <2>3, <2>4
  <2>6. /\ Len(ended) \in Nat /\ DOMAIN ended = 1 .. Len(ended) /\ DOMAIN ended' = 1 .. Len(ended')
        /\ Len(ended') = Len(ended) + 1
        /\ \A k \in 1 .. Len(ended) : ended'[k] = ended[k]
        /\ ended'[Len(ended) + 1] = e
    BY <2>5, AppendProperties, LenProperties
  <2>7. CompletionsOf(r) = {}
    BY <1>1, <2>1, NotYetCompleted
  <2>8. \A k \in 1 .. Len(ended') : k \in 1 .. Len(ended) \/ k = Len(ended) + 1
    BY <2>6
  <2>9. EndsAreNew
    BY <2>3, <2>6, <2>7, <2>8 DEF EndsAreNew
  <2> QED BY <1>1, <1>4, <2>9, LenProperties DEF TextGrows
<1> QED BY <1>2, <1>3, <1>4 DEF ProgramPrints

\* All other steps print nothing.
LEMMA NothingPrinted ==
  ASSUME IInv, UNCHANGED <<text, ended>>
  PROVE  TextGrows /\ EndsAreNew
<1>1. text \in Seq(Characters)
  BY DEF IInv, Types
<1>2. Len(text) \in Nat
  BY <1>1, LenProperties
<1> QED BY <1>1, <1>2 DEF TextGrows, EndsAreNew

\* The whole log holds the first characters that the program printed.
LEMMA AllIsTold ==
  ASSUME LogTells, LogTypes
  PROVE  \E u \in 0 .. Len(text) : Outputs(log) = Between(text, 0, u)
<1>1. IsSeq(log)
  BY DEF LogTypes
<1>2. Len(log) \in Nat
  BY <1>1, SeqShape
<1>3. SubSeq(log, 1, Len(log)) = log
  <2>1. log \in Seq({log[i] : i \in DOMAIN log})
    BY <1>1 DEF IsSeq
  <2>2. Between(log, 0, Len(log)) = log
    BY <2>1, BetweenAll
  <2> QED BY <2>2 DEF Between
<1>4. ToldBy(SubSeq(log, 1, Len(log)))
  <2>1. Len(log) \in 0 .. Len(log)
    BY <1>2
  <2> QED BY <2>1 DEF LogTells
<1> QED BY <1>3, <1>4 DEF ToldBy

\* A step that appends nothing.
LEMMA SameLogTells ==
  ASSUME IInv, LogTells, UNCHANGED log, TextGrows, EndsAreNew, ExitStays
  PROVE  LogTells'
<1>1. IsSeq(log) /\ IsSeq(log')
  BY DEF IInv, Types, IsSeq
<1>2. Len(log) \in Nat
  BY <1>1, SeqShape
<1>3. Len(log') <= Len(log) /\ \A i \in 1 .. Len(log') : log'[i] = log[i]
  BY <1>2
<1> QED BY <1>1, <1>3, ShorterLogTells DEF ExitStays

\* When a write has failed, nothing more is appended.
LEMMA PoisonedTells ==
  ASSUME IInv, OutputInv, poisoned, poisoned', UNCHANGED log, TextGrows, EndsAreNew, ExitStays
  PROVE  OutputInv'
BY SameLogTells DEF OutputInv, Complete

\* A record without output that no run completes with.
LEMMA PlainRecordTells ==
  ASSUME IInv, LogTells, ~poisoned, NEW record, Enqueue(record), record.kind \notin {"output", "run_complete"},
         UNCHANGED <<landed, poisoned, text, ended>>, ptyExit \notin {"handled", "reset"},
         record.kind = "exit" => ptyExit' \in {"handled", "reset"}
  PROVE  LogTells'
<1>1. LogTypes /\ text \in Seq(Characters)
  BY DEF IInv, Types, LogTypes
<1>2. PICK u \in 0 .. Len(text) : Outputs(log) = Between(text, 0, u)
  BY <1>1, AllIsTold
<1>3. Outputs(log) \in Seq(Characters)
  <2>1. Len(text) \in Nat
    BY <1>1, LenProperties
  <2>2. 0 \in 0 .. Len(text) /\ u \in 0 .. Len(text)
    BY <1>2, <2>1
  <2>3. u >= 0
    BY <2>1, <2>2
  <2> QED BY <1>1, <1>2, <2>1, <2>2, <2>3, BetweenIs
<1>4. Outputs(log) \o OutputOf(record) = Between(text, 0, u)
  BY <1>2, <1>3, NothingMoreHeld
<1>5. PICK newest : newest = Len(log) + 1
  OBVIOUS
<1>6. log'[newest] = record
  BY <1>1, <1>5, LogGrows
<1>7. \A r \in Runs : newest \notin CompletionsOf(r)'
  BY <1>6 DEF CompletionsOf
<1> QED BY <1>2, <1>4, <1>5, <1>7, LongerLogTells

\* A log that does not take a record takes its marker, or nothing.
LEMMA StoppedTells ==
  ASSUME IInv, LogTells, NEW record, AppendRecord(record), record.kind # "exit", poisoned \/ stopped',
         UNCHANGED <<landed, poisoned, text, ended, ptyExit>>, ptyExit \notin {"handled", "reset"}
  PROVE  LogTells'
<1>1. TextGrows /\ EndsAreNew /\ ExitStays
  BY NothingPrinted DEF ExitStays
<1>2. CASE UNCHANGED log
  BY <1>1, <1>2, SameLogTells
<1>3. CASE log' # log
  <2>1. LogTypes
    BY DEF IInv, Types, LogTypes
  <2>2. ~poisoned
    BY <1>3, <2>1, LogAppends
  <2>3. PICK stop : stop = [kind |-> "stop"]
    OBVIOUS
  <2>4. stop.kind = "stop"
    BY <2>3
  <2>5. Enqueue(stop)
    BY <1>3, <2>2, <2>3 DEF AppendRecord
  <2> QED BY <2>2, <2>4, <2>5, PlainRecordTells
<1> QED BY <1>2, <1>3

\* Nor when the exit has been handled.
LEMMA ExitedTells ==
  ASSUME IInv, OutputInv, ptyExit \in {"handled", "reset"}, ptyExit' \in {"handled", "reset"},
         UNCHANGED <<log, text, ended, poisoned, stopped>>
  PROVE  OutputInv'
<1>1. LogTells'
  BY NothingPrinted, SameLogTells DEF OutputInv, ExitStays
<1> QED BY <1>1 DEF OutputInv, Complete

\* A step that has to do with none of it.
LEMMA QuietTells ==
  ASSUME IInv, OutputInv, UNCHANGED <<log, poisoned, stopped, sanitizer, scanner, unread, text, ended, typed>>,
         Pending' = Pending, ptyExit' = ptyExit \/ (ptyExit = "no" /\ ptyExit' = "queued")
  PROVE  OutputInv'
<1>1. CASE ptyExit \in {"handled", "reset"}
  BY <1>1, ExitedTells
<1>2. CASE ptyExit \notin {"handled", "reset"}
  <2>1. LogTells'
    BY <1>2, NothingPrinted, SameLogTells DEF OutputInv, ExitStays
  <2>2. ptyExit' \notin {"handled", "reset"}
    BY <1>2
  <2>3. CASE Complete
    <3>1. PICK p, d, m, n : Story(p, d, m, n)
      BY <1>2, <2>3 DEF OutputInv
    <3>2. Story(p, d, m, n)'
      BY <3>1, StoryStays
    <3> QED BY <2>1, <2>2, <3>2 DEF OutputInv
  <2>4. CASE ~Complete
    <3>1. ~Complete'
      BY <2>4 DEF Complete
    <3> QED BY <2>1, <2>2, <3>1 DEF OutputInv
  <2> QED BY <2>3, <2>4
<1> QED BY <1>1, <1>2

\* A write fails: the log is cut.
LEMMA WriteFailsTells ==
  ASSUME IInv, OutputInv, WriteFails
  PROVE  OutputInv'
<1>1. LogTypes /\ log' = SubSeq(log, 1, landed) /\ poisoned' = TRUE
      /\ UNCHANGED <<text, ended, ptyExit>>
  BY DEF IInv, Types, LogTypes, WriteFails, programVars
<1>2. /\ IsSeq(log) /\ IsSeq(log') /\ Len(log') = landed /\ landed \in 0 .. Len(log)
      /\ \A i \in 1 .. landed : log'[i] = log[i]
  BY <1>1, SeqCuts DEF LogTypes
<1>3. Len(log) \in Nat
  BY <1>2, SeqShape
<1>4. Len(log') <= Len(log)
  BY <1>2, <1>3
<1>5. TextGrows /\ EndsAreNew
  BY <1>1, NothingPrinted
<1>6. LogTells'
  BY <1>1, <1>2, <1>4, <1>5, ShorterLogTells DEF OutputInv
<1> QED BY <1>1, <1>6 DEF OutputInv, Complete

\* What an append does to a log whose write has failed.
LEMMA PoisonedAppends ==
  ASSUME IInv, OutputInv, poisoned, UNCHANGED <<poisoned, text, ended>>, ExitStays, UNCHANGED log
  PROVE  OutputInv'
<1>1. TextGrows /\ EndsAreNew
  BY NothingPrinted
<1> QED BY <1>1, PoisonedTells
-----------------------------------------------------------------------------
(* The steps of the program and of the ingestion *)

\* The program prints: a word, an echo or a sentinel.
LEMMA ProgramPrintsTells ==
  ASSUME IInv, WholeControls, OutputInv, ProgramPrints
  PROVE  OutputInv'
<1>1. /\ ptyExit = "no" /\ ptyExit' = "no" /\ UNCHANGED <<poisoned, stopped, log, typed>>
      /\ UNCHANGED <<scanner, sanitizer, pieces, awaited, ptyExit>>
  BY DEF ProgramPrints, logVars, coordinator, ingestion
<1>2. TextGrows /\ EndsAreNew
  BY PrintsGrow
<1>3. ExitStays
  BY <1>1 DEF ExitStays
<1>4. LogTells'
  BY <1>1, <1>2, <1>3, SameLogTells DEF OutputInv
<1>5. CASE ~Complete
  <2>1. ~Complete'
    BY <1>1, <1>5 DEF Complete
  <2> QED BY <1>4, <2>1 DEF OutputInv
<1>6. CASE Complete
  <2>1. PICK p, d, m, n : Story(p, d, m, n)
    BY <1>1, <1>6 DEF OutputInv
  <2>2. CASE \E word \in Prints : unread' = unread \o word /\ text' = text \o word /\ UNCHANGED ended
    <3>1. PICK word \in Prints : unread' = unread \o word /\ text' = text \o word /\ UNCHANGED ended
      BY <2>2
    <3>2. \E q : Story(q, d, m, n)'
      BY <1>1, <2>1, <3>1, WordTells
    <3> QED BY <1>1, <1>4, <3>2 DEF OutputInv
  <2>3. CASE \E r \in typed : \E echo \in Echoes(r) :
               /\ ~ \E i \in DOMAIN ended : ended[i].run = r
               /\ unread' = unread \o echo /\ UNCHANGED <<text, ended>>
    <3>1. PICK r \in typed : \E echo \in Echoes(r) :
               /\ ~ \E i \in DOMAIN ended : ended[i].run = r
               /\ unread' = unread \o echo /\ UNCHANGED <<text, ended>>
      BY <2>3
    <3>2. PICK echo \in Echoes(r) :
               /\ ~ \E i \in DOMAIN ended : ended[i].run = r
               /\ unread' = unread \o echo /\ UNCHANGED <<text, ended>>
      BY <3>1
    <3>3. \E q : Story(q, d, m, n)'
      BY <1>1, <2>1, <3>2, EchoTells
    <3> QED BY <1>1, <1>4, <3>3 DEF OutputInv
  <2>4. CASE \E r \in typed :
               /\ ~ \E i \in DOMAIN ended : ended[i].run = r
               /\ unread' = unread \o Sentinel(r)
               /\ ended' = Append(ended, [run |-> r, before |-> Len(text)])
               /\ UNCHANGED text
    <3>1. PICK r \in typed :
               /\ ~ \E i \in DOMAIN ended : ended[i].run = r
               /\ unread' = unread \o Sentinel(r)
               /\ ended' = Append(ended, [run |-> r, before |-> Len(text)])
               /\ UNCHANGED text
      BY <2>4
    <3>2. \E q : Story(q, d, m, n)'
      BY <1>1, <2>1, <3>1, SentinelTells
    <3> QED BY <1>1, <1>4, <3>2 DEF OutputInv
  <2> QED BY <2>2, <2>3, <2>4 DEF ProgramPrints
<1> QED BY <1>5, <1>6

\* A run begins.
LEMMA StartRunKeepsOutput ==
  ASSUME IInv, OutputInv, NEW r \in Runs, StartRun(r)
  PROVE  OutputInv'
<1>1. /\ session = "running" /\ AppendRecord([kind |-> "input_run", run |-> r])
      /\ UNCHANGED <<landed, poisoned, text, ended, ptyExit>>
  BY DEF StartRun
<1>2. ptyExit \notin {"handled", "reset"} /\ ptyExit' \notin {"handled", "reset"}
  BY <1>1 DEF IInv, Phases
<1>3. CASE poisoned \/ stopped'
  <2>1. PICK record : record = [kind |-> "input_run", run |-> r]
    OBVIOUS
  <2>2. record.kind # "exit" /\ AppendRecord(record)
    BY <1>1, <2>1
  <2>3. LogTells'
    BY <1>1, <1>2, <1>3, <2>2, StoppedTells DEF OutputInv
  <2>4. ~Complete'
    BY <1>1, <1>3 DEF Complete
  <2> QED BY <2>3, <2>4 DEF OutputInv
<1>4. CASE ~poisoned /\ ~stopped'
  <2>1. Complete
    <3>1. LogTypes
      BY DEF IInv, Types, LogTypes
    <3>2. stopped => stopped'
      BY <1>1, <3>1, LogAppends
    <3> QED BY <1>4, <3>2 DEF Complete
  <2>2. PICK p, d, m, n : Story(p, d, m, n)
    BY <1>2, <2>1 DEF OutputInv
  <2>3. LogTells' /\ Story(p, d, m, n)'
    BY <1>4, <2>2, StartRunTells DEF OutputInv
  <2> QED BY <1>2, <2>3 DEF OutputInv
<1> QED BY <1>3, <1>4

\* A chunk is scanned.
LEMMA BeginChunkKeepsOutput ==
  ASSUME IInv, OutputInv, BeginChunk
  PROVE  OutputInv'
<1>1. unread # <<>> /\ UNCHANGED <<log, poisoned, stopped, text, ended, ptyExit>>
  BY DEF BeginChunk, logVars, programVars
<1>2. ptyExit \notin {"handled", "reset"} /\ ptyExit' \notin {"handled", "reset"}
  BY <1>1 DEF IInv, Phases
<1>3. ExitStays /\ TextGrows /\ EndsAreNew
  BY <1>1, NothingPrinted DEF ExitStays
<1>4. LogTells'
  BY <1>1, <1>3, SameLogTells DEF OutputInv
<1>5. Complete' => \E p, d, m, n : Story(p, d, m, n)'
  <2>1. SUFFICES ASSUME Complete PROVE \E p, d, m, n : Story(p, d, m, n)'
    BY <1>1 DEF Complete
  <2>2. PICK p, d, m, n : Story(p, d, m, n)
    BY <1>2, <2>1 DEF OutputInv
  <2>3. \E w : Story(p, d, m, w)'
    BY <2>2, BeginChunkTells
  <2> QED BY <2>3
<1> QED BY <1>2, <1>4, <1>5 DEF OutputInv

\* The flush begins.
LEMMA BeginFlushKeepsOutput ==
  ASSUME IInv, OutputInv, BeginFlush
  PROVE  OutputInv'
<1>1. ptyExit = "queued" /\ ptyExit' = "flushing" /\ UNCHANGED <<log, poisoned, stopped, text, ended>>
  BY DEF BeginFlush, logVars, programVars
<1>2. ptyExit \notin {"handled", "reset"} /\ ptyExit' \notin {"handled", "reset"}
  BY <1>1
<1>3. ExitStays /\ TextGrows /\ EndsAreNew
  BY <1>1, NothingPrinted DEF ExitStays
<1>4. LogTells'
  BY <1>1, <1>3, SameLogTells DEF OutputInv
<1>5. Complete' => \E p, d, m, n : Story(p, d, m, n)'
  <2>1. SUFFICES ASSUME Complete PROVE \E p, d, m, n : Story(p, d, m, n)'
    BY <1>1 DEF Complete
  <2>2. PICK p, d, m, n : Story(p, d, m, n)
    BY <1>2, <2>1 DEF OutputInv
  <2>3. \E w : Story(p, d, m, w)'
    BY <2>2, BeginFlushTells
  <2> QED BY <2>3
<1> QED BY <1>2, <1>4, <1>5 DEF OutputInv

\* A piece is appended, or there is nothing to append of it.
LEMMA TakesOrAppends ==
  ASSUME IInv, TakePiece
  PROVE  UNCHANGED <<log, stopped>> \/ \E record : AppendRecord(record) /\ record.kind # "exit"
<1>1. ASSUME NEW stripped, Emit(stripped)
      PROVE  UNCHANGED <<log, stopped>> \/ \E record : AppendRecord(record) /\ record.kind # "exit"
  <2>1. CASE stripped.out = <<>>
    BY <1>1, <2>1 DEF Emit
  <2>2. CASE stripped.out # <<>>
    <3>1. PICK record : record = [kind |-> "output", data |-> stripped.out]
      OBVIOUS
    <3>2. AppendRecord(record)
      BY <1>1, <2>2, <3>1 DEF Emit
    <3>3. record.kind # "exit"
      BY <3>1
    <3> QED BY <3>2, <3>3
  <2> QED BY <2>1, <2>2
<1>2. Head(pieces).kind \in {"output", "run_complete", "flush", "record"}
  <2>1. pieces # <<>>
    BY DEF TakePiece
  <2> QED BY <2>1, HeadIsPiece
<1>3. (\E stripped : Emit(stripped)) \/ Head(pieces).kind = "record"
  BY <1>2, Zenon DEF TakePiece
<1>4. CASE \E stripped : Emit(stripped)
  BY <1>1, <1>4
<1>5. CASE Head(pieces).kind = "record"
  <2>1. PICK r : r = Head(pieces).run
    OBVIOUS
  <2>2. PICK record : record = [kind |-> "run_complete", run |-> r, input |-> active[r]]
    OBVIOUS
  <2>3. AppendRecord(record)
    BY <1>5, <2>1, <2>2 DEF TakePiece
  <2>4. record.kind # "exit"
    BY <2>2
  <2> QED BY <2>3, <2>4
<1> QED BY <1>3, <1>4, <1>5

\* A piece is taken.
LEMMA TakePieceKeepsOutput ==
  ASSUME IInv, Unmistakable, OutputInv, TakePiece
  PROVE  OutputInv'
<1>1. pieces # <<>> /\ UNCHANGED <<landed, poisoned, text, ended, ptyExit>>
  BY DEF TakePiece, programVars
<1>2. ptyExit \notin {"handled", "reset"} /\ ptyExit' \notin {"handled", "reset"}
  BY <1>1 DEF IInv, Phases
<1>3. UNCHANGED <<log, stopped>> \/ \E record : AppendRecord(record) /\ record.kind # "exit"
  BY TakesOrAppends
<1>4. stopped => stopped'
  <2>1. LogTypes
    BY DEF IInv, Types, LogTypes
  <2> QED BY <1>1, <1>3, <2>1, LogAppends
<1>5. CASE poisoned \/ stopped'
  <2>1. LogTells'
    <3>1. CASE UNCHANGED <<log, stopped>>
      <4>1. TextGrows /\ EndsAreNew /\ ExitStays
        BY <1>1, NothingPrinted DEF ExitStays
      <4> QED BY <3>1, <4>1, SameLogTells DEF OutputInv
    <3>2. CASE \E record : AppendRecord(record) /\ record.kind # "exit"
      <4>1. PICK record : AppendRecord(record) /\ record.kind # "exit"
        BY <3>2
      <4> QED BY <1>1, <1>2, <1>5, <4>1, StoppedTells DEF OutputInv
    <3> QED BY <1>3, <3>1, <3>2
  <2>2. ~Complete'
    BY <1>1, <1>5 DEF Complete
  <2> QED BY <2>1, <2>2 DEF OutputInv
<1>6. CASE ~poisoned /\ ~stopped'
  <2>1. Complete
    BY <1>4, <1>6 DEF Complete
  <2>2. PICK p, d, m, n : Story(p, d, m, n)
    BY <1>2, <2>1 DEF OutputInv
  <2>3. LogTells' /\ \E e, y : Story(p, e, y, n)'
    BY <1>6, <2>2, TakePieceTells DEF OutputInv
  <2> QED BY <1>2, <2>3 DEF OutputInv
<1> QED BY <1>5, <1>6

\* The append that is awaited lands.
LEMMA PieceLandsTells ==
  ASSUME IInv, OutputInv, PieceLands
  PROVE  OutputInv'
<1>1. /\ awaited \in 1 .. landed /\ awaited' = 0 /\ pieces' = PiecesLeft
      /\ UNCHANGED <<log, poisoned, stopped, sanitizer, scanner, unread, text, ended, typed, ptyExit>>
  BY DEF PieceLands, logVars, programVars
<1>2. landed \in Nat
  <2>1. Len(log) \in Nat /\ landed \in 0 .. Len(log)
    BY SeqShape DEF IInv, Types
  <2> QED BY <2>1
<1>3. Pending' = Pending
  BY <1>1, <1>2 DEF Pending
<1> QED BY <1>1, <1>3, QuietTells

\* The append that is awaited is rejected.
LEMMA PieceFailsTells ==
  ASSUME IInv, OutputInv, PieceFails
  PROVE  OutputInv'
BY PoisonedAppends DEF PieceFails, logVars, programVars, ExitStays
-----------------------------------------------------------------------------
(* The exit, and all steps *)

\* The exit is recorded, when all that was printed is in the log.
LEMMA HandlePtyExitTells ==
  ASSUME IInv, OutputInv, HandlePtyExit
  PROVE  OutputInv'
<1> DEFINE record == [kind |-> "exit"]
<1>1. /\ ptyExit = "flushing" /\ ptyExit' = "handled" /\ pieces = <<>> /\ AppendRecord(record)
      /\ UNCHANGED <<landed, poisoned, text, ended>>
  BY DEF HandlePtyExit, programVars
<1>0. record.kind = "exit"
  OBVIOUS
<1>4. Enqueue(record) /\ UNCHANGED stopped
  BY <1>0, <1>1 DEF AppendRecord
<1>2. CASE poisoned \/ stopped
  <2>1. LogTells'
    <3>1. CASE poisoned
      <4>1. UNCHANGED log
        BY <1>4, <3>1 DEF Enqueue
      <4>2. TextGrows /\ EndsAreNew /\ ExitStays
        BY <1>1, NothingPrinted DEF ExitStays
      <4> QED BY <4>1, <4>2, SameLogTells DEF OutputInv
    <3>2. CASE ~poisoned
      <4> HIDE DEF record
      <4> QED BY <1>0, <1>1, <1>4, <3>2, PlainRecordTells DEF OutputInv
    <3> QED BY <3>1, <3>2
  <2>2. ~Complete'
    BY <1>1, <1>2, <1>4 DEF Complete
  <2> QED BY <2>1, <2>2 DEF OutputInv
<1>3. CASE ~poisoned /\ ~stopped
  <2>1. PICK p, d, m, n : Story(p, d, m, n)
    BY <1>1, <1>3 DEF OutputInv, Complete
  <2>2. Pending = <<>>
    BY <1>1 DEF Pending, IInv, AwaitsHead
  <2>3. d = Len(p.chars) /\ Tale(p) /\ EndedOnce /\ Place(p, m) /\ Sanitized(p, d, m) /\ ProgramTypes
    BY <1>1, <2>1, <2>2, ProgramIsTyped DEF Story, Flushing, LastIsFlush
  <2>4. PICK u : u = Len(text)
    OBVIOUS
  <2>5. p.user[d] = u
    BY <2>3, <2>4 DEF Tale, PlainInv
  <2>6. /\ Outputs(log) = Between(text, 0, u) /\ Outputs(log) \in Seq(Characters) /\ text \in Seq(Characters)
        /\ u \in 0 .. Len(text)
    BY <2>3, <2>5, HeldIs
  <2>7. Between(text, 0, u) = text
    BY <2>4, <2>6, BetweenAll
  <2>8. record.kind = "exit"
    OBVIOUS
  <2> HIDE DEF record
  <2>9. Outputs(log) \o OutputOf(record) = Between(text, 0, u)
    BY <2>6, <2>8, NothingMoreHeld
  <2>10. PICK newest : newest = Len(log) + 1
    OBVIOUS
  <2>11. \A r \in Runs : newest \notin CompletionsOf(r)'
    <3>1. LogTypes
      BY DEF IInv, Types, LogTypes
    <3>2. log'[newest] = record
      BY <1>1, <1>3, <1>4, <2>10, <3>1, LogGrows
    <3> QED BY <2>8, <3>2 DEF CompletionsOf
  <2>12. LogTells' /\ Outputs(log') = Between(text, 0, u)
    BY <1>1, <1>3, <1>4, <2>6, <2>8, <2>9, <2>10, <2>11, LongerLogTells DEF OutputInv
  <2>13. Outputs(log') = text'
    BY <1>1, <2>7, <2>12
  <2> QED BY <1>1, <2>12, <2>13 DEF OutputInv
<1> QED BY <1>2, <1>3

\* Steps that only the waits, the writes and the session have to do with.
LEMMA OtherStepsTell ==
  ASSUME IInv, OutputInv,
         \/ WriteLands \/ PtyExits \/ StartShutdown \/ HostDies \/ UNCHANGED vars
         \/ \E r \in Runs : HandlerGoesOn(r) \/ TimeOut(r)
  PROVE  OutputInv'
<1>1. UNCHANGED <<log, poisoned, stopped, sanitizer, scanner, unread, text, ended, typed, pieces, awaited>>
  <2>1. CASE WriteLands \/ PtyExits \/ StartShutdown \/ HostDies \/ UNCHANGED vars
    BY <2>1 DEF WriteLands, PtyExits, StartShutdown, HostDies, vars, logVars, coordinator, ingestion, programVars
  <2>2. CASE \E r \in Runs : HandlerGoesOn(r) \/ TimeOut(r)
    BY <2>2 DEF HandlerGoesOn, InputRecorded, WaitEnds, TimeOut, RunSettles, logVars, ingestion, programVars
  <2> QED BY <2>1, <2>2
<1>2. ptyExit' = ptyExit \/ (ptyExit = "no" /\ ptyExit' = "queued")
  <2>1. CASE WriteLands \/ PtyExits \/ StartShutdown \/ HostDies \/ UNCHANGED vars
    BY <2>1 DEF WriteLands, PtyExits, StartShutdown, HostDies, vars
  <2>2. CASE \E r \in Runs : HandlerGoesOn(r) \/ TimeOut(r)
    BY <2>2 DEF HandlerGoesOn, InputRecorded, WaitEnds, TimeOut, RunSettles
  <2> QED BY <2>1, <2>2
<1>3. Pending' = Pending
  BY <1>1 DEF Pending, PiecesLeft
<1> QED BY <1>1, <1>2, <1>3, QuietTells

\* The coordinator is reset.
LEMMA ResetForExitTells ==
  ASSUME IInv, OutputInv, ResetForExit
  PROVE  OutputInv'
BY ExitedTells DEF ResetForExit, logVars, programVars

\* Every step.
LEMMA StepTells ==
  ASSUME IInv, WholeControls, Unmistakable, OutputInv, [Next]_vars
  PROVE  OutputInv'
<1>1. CASE \E r \in Runs : StartRun(r)
  BY <1>1, StartRunKeepsOutput
<1>2. CASE \/ WriteLands \/ PtyExits \/ StartShutdown \/ HostDies \/ UNCHANGED vars
           \/ \E r \in Runs : HandlerGoesOn(r) \/ TimeOut(r)
  BY <1>2, OtherStepsTell
<1>3. CASE WriteFails
  BY <1>3, WriteFailsTells
<1>4. CASE BeginChunk \/ BeginFlush \/ TakePiece
  BY <1>4, BeginChunkKeepsOutput, BeginFlushKeepsOutput, TakePieceKeepsOutput
<1>5. CASE PieceLands \/ PieceFails
  BY <1>5, PieceLandsTells, PieceFailsTells
<1>6. CASE HandlePtyExit \/ ResetForExit
  BY <1>6, HandlePtyExitTells, ResetForExitTells
<1>7. CASE ProgramPrints
  BY <1>7, ProgramPrintsTells
<1> QED BY <1>1, <1>2, <1>3, <1>4, <1>5, <1>6, <1>7 DEF Next, WriteSettles, Ingest, HandleExit

\* What the program prints only grows.
LEMMA StepGrows ==
  ASSUME IInv, [Next]_vars
  PROVE  TextGrows
<1>1. ProgramPrints \/ UNCHANGED <<text, ended>>
  <2>1. CASE \E r \in Runs : StartRun(r) \/ HandlerGoesOn(r) \/ TimeOut(r)
    BY <2>1 DEF StartRun, HandlerGoesOn, InputRecorded, WaitEnds, TimeOut, RunSettles, programVars
  <2>2. CASE WriteSettles \/ HandleExit \/ PtyExits \/ StartShutdown \/ UNCHANGED vars
    BY <2>2 DEF WriteSettles, WriteLands, WriteFails, HandleExit, HandlePtyExit, ResetForExit, HostDies,
                PtyExits, StartShutdown, programVars, vars
  <2>3. CASE Ingest
    BY <2>3 DEF Ingest, BeginChunk, BeginFlush, TakePiece, PieceLands, PieceFails, programVars
  <2> QED BY <2>1, <2>2, <2>3 DEF Next
<1> QED BY <1>1, PrintsGrow, NothingPrinted

\* Nothing has been printed, and nothing is in the log.
LEMMA InitTells ==
  ASSUME Init
  PROVE  OutputInv
<1>1. /\ log = <<>> /\ text = <<>> /\ ended = <<>> /\ typed = {} /\ pieces = <<>> /\ awaited = 0 /\ ptyExit = "no"
      /\ scanner = [active |-> {}, tail |-> <<>>] /\ sanitizer = FreshSanitizer /\ unread = <<>> /\ ~poisoned
  BY DEF Init
<1>2. /\ <<>> \in Seq(Characters) /\ Len(<<>>) = 0 /\ 0 .. 0 = {0} /\ 1 .. 0 = {} /\ DOMAIN <<>> = {}
      /\ <<>> \in Seq([run : Runs, before : Nat])
  OBVIOUS
<1>3. PICK p : /\ p.chars = <<>> /\ p.user = [i \in 0 .. 0 |-> 0] /\ p.at = [i \in 0 .. 0 |-> 0]
               /\ p.raw = <<>> /\ p.g = [i \in 0 .. 0 |-> 0] /\ p.k = [i \in 0 .. 0 |-> 0]
  <2>1. PICK f : f = [i \in 0 .. 0 |-> 0]
    OBVIOUS
  <2>2. PICK p : p = [chars |-> <<>>, user |-> f, at |-> f, raw |-> <<>>, g |-> f, k |-> f]
    OBVIOUS
  <2>3. p.chars = <<>> /\ p.user = f /\ p.at = f /\ p.raw = <<>> /\ p.g = f /\ p.k = f
    BY <2>2
  <2> QED BY <2>1, <2>3, Zenon
<1>4. \A f : f = [i \in 0 .. 0 |-> 0] => f \in [0 .. 0 -> 0 .. 0] /\ f \in [0 .. 0 -> Nat] /\ f[0] = 0
  OBVIOUS
<1>5. p.user[0] = 0 /\ p.at[0] = 0 /\ p.g[0] = 0 /\ p.k[0] = 0
  BY <1>3, <1>4, Zenon
<1>6. PlainInv(p)
  BY <1>1, <1>2, <1>3, <1>4, <1>5 DEF PlainInv
<1>7. RawInv(p)
  BY <1>1, <1>2, <1>3, <1>4, <1>5 DEF RawInv
<1>8. StandInv(p) /\ EndedOnce
  BY <1>1, <1>2 DEF StandInv, EndedOnce
<1>9. Place(p, 0)
  BY <1>2, <1>3 DEF Place
<1>10. Between(<<>>, 0, 0) = <<>>
  BY <1>2, BetweenAll
<1>11. Outputs(<<>>) = <<>>
  BY OutputsOfNone
<1>12. Keeps(p, 0, 0, sanitizer)
  <2>1. sanitizer.strip = NoStrip /\ sanitizer.tail = <<>> /\ sanitizer.echoes = {}
        /\ sanitizer = [echoes |-> sanitizer.echoes, strip |-> sanitizer.strip, tail |-> sanitizer.tail]
    BY <1>1 DEF FreshSanitizer
  <2>2. HeldBack(p, 0, 0, {}, <<>>)
    BY <1>2, <1>3, NothingHeld, SMTT(40)
  <2> QED BY <1>5, <2>1, <2>2 DEF Keeps, StripAt
<1>13. Awaits(p, 0, {})
  BY <1>1 DEF Awaits
<1>14. sanitizer.echoes = {} /\ scanner.active = {} /\ scanner.tail = <<>>
  BY <1>1 DEF FreshSanitizer
<1>15. Sanitized(p, 0, 0)
  BY <1>1, <1>2, <1>3, <1>5, <1>10, <1>11, <1>12, <1>13, <1>14 DEF Sanitized
<1>16. <<>> \o <<>> = <<>>
  OBVIOUS
<1>17. ScannedTo(p, 0)
  BY <1>1, <1>2, <1>3, <1>9, <1>10, <1>13, <1>14, <1>16 DEF ScannedTo
<1>18. Leads(p, Pending, 0, 0)
  BY <1>1, <1>9, LeadsNowhere DEF Pending
<1>19. Story(p, 0, 0, 0)
  BY <1>1, <1>6, <1>7, <1>8, <1>9, <1>15, <1>17, <1>18 DEF Story, Tale, Flushing
<1>20. LogTells
  <2>1. \A j \in 0 .. Len(log) : ToldBy(SubSeq(log, 1, j))
    <3>1. SubSeq(log, 1, 0) = <<>>
      BY <1>1
    <3>2. ToldBy(<<>>)
      BY <1>1, <1>2, <1>10, <1>11 DEF ToldBy
    <3> QED BY <1>1, <1>2, <3>1, <3>2
  <2> QED BY <1>1, <1>2, <2>1 DEF LogTells, CompletionsOf
<1> QED BY <1>1, <1>19, <1>20 DEF OutputInv
-----------------------------------------------------------------------------
(* What is in the log in every state *)

\* What the log tells is what the two properties say.
LEMMA LogIsRight ==
  ASSUME IInv, OutputInv
  PROVE  LogHoldsTheOutput /\ CompletionKeepsItsPlace
<1>1. IsSeq(log) /\ text \in Seq(Characters) /\ LogTells
  BY DEF IInv, Types, OutputInv
<1>2. Len(log) \in Nat /\ DOMAIN log = 1 .. Len(log)
  BY <1>1, SeqShape
<1>3. LogTypes
  BY DEF IInv, Types, LogTypes
<1>4. PICK u \in 0 .. Len(text) : Outputs(log) = Between(text, 0, u)
  BY <1>1, <1>3, AllIsTold
<1>5. IsPrefix(Outputs(log), text)
  <2>1. PICK s : s = Outputs(log)
    OBVIOUS
  <2>0. Len(text) \in Nat
    BY <1>1, LenProperties
  <2>2. Len(text) \in Nat /\ 0 \in 0 .. Len(text) /\ u \in 0 .. Len(text) /\ u - 0 = u /\ u <= Len(text)
    <3>1. u \in 0 .. Len(text)
      BY <1>4
    <3>2. PICK t \in Nat : t = Len(text)
      BY <2>0
    <3>3. u \in 0 .. t
      BY <3>1, <3>2
    <3>4. 0 \in 0 .. t /\ u - 0 = u /\ u <= t
      BY <3>3
    <3> QED BY <3>1, <3>2, <3>4
  <2>3. s \in Seq(Characters) /\ Len(s) = u /\ \A j \in 1 .. u : s[j] = text[j]
    <3>1. /\ Between(text, 0, u) \in Seq(Characters) /\ Len(Between(text, 0, u)) = u - 0
          /\ \A j \in 1 .. u - 0 : Between(text, 0, u)[j] = text[0 + j]
      BY <1>1, <2>2, BetweenIs
    <3>2. \A j \in 1 .. u : 0 + j = j
      OBVIOUS
    <3> QED BY <1>4, <2>1, <2>2, <3>1, <3>2
  <2>4. Len(s) <= Len(text) /\ \A j \in 1 .. Len(s) : text[j] = s[j]
    BY <2>2, <2>3, SMTT(40)
  <2> QED BY <1>1, <2>1, <2>3, <2>4, PrefixOf
<1>6. \A i \in DOMAIN log : log[i].kind = "exit" => i = Len(log)
  BY <1>1, <1>2 DEF LogTells
<1>7. LogHoldsTheOutput
  BY <1>5, <1>6 DEF LogHoldsTheOutput, OutputInv, Complete
<1>8. CompletionKeepsItsPlace
  BY <1>1 DEF LogTells, InPlace, CompletionKeepsItsPlace
<1> QED BY <1>7, <1>8

\* As long as nothing that the program prints reads as a postamble, the log
\* holds what it should: in every state of every run of the host.
LEMMA OutputIsKept ==
  ASSUME WholeControls
  PROVE  SafeSpec => [](IInv /\ (Unmistakable => OutputInv))
<1>1. Init => IInv /\ (Unmistakable => OutputInv)
  BY InitInv, InitTells
<1>2. IInv /\ (Unmistakable => OutputInv) /\ [Next]_vars => (IInv /\ (Unmistakable => OutputInv))'
  <2> SUFFICES ASSUME IInv, Unmistakable => OutputInv, [Next]_vars
               PROVE  IInv' /\ (Unmistakable' => OutputInv')
    OBVIOUS
  <2>1. IInv'
    BY StepInv
  <2>2. TextGrows
    BY StepGrows
  <2>3. ASSUME Unmistakable' PROVE OutputInv'
    <3>1. Unmistakable
      BY <2>2, <2>3, UnmistakableBefore
    <3> QED BY <3>1, StepTells
  <2> QED BY <2>1, <2>3
<1> QED BY <1>1, <1>2, PTL DEF SafeSpec

\* LogHoldsTheOutput: what the records hold is what the program printed for its
\* user, also when writes fail or the log stops at its limit, and behind the exit
\* all of it if neither happened (eventLog.ts:430).
THEOREM LogHasTheOutput ==
  ASSUME WholeControls
  PROVE  SafeSpec => [](Unmistakable => LogHoldsTheOutput)
<1>1. IInv /\ (Unmistakable => OutputInv) => (Unmistakable => LogHoldsTheOutput)
  BY LogIsRight
<1> QED BY <1>1, OutputIsKept, PTL

\* CompletionKeepsItsPlace.
THEOREM CompletionsAreInPlace ==
  ASSUME WholeControls
  PROVE  SafeSpec => [](Unmistakable => CompletionKeepsItsPlace)
<1>1. IInv /\ (Unmistakable => OutputInv) => (Unmistakable => CompletionKeepsItsPlace)
  BY LogIsRight
<1> QED BY <1>1, OutputIsKept, PTL
-----------------------------------------------------------------------------
(* A program that never prints a character of the postambles' start *)

\* No print has the k-th character of what all postambles start with.
Spares(k) == k \in 1 .. Len(EchoPrefix) /\ \A word \in Prints : \A j \in DOMAIN word : word[j] # EchoPrefix[k]

\* The scan of a text without that character never gets past it.
LEMMA ScanNeedsAll ==
  ASSUME NEW t \in Seq(Characters), NEW k \in 1 .. Len(EchoPrefix), \A i \in 1 .. Len(t) : t[i] # EchoPrefix[k]
  PROVE  ~PrefixScan(t, EchoPrefix).complete
<1>1. /\ EchoPrefix \in Seq(Characters) /\ Len(EchoPrefix) \in Nat /\ Len(t) \in Nat
      /\ k \in Nat /\ 1 <= k /\ k <= Len(EchoPrefix)
  BY PrefixIs, LenProperties
<1>2. PICK scan : Scans(scan, t, EchoPrefix)
  BY <1>1, PrefixScanLoops
<1> DEFINE L == Len(t) + 1
           Fails(i) == \A e \in 0 .. k - 1 : ~scan[<<i, e>>].complete
           done == {m \in Nat : \A i \in 1 .. L : i >= L - m => Fails(i)}
<1>3. ASSUME NEW i \in 1 .. L, \A j \in 1 .. L : j > i => Fails(j) PROVE Fails(i)
  <2> SUFFICES ASSUME NEW e \in 0 .. k - 1 PROVE ~scan[<<i, e>>].complete
    OBVIOUS
  <2>1. e \in 0 .. Len(EchoPrefix) /\ e < Len(EchoPrefix) /\ e # Len(EchoPrefix) /\ i \in 1 .. Len(t) + 1
    BY <1>1
  <2>2. CASE i > Len(t)
    <3>1. scan[<<i, e>>] = [used |-> i - 1, matched |-> e, complete |-> e = Len(EchoPrefix), pending |-> e < Len(EchoPrefix)]
      BY <1>1, <1>2, <2>1, <2>2, ScanEnds
    <3>2. scan[<<i, e>>].complete = (e = Len(EchoPrefix))
      BY <3>1
    <3>3. e # Len(EchoPrefix)
      BY <2>1
    <3> QED BY <3>2, <3>3, Zenon
  <2>3. CASE i <= Len(t)
    <3>1. i \in 1 .. Len(t)
      BY <1>1, <2>3
    <3>2. ControlLength(t, i) = Partial \/ ControlLength(t, i) \in 0 .. Len(t) - i + 1
      BY <3>1, ControlIs
    <3>3. CASE ControlLength(t, i) = Partial
      <4>1. scan[<<i, e>>] = [used |-> i - 1, matched |-> e, complete |-> FALSE, pending |-> TRUE]
        BY <1>1, <1>2, <2>1, <2>3, <3>3, ScanIsCut
      <4> QED BY <4>1
    <3>4. CASE ControlLength(t, i) \in 1 .. Len(t) - i + 1
      <4>1. scan[<<i, e>>] = scan[<<i + ControlLength(t, i), e>>]
        <5>1. ControlLength(t, i) > 0
          BY <3>4
        <5> QED BY <1>1, <1>2, <2>1, <2>3, <5>1, ScanSkips
      <4>2. i + ControlLength(t, i) \in 1 .. L /\ i + ControlLength(t, i) > i
        BY <1>1, <3>1, <3>4
      <4>3. Fails(i + ControlLength(t, i))
        BY <1>3, <4>2
      <4> QED BY <4>1, <4>3
    <3>5. CASE ControlLength(t, i) = 0
      <4>1. CASE t[i] = EchoPrefix[e + 1]
        <5>1. scan[<<i, e>>] = scan[<<i + 1, e + 1>>]
          BY <1>1, <1>2, <2>1, <2>3, <3>5, <4>1, ScanMatches
        <5>2. e + 1 # k
          BY <3>1, <4>1
        <5>3. e + 1 \in 0 .. k - 1 /\ i + 1 \in 1 .. L /\ i + 1 > i
          BY <1>1, <3>1, <5>2
        <5>4. Fails(i + 1)
          BY <1>3, <5>3
        <5> QED BY <5>1, <5>3, <5>4
      <4>2. CASE t[i] # EchoPrefix[e + 1]
        <5>1. scan[<<i, e>>] = [used |-> i - 1, matched |-> e, complete |-> FALSE, pending |-> FALSE]
          BY <1>1, <1>2, <2>1, <2>3, <3>5, <4>2, ScanDiffers
        <5> QED BY <5>1
      <4> QED BY <4>1, <4>2
    <3>6. ControlLength(t, i) = Partial \/ ControlLength(t, i) = 0 \/ ControlLength(t, i) \in 1 .. Len(t) - i + 1
      BY <3>2
    <3> QED BY <3>3, <3>4, <3>5, <3>6
  <2> QED BY <1>1, <2>1, <2>2, <2>3
<1>4. 0 \in done
  <2> SUFFICES ASSUME NEW i \in 1 .. L, i >= L PROVE Fails(i)
    BY <1>1
  <2> HIDE DEF Fails
  <2>1. \A j \in 1 .. L : j > i => Fails(j)
    BY <1>1
  <2> QED BY <1>3, <2>1
<1>5. ASSUME NEW m \in Nat, m \in done PROVE m + 1 \in done
  <2> SUFFICES ASSUME NEW i \in 1 .. L, i >= L - (m + 1) PROVE Fails(i)
    OBVIOUS
  <2> HIDE DEF Fails
  <2>1. \A j \in 1 .. L : j > i => Fails(j)
    BY <1>1, <1>5
  <2> QED BY <1>3, <2>1
<1>6. L \in done
  <2> HIDE DEF done
  <2>1. L \in Nat
    BY <1>1
  <2> QED BY <1>4, <1>5, <2>1, Induction
<1>7. Fails(1)
  <2> HIDE DEF Fails
  <2>1. 1 \in 1 .. L /\ 1 >= L - L
    BY <1>1
  <2> QED BY <1>6, <2>1
<1>8. ~scan[<<1, 0>>].complete
  <2>1. 0 \in 0 .. k - 1
    BY <1>1
  <2> QED BY <1>7, <2>1
<1>9. PrefixScan(t, EchoPrefix) = scan[<<1, 0>>]
  BY <1>2 DEF Scans
<1> QED BY <1>8, <1>9

\* What the program printed does not have that character.
TextSpares(k) == \A i \in 1 .. Len(text) : text[i] # EchoPrefix[k]

\* It never gets one.
LEMMA TextIsSpared ==
  ASSUME NEW k, Spares(k)
  PROVE  SafeSpec => [](IInv /\ TextSpares(k))
<1>1. Init => IInv /\ TextSpares(k)
  <2>1. Init => text = <<>>
    BY DEF Init
  <2>2. \A i \in 1 .. Len(<<>>) : FALSE
    OBVIOUS
  <2> QED BY <2>1, <2>2, InitInv DEF TextSpares
<1>2. IInv /\ TextSpares(k) /\ [Next]_vars => (IInv /\ TextSpares(k))'
  <2> SUFFICES ASSUME IInv, TextSpares(k), [Next]_vars PROVE IInv' /\ TextSpares(k)'
    OBVIOUS
  <2>1. IInv'
    BY StepInv
  <2>2. ASSUME UNCHANGED text PROVE TextSpares(k)'
    BY <2>2 DEF TextSpares
  <2>3. ASSUME NEW word \in Prints, text' = text \o word PROVE TextSpares(k)'
    <3>1. text \in Seq(Characters) /\ word \in Seq(STRING \ Runs)
      BY RunsAssumption DEF IInv, Types
    <3>2. Len(text) \in Nat /\ Len(word) \in Nat /\ DOMAIN word = 1 .. Len(word)
      BY <3>1, LenProperties
    <3> SUFFICES ASSUME NEW i \in 1 .. Len(text') PROVE text'[i] # EchoPrefix[k]
      BY DEF TextSpares
    <3>3. Len(text') = Len(text) + Len(word)
          /\ text'[i] = IF i <= Len(text) THEN text[i] ELSE word[i - Len(text)]
      BY <2>3, <3>1, ConcatProperties
    <3>4. CASE i <= Len(text)
      BY <3>2, <3>3, <3>4 DEF TextSpares
    <3>5. CASE ~(i <= Len(text))
      <4>1. i - Len(text) \in DOMAIN word
        BY <3>2, <3>3, <3>5
      <4> QED BY <3>3, <3>5, <4>1 DEF Spares
    <3> QED BY <3>4, <3>5
  <2>4. UNCHANGED text \/ \E word \in Prints : text' = text \o word
    <3>1. CASE \E r \in Runs : StartRun(r) \/ HandlerGoesOn(r) \/ TimeOut(r)
      BY <3>1 DEF StartRun, HandlerGoesOn, InputRecorded, WaitEnds, TimeOut, RunSettles, programVars
    <3>2. CASE WriteSettles \/ HandleExit \/ PtyExits \/ StartShutdown \/ UNCHANGED vars
      BY <3>2 DEF WriteSettles, WriteLands, WriteFails, HandleExit, HandlePtyExit, ResetForExit, HostDies,
                  PtyExits, StartShutdown, programVars, vars
    <3>3. CASE Ingest
      BY <3>3 DEF Ingest, BeginChunk, BeginFlush, TakePiece, PieceLands, PieceFails, programVars
    <3>4. CASE ProgramPrints
      BY <3>4 DEF ProgramPrints
    <3> QED BY <3>1, <3>2, <3>3, <3>4 DEF Next
  <2> QED BY <2>1, <2>2, <2>3, <2>4
<1> QED BY <1>1, <1>2, PTL DEF SafeSpec

\* A text without it is never taken for a postamble.
LEMMA SparedIsUnmistakable ==
  ASSUME NEW k, Spares(k), IInv, TextSpares(k)
  PROVE  Unmistakable
<1>1. text \in Seq(Characters) /\ Len(text) \in Nat
  BY LenProperties DEF IInv, Types
<1> SUFFICES ASSUME NEW i \in 0 .. Len(text), NEW j \in i .. Len(text)
             PROVE  ~PrefixScan(Between(text, i, j), EchoPrefix).complete
  BY DEF Unmistakable
<1>2. /\ Between(text, i, j) \in Seq(Characters) /\ Len(Between(text, i, j)) = j - i
      /\ \A l \in 1 .. j - i : Between(text, i, j)[l] = text[i + l]
  BY <1>1, BetweenIs
<1>3. ASSUME NEW l \in 1 .. Len(Between(text, i, j)) PROVE Between(text, i, j)[l] # EchoPrefix[k]
  <2>1. l \in 1 .. j - i
    BY <1>2
  <2>2. i + l \in 1 .. Len(text)
    BY <1>1, <2>1
  <2> QED BY <1>2, <2>1, <2>2 DEF TextSpares
<1> QED BY <1>2, <1>3, ScanNeedsAll DEF Spares

\* LogHoldsTheOutput and CompletionKeepsItsPlace, in every state of the host of
\* a program that spares one character of what all postambles start with,
\* whether or not the log stops or a write fails (eventLog.ts:430).
THEOREM LogIsTrueToTheProgram ==
  ASSUME WholeControls, NEW k, Spares(k)
  PROVE  SafeSpec => [](LogHoldsTheOutput /\ CompletionKeepsItsPlace)
<1>1. IInv /\ (Unmistakable => OutputInv) /\ TextSpares(k) => LogHoldsTheOutput /\ CompletionKeepsItsPlace
  BY SparedIsUnmistakable, LogIsRight
<1> QED BY <1>1, OutputIsKept, TextIsSpared, PTL
=============================================================================
