----------------------------- MODULE QueuesProofs -----------------------------
(***************************************************************************)
(* The two bounded queues, channels and the log.  They share no state.     *)
(*                                                                         *)
(* Module Channels, for any tasks, values and capacity: types, that the    *)
(* lists stay current, that nobody is stranded, and that a Select notices. *)
(* Module LogWriter, for any lines and limits: no line is lost uncounted,  *)
(* the queue stays small, and a flush tells the truth.                     *)
(***************************************************************************)
EXTENDS Channels, LogWriter, WaitersProofs, FiniteSetTheorems, TLAPS

-----------------------------------------------------------------------------
(* Numbers and sequences.                                                  *)

\* Induction: a set with 0 and with the successor of each of its numbers.
LEMMA EveryNatural ==
    ASSUME NEW S \in SUBSET Nat, 0 \in S, \A n \in S : n + 1 \in S
    PROVE  S = Nat
<1> SUFFICES ASSUME Nat \ S # {} PROVE FALSE
  BY ZenonT(60)
<1>1. PICK n \in Nat \ S : \A m \in Nat \ S : n <= m
  BY ZenonT(60), LeastNatural
<1>2. n # 0 /\ n - 1 \in Nat
  BY <1>1
<1>3. n - 1 \in S
  BY <1>1, <1>2
<1>4. (n - 1) + 1 \in S
  BY ZenonT(60), <1>3
<1> QED BY <1>1, <1>4

\* A non-empty set of naturals with an upper bound has a greatest element.
LEMMA GreatestNatural ==
    ASSUME NEW top \in Nat, NEW S \in SUBSET (0..top), S # {}
    PROVE  \E n \in S : \A m \in S : m <= n
<1> DEFINE R == {k \in 0..top : top - k \in S}
<1>1. R \in SUBSET Nat /\ R # {}
  <2>1. PICK m \in S : TRUE
    BY ZenonT(60)
  <2>2. top - m \in R
    BY <2>1
  <2>3. R \in SUBSET Nat
    OBVIOUS
  <2> QED BY ZenonT(60), <2>2, <2>3
<1>2. PICK k \in R : \A j \in R : k <= j
  <2> HIDE DEF R
  <2> QED BY ZenonT(60), <1>1, LeastNatural
<1>3. ASSUME NEW m \in S PROVE m <= top - k
  <2>1. top - m \in R
    OBVIOUS
  <2> QED BY <1>2, <2>1
<1> QED BY ZenonT(60), <1>2, <1>3

\* What is where in one sequence behind another,
LEMMA ConcatPlaces ==
    ASSUME NEW T, NEW a \in Seq(T), NEW b \in Seq(T)
    PROVE  /\ a \o b \in Seq(T) /\ Len(a \o b) = Len(a) + Len(b)
           /\ \A i \in 1..Len(a) : i \in 1..Len(a \o b) /\ (a \o b)[i] = a[i]
           /\ \A i \in 1..Len(b) : Len(a) + i \in 1..Len(a \o b) /\ (a \o b)[Len(a) + i] = b[i]
  OBVIOUS

\* with one element more,
LEMMA AppendPlaces ==
    ASSUME NEW T, NEW a \in Seq(T), NEW x \in T
    PROVE  /\ Append(a, x) \in Seq(T) /\ Len(Append(a, x)) = Len(a) + 1
           /\ Append(a, x)[Len(a) + 1] = x
           /\ \A i \in 1..Len(a) : i \in 1..Len(Append(a, x)) /\ Append(a, x)[i] = a[i]
  OBVIOUS

\* without the first n,
LEMMA SuffixPlaces ==
    ASSUME NEW T, NEW a \in Seq(T), NEW n \in 0..Len(a)
    PROVE  /\ SubSeq(a, n + 1, Len(a)) \in Seq(T) /\ Len(SubSeq(a, n + 1, Len(a))) = Len(a) - n
           /\ \A i \in 1..(Len(a) - n) : n + i \in 1..Len(a) /\ SubSeq(a, n + 1, Len(a))[i] = a[n + i]
  OBVIOUS

\* Sequences with the same elements at the same places are the same,
LEMMA SameSequence ==
    ASSUME NEW T, NEW a \in Seq(T), NEW b \in Seq(T), Len(a) = Len(b), \A i \in 1..Len(a) : a[i] = b[i]
    PROVE  a = b
  OBVIOUS

\* so that the first n elements and the others are the sequence again,
LEMMA PrefixAndSuffix ==
    ASSUME NEW T, NEW a \in Seq(T), NEW n \in 0..Len(a)
    PROVE  SubSeq(a, 1, n) \o SubSeq(a, n + 1, Len(a)) = a
<1> DEFINE p == SubSeq(a, 1, n)
           q == SubSeq(a, n + 1, Len(a))
<1>1. /\ p \in Seq(T) /\ Len(p) = n /\ \A i \in 1..n : p[i] = a[i]
      /\ q \in Seq(T) /\ Len(q) = Len(a) - n /\ \A i \in 1..(Len(a) - n) : q[i] = a[n + i]
  BY SMTT(40)
<1>2. p \in Seq(T) /\ q \in Seq(T)
  BY ZenonT(60), <1>1
<1> HIDE DEF p, q
<1>3. /\ p \o q \in Seq(T) /\ Len(p \o q) = Len(a)
      /\ \A i \in 1..n : (p \o q)[i] = a[i]
      /\ \A i \in 1..(Len(a) - n) : (p \o q)[n + i] = a[n + i]
  <2>1. /\ p \o q \in Seq(T) /\ Len(p \o q) = Len(p) + Len(q)
        /\ \A i \in 1..Len(p) : (p \o q)[i] = p[i]
        /\ \A i \in 1..Len(q) : (p \o q)[Len(p) + i] = q[i]
    BY <1>2, ConcatPlaces
  <2>2. Len(a) \in Nat /\ n \in Nat /\ Len(p) = n /\ Len(q) = Len(a) - n
    BY <1>1
  <2> QED BY SMTT(40), <1>1, <2>1, <2>2
<1>4. ASSUME NEW i \in 1..Len(a) PROVE (p \o q)[i] = a[i]
  <2>1. i \in 1..n \/ (i - n \in 1..(Len(a) - n) /\ n + (i - n) = i)
    OBVIOUS
  <2> QED BY ZenonT(60), <1>3, <2>1
<1> QED BY ZenonT(60), <1>2, <1>3, <1>4, SameSequence DEF p, q

\* and how three are put together does not matter,
LEMMA ConcatThree ==
    ASSUME NEW T, NEW a \in Seq(T), NEW b \in Seq(T), NEW c \in Seq(T)
    PROVE  (a \o b) \o c = a \o (b \o c)
  BY SMTT(40)

\* nor does an empty one.
LEMMA ConcatNothing ==
    ASSUME NEW T, NEW a \in Seq(T)
    PROVE  a \o <<>> = a
  OBVIOUS

-----------------------------------------------------------------------------
(* The log: the bytes of its lines.                                        *)

\* f adds up the sizes of the first n lines of s,
AddsUpTo(f, s, n) ==
    /\ f \in [0..n -> Int] /\ f[0] = 0
    /\ \A k \in 1..n : f[k] = f[k - 1] + s[k].size

\* and of all of them.
AddsUp(f, s) == AddsUpTo(f, s, Len(s))

\* A line has a size and a number.
LEMMA LineSize ==
    ASSUME NEW s \in Seq(LogLine), NEW k \in 1..Len(s)
    PROVE  s[k].size \in Nat /\ s[k].id \in Nat
<1>1. s[k] \in LogLine
  OBVIOUS
<1> QED BY ZenonT(60), <1>1 DEF LogLine

\* Some function adds the sizes up, by induction on how many of them,
LEMMA SumsExist ==
    ASSUME NEW s \in Seq(LogLine)
    PROVE  \E f : AddsUp(f, s)
<1> DEFINE S == {n \in Nat : n <= Len(s) => \E f : AddsUpTo(f, s, n)}
<1>1. 0 \in S
  <2>1. AddsUpTo([k \in 0..0 |-> 0], s, 0)
    BY DEF AddsUpTo
  <2> QED BY ZenonT(60), <2>1
<1>2. ASSUME NEW n \in S PROVE n + 1 \in S
  <2>1. ASSUME n + 1 <= Len(s) PROVE \E f : AddsUpTo(f, s, n + 1)
    <3>1. PICK f : AddsUpTo(f, s, n)
      BY <2>1
    <3> DEFINE g == [k \in 0..(n + 1) |-> IF k = n + 1 THEN f[n] + s[n + 1].size ELSE f[k]]
    <3>2. s[n + 1].size \in Nat
      BY SMTT(40), <2>1, LineSize
    <3>3. AddsUpTo(g, s, n + 1)
      BY SMTT(40), <3>1, <3>2 DEF AddsUpTo
    <3> QED BY ZenonT(60), <3>3
  <2> QED BY <2>1
<1>3. S = Nat
  <2> HIDE DEF S
  <2>1. S \in SUBSET Nat
    BY ZenonT(60) DEF S
  <2> QED BY ZenonT(60), <1>1, <1>2, <2>1, EveryNatural
<1>4. Len(s) \in S
  <2> HIDE DEF S
  <2>1. Len(s) \in Nat
    OBVIOUS
  <2> QED BY ZenonT(60), <1>3, <2>1
<1> QED BY <1>4 DEF AddsUp

\* so that Sums, a recursive function, is one.
LEMMA SumsAddUp ==
    ASSUME NEW s \in Seq(LogLine)
    PROVE  AddsUp(Sums(s), s) /\ BytesOf(s) \in Nat
<1> DEFINE stage(f) == [n \in 0..Len(s) |-> IF n = 0 THEN 0 ELSE f[n - 1] + s[n].size]
<1>1. PICK f : AddsUp(f, s)
  BY ZenonT(60), SumsExist
<1>2. f = stage(f)
  BY <1>1, LineSize DEF AddsUp, AddsUpTo
<1>3. Sums(s) = CHOOSE g : g = stage(g)
  BY ZenonT(60) DEF Sums
<1>4. Sums(s) = stage(Sums(s))
  <2> HIDE DEF stage
  <2> QED BY ZenonT(60), <1>2, <1>3
<1>5. /\ DOMAIN Sums(s) = 0..Len(s) /\ Sums(s)[0] = 0
      /\ \A n \in 1..Len(s) : Sums(s)[n] = Sums(s)[n - 1] + s[n].size
  BY <1>4
<1> DEFINE S == {n \in Nat : n <= Len(s) => Sums(s)[n] \in Nat}
<1>6. 0 \in S
  BY <1>5
<1>7. ASSUME NEW n \in S PROVE n + 1 \in S
  <2>1. CASE n + 1 <= Len(s)
    <3>1. s[n + 1].size \in Nat /\ Sums(s)[n] \in Nat
      BY SMTT(40), <2>1, LineSize
    <3>2. Sums(s)[n + 1] = Sums(s)[n] + s[n + 1].size
      BY SMTT(40), <1>5, <2>1
    <3> QED BY <3>1, <3>2
  <2> QED BY <2>1
<1>8. S = Nat
  <2> HIDE DEF S
  <2>1. S \in SUBSET Nat
    BY ZenonT(60) DEF S
  <2> QED BY ZenonT(60), <1>6, <1>7, <2>1, EveryNatural
<1>9. \A n \in 0..Len(s) : Sums(s)[n] \in Nat
  BY <1>8
<1>10. Sums(s) = [n \in 0..Len(s) |-> Sums(s)[n]]
  BY ZenonT(60), <1>4
<1>11. Sums(s) \in [0..Len(s) -> Int]
  BY <1>9, <1>10
<1> QED BY <1>5, <1>9, <1>11 DEF AddsUp, AddsUpTo, BytesOf

\* Only one function adds up.
LEMMA SumsAreUnique ==
    ASSUME NEW s \in Seq(LogLine), NEW f, NEW g, AddsUp(f, s), AddsUp(g, s)
    PROVE  f = g
<1> DEFINE S == {n \in Nat : n <= Len(s) => f[n] = g[n]}
<1>1. 0 \in S
  BY ZenonT(60) DEF AddsUp, AddsUpTo
<1>2. ASSUME NEW n \in S PROVE n + 1 \in S
  BY DEF AddsUp, AddsUpTo
<1>3. S = Nat
  <2> HIDE DEF S
  <2>1. S \in SUBSET Nat
    BY ZenonT(60) DEF S
  <2> QED BY ZenonT(60), <1>1, <1>2, <2>1, EveryNatural
<1>4. \A n \in 0..Len(s) : f[n] = g[n]
  BY <1>3
<1> QED BY SMTT(40), <1>4 DEF AddsUp, AddsUpTo

\* The bytes of the two halves of a sequence are those of the whole.
LEMMA BytesOfHalves ==
    ASSUME NEW s \in Seq(LogLine), NEW n \in 0..Len(s)
    PROVE  BytesOf(SubSeq(s, 1, n)) + BytesOf(SubSeq(s, n + 1, Len(s))) = BytesOf(s)
<1> DEFINE a == SubSeq(s, 1, n)
           b == SubSeq(s, n + 1, Len(s))
           f == [k \in 0..n |-> Sums(s)[k]]
           g == [k \in 0..(Len(s) - n) |-> Sums(s)[n + k] - Sums(s)[n]]
<1>1. /\ a \in Seq(LogLine) /\ Len(a) = n /\ \A k \in 1..n : a[k] = s[k]
      /\ b \in Seq(LogLine) /\ Len(b) = Len(s) - n /\ \A k \in 1..(Len(s) - n) : b[k] = s[n + k]
  BY SMTT(40)
<1>2. /\ \A k \in 0..Len(s) : Sums(s)[k] \in Int
      /\ Sums(s)[0] = 0
      /\ \A k \in 1..Len(s) : Sums(s)[k] = Sums(s)[k - 1] + s[k].size
  BY ZenonT(60), SumsAddUp DEF AddsUp, AddsUpTo
<1> HIDE DEF a, b
<1>3. AddsUp(f, a)
  <2>1. f \in [0..Len(a) -> Int] /\ f[0] = 0
    BY SMTT(40), <1>1, <1>2
  <2>2. \A k \in 1..Len(a) : f[k] = f[k - 1] + a[k].size
    BY <1>1, <1>2
  <2> QED BY ZenonT(60), <2>1, <2>2 DEF AddsUp, AddsUpTo
<1>4. AddsUp(g, b)
  <2>1. ASSUME NEW k \in 1..Len(b) PROVE g[k] = g[k - 1] + b[k].size
    <3>1. n + k \in 1..Len(s) /\ (n + k) - 1 = n + (k - 1) /\ b[k] = s[n + k]
      BY SMTT(40), <1>1
    <3>2. Sums(s)[n + k] = Sums(s)[n + (k - 1)] + s[n + k].size
      BY ZenonT(60), <1>2, <3>1
    <3>3. s[n + k].size \in Int
      BY SMTT(40), <3>1, LineSize
    <3>5. n + k \in 0..Len(s) /\ n + (k - 1) \in 0..Len(s)
      BY <1>1
    <3>6. Sums(s)[n + k] \in Int /\ Sums(s)[n + (k - 1)] \in Int /\ Sums(s)[n] \in Int
      BY ZenonT(60), <1>2, <3>5
    <3>4. g[k] = Sums(s)[n + k] - Sums(s)[n] /\ g[k - 1] = Sums(s)[n + (k - 1)] - Sums(s)[n]
      BY <1>1
    <3> HIDE DEF g
    <3> QED BY SMTT(40), <3>1, <3>2, <3>3, <3>4, <3>6
  <2>2. g \in [0..Len(b) -> Int] /\ g[0] = 0
    BY SMTT(40), <1>1, <1>2
  <2> HIDE DEF g
  <2> QED BY ZenonT(60), <2>1, <2>2 DEF AddsUp, AddsUpTo
<1>5. Sums(a) = f /\ Sums(b) = g
  <2> HIDE DEF f, g
  <2> QED BY ZenonT(60), <1>1, <1>3, <1>4, SumsAddUp, SumsAreUnique
<1>6. BytesOf(a) = Sums(s)[n] /\ BytesOf(b) = Sums(s)[Len(s)] - Sums(s)[n]
  BY SMTT(40), <1>1, <1>5 DEF BytesOf
<1>7. Sums(s)[n] \in Int /\ Sums(s)[Len(s)] \in Int
  BY <1>2
<1> QED BY SMTT(40), <1>6, <1>7 DEF BytesOf, a, b

-----------------------------------------------------------------------------
(* The log: what push keeps and what the writer takes.                     *)

\* What push keeps is a suffix that fits.
LEMMA KeptFacts ==
    ASSUME NEW s \in Seq(LogLine), inFlight \in Nat
    PROVE  \E n \in 0..Len(s) : KeptOf(s) = SubSeq(s, n + 1, Len(s)) /\ Fits(KeptOf(s))
<1> DEFINE drops == {n \in 0..Len(s) : Fits(SubSeq(s, n + 1, Len(s)))}
           n == CHOOSE n \in drops : \A m \in drops : n <= m
<1>1. Len(s) \in drops
  <2>1. Len(SubSeq(s, Len(s) + 1, Len(s))) <= 1
    OBVIOUS
  <2> QED BY <2>1 DEF Fits
<1>2. drops \in SUBSET Nat
  OBVIOUS
<1>3. n \in drops
  <2> HIDE DEF drops
  <2> QED BY ZenonT(60), <1>1, <1>2, LeastNatural
<1> QED BY ZenonT(60), <1>3 DEF KeptOf

\* What the writer takes is a prefix, of at most BatchMax bytes or one line.
LEMMA BatchFacts ==
    ASSUME NEW s \in Seq(LogLine)
    PROVE  \E n \in 0..Len(s) :
               BatchOf(s) = SubSeq(s, 1, n) /\ (n <= 1 \/ BytesOf(SubSeq(s, 1, n)) <= BatchMax)
<1> DEFINE fits == {n \in 0..Len(s) : n <= 1 \/ BytesOf(SubSeq(s, 1, n)) <= BatchMax}
           n == CHOOSE n \in fits : \A m \in fits : m <= n
<1>1. 0 \in fits
  OBVIOUS
<1>2. fits \in SUBSET (0..Len(s)) /\ Len(s) \in Nat
  OBVIOUS
<1>3. n \in fits
  <2> HIDE DEF fits
  <2> QED BY ZenonT(60), <1>1, <1>2, GreatestNatural
<1> QED BY ZenonT(60), <1>3 DEF BatchOf

\* A newer line at the end of lines in order.
LEMMA AppendInOrder ==
    ASSUME NEW e \in Seq(LogLine), NEW l \in LogLine, InOrder(e), \A i \in 1..Len(e) : e[i].id < l.id,
           NEW d, d = Append(e, l)
    PROVE  d \in Seq(LogLine) /\ InOrder(d) /\ \A i \in 1..Len(d) : d[i].id <= l.id
<1>1. /\ d \in Seq(LogLine) /\ Len(d) = Len(e) + 1 /\ d[Len(e) + 1] = l
      /\ \A i \in 1..Len(e) : d[i] = e[i]
  OBVIOUS
<1>2. l.id \in Nat /\ \A i \in 1..Len(e) : e[i].id \in Nat
  BY ZenonT(60), LineSize DEF LogLine
<1>3. ASSUME NEW i \in 1..Len(d), NEW j \in 1..Len(d), i < j PROVE d[i].id < d[j].id
  <2>1. i \in 1..Len(e)
    BY <1>1, <1>3
  <2>2. CASE j \in 1..Len(e)
    BY ZenonT(60), <1>1, <1>3, <2>1, <2>2 DEF InOrder
  <2>3. CASE j = Len(e) + 1
    BY ZenonT(60), <1>1, <2>1, <2>3
  <2> QED BY SMTT(40), <1>1, <2>2, <2>3
<1>4. ASSUME NEW i \in 1..Len(d) PROVE d[i].id <= l.id
  <2>1. CASE i \in 1..Len(e)
    BY SMTT(40), <1>1, <1>2, <2>1
  <2>2. CASE i = Len(e) + 1
    BY <1>1, <1>2, <2>2
  <2> QED BY SMTT(40), <1>1, <2>1, <2>2
<1> QED BY ZenonT(60), <1>1, <1>3, <1>4 DEF InOrder

\* Lines that leave the middle leave the others in order.
LEMMA RestInOrder ==
    ASSUME NEW d \in Seq(LogLine), InOrder(d), NEW c \in Seq(LogLine), NEW m \in Nat, NEW n \in Nat,
           \A i \in 1..Len(c) : i <= m => i \in 1..Len(d) /\ c[i] = d[i],
           \A i \in 1..Len(c) : i > m => i + n \in 1..Len(d) /\ c[i] = d[i + n]
    PROVE  InOrder(c)
<1> SUFFICES ASSUME NEW i \in 1..Len(c), NEW j \in 1..Len(c), i < j PROVE c[i].id < c[j].id
  BY ZenonT(60) DEF InOrder
<1> DEFINE at(k) == IF k <= m THEN k ELSE k + n
<1>1. at(i) \in 1..Len(d) /\ at(j) \in 1..Len(d) /\ c[i] = d[at(i)] /\ c[j] = d[at(j)]
  OBVIOUS
<1>2. at(i) < at(j)
  OBVIOUS
<1> HIDE DEF at
<1> QED BY ZenonT(60), <1>1, <1>2 DEF InOrder

\* Lines that leave the front of a queue, and a new one at its end, leave what
\* is in order in order.
LEMMA KeptInOrder ==
    ASSUME NEW a \in Seq(LogLine), NEW b \in Seq(LogLine), NEW l \in LogLine, NEW n \in 0..(Len(b) + 1),
           InOrder(a \o b), \A i \in 1..Len(a \o b) : (a \o b)[i].id < l.id
    PROVE  LET c == a \o SubSeq(Append(b, l), n + 1, Len(b) + 1)
           IN  /\ Len(c) = Len(a) + Len(b) + 1 - n
               /\ InOrder(c) /\ \A i \in 1..Len(c) : c[i].id <= l.id
<1> DEFINE e == a \o b
           d == Append(e, l)
           q == Append(b, l)
           r == SubSeq(q, n + 1, Len(b) + 1)
           c == a \o r
<1>1. /\ q \in Seq(LogLine) /\ Len(q) = Len(b) + 1 /\ q[Len(b) + 1] = l
      /\ \A i \in 1..Len(b) : q[i] = b[i]
  BY SMTT(40), AppendPlaces
<1>2. /\ r \in Seq(LogLine) /\ Len(r) = (Len(b) + 1) - n
      /\ \A i \in 1..((Len(b) + 1) - n) : n + i \in 1..(Len(b) + 1) /\ r[i] = q[n + i]
  <2> HIDE DEF q
  <2>1. Len(q) = Len(b) + 1 /\ n \in 0..Len(q) /\ q \in Seq(LogLine)
    BY ZenonT(60), <1>1
  <2> QED BY <2>1, SuffixPlaces
<1> HIDE DEF r
<1>3. /\ c \in Seq(LogLine) /\ Len(c) = Len(a) + Len(r)
      /\ \A i \in 1..Len(a) : c[i] = a[i]
      /\ \A i \in 1..Len(r) : c[Len(a) + i] = r[i]
  <2>1. r \in Seq(LogLine)
    BY ZenonT(60), <1>2
  <2> QED BY SMTT(40), <2>1, ConcatPlaces
<1>4. /\ e \in Seq(LogLine) /\ Len(e) = Len(a) + Len(b)
      /\ \A i \in 1..Len(a) : e[i] = a[i]
      /\ \A i \in 1..Len(b) : e[Len(a) + i] = b[i]
  BY ConcatPlaces
<1>5. InOrder(e) /\ \A i \in 1..Len(e) : e[i].id < l.id
  OBVIOUS
<1> HIDE DEF e
<1>6. d \in Seq(LogLine) /\ InOrder(d) /\ \A i \in 1..Len(d) : d[i].id <= l.id
  BY ZenonT(60), <1>4, <1>5, AppendInOrder
<1>7. Len(d) = Len(e) + 1 /\ d[Len(e) + 1] = l /\ \A i \in 1..Len(e) : d[i] = e[i]
  BY SMTT(40), <1>4, AppendPlaces
<1> HIDE DEF q, c, d
<1>8. ASSUME NEW i \in 1..Len(c), i <= Len(a) PROVE i \in 1..Len(d) /\ c[i] = d[i]
  BY SMTT(40), <1>3, <1>4, <1>7, <1>8
<1>9. ASSUME NEW i \in 1..Len(c), i > Len(a) PROVE i + n \in 1..Len(d) /\ c[i] = d[i + n]
  <2> DEFINE k == i - Len(a)
  <2>1. /\ k \in 1..Len(r) /\ Len(a) + k = i /\ n + k \in 1..(Len(b) + 1)
        /\ i + n \in 1..Len(d) /\ i + n = Len(a) + (n + k)
    BY SMTT(40), <1>2, <1>3, <1>4, <1>7, <1>9
  <2> HIDE DEF k
  <2>2. c[i] = q[n + k]
    BY ZenonT(60), <1>2, <1>3, <2>1
  <2>3. CASE n + k = Len(b) + 1
    <3>1. i + n = Len(e) + 1
      <4>1. Len(a) \in Nat /\ Len(b) \in Nat
        OBVIOUS
      <4>2. Len(e) = Len(a) + Len(b) /\ i + n = Len(a) + (Len(b) + 1)
        BY ZenonT(60), <1>4, <2>1, <2>3
      <4> QED BY SMTT(40), <4>1, <4>2
    <3> QED BY ZenonT(60), <1>1, <1>7, <2>1, <2>2, <2>3, <3>1
  <2>4. CASE n + k \in 1..Len(b)
    <3>1. i + n \in 1..Len(e)
      BY SMTT(40), <1>4, <2>1, <2>4
    <3> QED BY ZenonT(60), <1>1, <1>4, <1>7, <2>1, <2>2, <2>4, <3>1
  <2> QED BY SMTT(40), <2>1, <2>3, <2>4
<1>10. InOrder(c)
  <2>1. Len(a) \in Nat /\ n \in Nat /\ c \in Seq(LogLine) /\ d \in Seq(LogLine) /\ InOrder(d)
    BY <1>3, <1>6
  <2> QED BY ZenonT(60), <1>8, <1>9, <2>1, RestInOrder
<1>11. ASSUME NEW i \in 1..Len(c) PROVE c[i].id <= l.id
  <2>1. i <= Len(a) \/ i > Len(a)
    BY SMTT(40), <1>3
  <2> QED BY ZenonT(60), <1>6, <1>8, <1>9, <2>1
<1>12. Len(c) = Len(a) + Len(b) + 1 - n
  BY SMTT(40), <1>2, <1>3
<1> QED BY ZenonT(60), <1>10, <1>11, <1>12 DEF c, r, q

\* Every line pushed is written, in the batch, queued, or counted as dropped;
\* only a writer that writes has a batch, and one that waits has nothing to
\* write or a notification coming.
LogInv ==
    /\ LogTypeOK
    /\ InOrder(Logged) /\ \A i \in 1..Len(Logged) : Logged[i].id <= pushed
    /\ Len(Logged) + dropped + report + reported = pushed
    /\ writerAt # "writes" => batch = <<>> /\ report = 0
    /\ writerAt = "writes" => logWriting
    /\ writerAt = "waits" => notifies > 0 \/ (logSleeping /\ NothingToWrite)
    /\ flushFrom <= pushed
    /\ LogStaysSmall /\ FlushedIsWritten

\* LogInv holds at the start.
LEMMA LogStart == LogInit => LogInv
<1>1. BytesOf(<<>>) = 0
  <2>1. <<>> \in Seq(LogLine)
    OBVIOUS
  <2>2. AddsUp(Sums(<<>>), <<>>)
    BY ZenonT(60), <2>1, SumsAddUp
  <2> QED BY ZenonT(60), <2>2 DEF AddsUp, AddsUpTo, BytesOf
<1> QED BY <1>1, LogAssumption
        DEF LogInit, LogInv, LogTypeOK, LogStaysSmall, FlushedIsWritten, NothingToWrite, InOrder, Logged

\* Every stage keeps LogInv: one stage per action.
LEMMA LogStep == LogInv /\ [LogNext]_logVars => LogInv'
<1> SUFFICES ASSUME LogInv, [LogNext]_logVars PROVE LogInv'
  BY SMTT(40)
<1> USE LogAssumption
<1> USE DEF LogInv, LogTypeOK, LogStaysSmall, FlushedIsWritten, NothingToWrite
<1>1. CASE UNCHANGED logVars
  BY SMTT(40), <1>1 DEF logVars, Logged
<1>2. ASSUME NEW size \in Sizes, Push(size) PROVE LogInv'
  <2> DEFINE new == [id |-> pushed', size |-> size]
             all == Append(logLines, new)
             front == written \o batch
  <2>1. /\ new \in LogLine /\ pushed' = pushed + 1 /\ new.id = pushed'
        /\ logLines' = KeptOf(all) /\ dropped' = dropped + Len(all) - Len(KeptOf(all))
        /\ queuedBytes' = BytesOf(logLines')
    <3>1. pushed' = pushed + 1 /\ size \in Nat /\ pushed' \in Nat
      BY SMTT(40), <1>2 DEF Push
    <3> QED BY ZenonT(60), <1>2, <3>1 DEF Push, LogLine
  <2> HIDE DEF new
  <2>2. all \in Seq(LogLine) /\ Len(all) = Len(logLines) + 1 /\ front \in Seq(LogLine) /\ logLines \in Seq(LogLine)
    BY <2>1
  <2>3. PICK n \in 0..Len(all) : logLines' = SubSeq(all, n + 1, Len(all)) /\ Fits(logLines')
    <3> HIDE DEF all
    <3> QED BY ZenonT(60), <2>1, <2>2, KeptFacts
  <2>4. logLines' \in Seq(LogLine) /\ Len(logLines') = Len(all) - n
    <3> HIDE DEF all
    <3> QED BY SMTT(40), <2>2, <2>3
  <2>5. queuedBytes' \in Nat /\ dropped' = dropped + n
    BY SMTT(40), <2>1, <2>2, <2>4, SumsAddUp
  <2>6. Logged = front \o logLines /\ Logged' = front \o logLines'
    BY ZenonT(60), <1>2 DEF Push, Logged
  <2>7. /\ InOrder(Logged') /\ \A i \in 1..Len(Logged') : Logged'[i].id <= pushed'
        /\ Len(Logged') = Len(front) + Len(logLines) + 1 - n
    <3>1. ASSUME NEW i \in 1..Len(Logged) PROVE Logged[i].id < new.id
      <4>1. Logged \in Seq(LogLine)
        BY DEF Logged
      <4>2. Logged[i].id \in Nat /\ Logged[i].id <= pushed
        BY ZenonT(60), <4>1, LineSize
      <4>3. new.id = pushed + 1 /\ pushed \in Nat
        BY ZenonT(60), <2>1
      <4> HIDE DEF LogInv
      <4> QED BY SMTT(40), <4>2, <4>3
    <3>2. /\ Len(logLines) + 1 = Len(all) /\ n \in 0..(Len(logLines) + 1)
          /\ Logged' = front \o SubSeq(Append(logLines, new), n + 1, Len(logLines) + 1)
      BY ZenonT(60), <2>2, <2>3, <2>6
    <3>3. InOrder(front \o logLines) /\ \A i \in 1..Len(front \o logLines) : (front \o logLines)[i].id < new.id
      BY ZenonT(60), <2>6, <3>1
    <3> HIDE DEF front, all, LogInv
    <3>4. /\ Len(Logged') = Len(front) + Len(logLines) + 1 - n
          /\ InOrder(Logged') /\ \A i \in 1..Len(Logged') : Logged'[i].id <= new.id
      BY ZenonT(60), <2>1, <2>2, <3>2, <3>3, KeptInOrder
    <3> QED BY ZenonT(60), <2>1, <3>4
  <2>8. LogStaysSmall'
    BY ZenonT(60), <1>2, <2>1, <2>3, <2>5 DEF Push, Fits
  <2>9. (writerAt = "waits" => notifies > 0 \/ (logSleeping /\ NothingToWrite))'
    BY SMTT(40), <1>2 DEF Push
  <2>10. Len(Logged) = Len(front) + Len(logLines) /\ Len(front) \in Nat /\ Len(logLines) \in Nat
    <3> HIDE DEF front
    <3> QED BY SMTT(40), <2>2, <2>6
  <2> HIDE DEF front, all
  <2>11. /\ UNCHANGED <<inFlight, logWriting, batch, report, written, reported, flushAt, flushFrom>>
         /\ writerAt' = writerAt \/ (writerAt = "none" /\ writerAt' \in {"takes", "failed"})
         /\ notifies' \in Nat
    <3>1. UNCHANGED <<inFlight, logWriting, batch, report, written, reported, flushAt, flushFrom>>
      BY ZenonT(60), <1>2 DEF Push
    <3>2. writerAt' = writerAt \/ (writerAt = "none" /\ writerAt' \in {"takes", "failed"})
      BY ZenonT(60), <1>2 DEF Push
    <3>3. notifies' \in Nat
      BY SMTT(40), <1>2 DEF Push
    <3> QED BY ZenonT(60), <3>1, <3>2, <3>3
  <2>12. LogTypeOK'
    BY SMTT(40), <2>1, <2>4, <2>5, <2>11
  <2>13. (Len(Logged) + dropped + report + reported = pushed)'
    <3>1. /\ dropped \in Nat /\ report \in Nat /\ reported \in Nat /\ pushed \in Nat /\ n \in Nat
          /\ Len(front) + Len(logLines) + dropped + report + reported = pushed
      BY <2>10
    <3>2. /\ Len(Logged') = Len(front) + Len(logLines) + 1 - n /\ Len(front) \in Nat /\ Len(logLines) \in Nat
          /\ dropped' = dropped + n /\ report' = report /\ reported' = reported /\ pushed' = pushed + 1
      BY ZenonT(60), <2>1, <2>5, <2>7, <2>10, <2>11
    <3> HIDE DEF LogInv
    <3> QED BY <3>1, <3>2
  <2>14. (flushFrom <= pushed)' /\ FlushedIsWritten'
    BY <2>1, <2>11
  <2>15. (writerAt # "writes" => batch = <<>> /\ report = 0)' /\ (writerAt = "writes" => logWriting)'
    BY ZenonT(60), <2>11
  <2> QED BY ZenonT(60), <2>7, <2>8, <2>9, <2>12, <2>13, <2>14, <2>15
<1>3. CASE NotifyReady
  BY <1>3 DEF NotifyReady, Logged
<1>4. CASE WakesAlone
  BY ZenonT(60), <1>4 DEF WakesAlone, Logged
<1>5. CASE WaitReady
  BY SMTT(40), <1>5 DEF WaitReady, Logged
<1>6. CASE TakeBatch
  <2>1. PICK n \in 0..Len(logLines) :
          batch' = SubSeq(logLines, 1, n) /\ (n <= 1 \/ BytesOf(batch') <= BatchMax)
    BY ZenonT(60), <1>6, BatchFacts DEF TakeBatch
  <2>2. batch' \in Seq(LogLine) /\ Len(batch') = n
    BY SMTT(40), <2>1
  <2>3. /\ logLines' = SubSeq(logLines, n + 1, Len(logLines))
        /\ logLines' \in Seq(LogLine) /\ Len(logLines') = Len(logLines) - n
    BY SMTT(40), <1>6, <2>2 DEF TakeBatch
  <2>4. /\ BytesOf(batch') \in Nat /\ BytesOf(logLines') \in Nat
        /\ BytesOf(batch') + BytesOf(logLines') = queuedBytes
    BY ZenonT(60), <2>1, <2>2, <2>3, SumsAddUp, BytesOfHalves
  <2>5. queuedBytes' = BytesOf(logLines') /\ inFlight' = BytesOf(batch') /\ batch = <<>> /\ report = 0
    BY <1>6, <2>4 DEF TakeBatch
  <2>6. LogStaysSmall'
    <3>1. queuedBytes' + inFlight' = queuedBytes /\ inFlight \in Nat /\ queuedBytes \in Nat
      BY SMTT(40), <2>4, <2>5
    <3>2. (queuedBytes + inFlight <= Cap \/ Len(logLines) <= 1)'
      BY SMTT(40), <2>2, <2>3, <3>1
    <3> QED BY ZenonT(60), <2>1, <2>2, <2>5, <3>2
  <2>7. Logged' = Logged
    <3>1. batch' \o logLines' = logLines
      BY ZenonT(60), <2>1, <2>3, PrefixAndSuffix
    <3>2. (written \o batch') \o logLines' = written \o (batch' \o logLines')
      <4>1. written \in Seq(LogLine) /\ batch' \in Seq(LogLine) /\ logLines' \in Seq(LogLine)
        BY ZenonT(60), <2>2, <2>3
      <4> HIDE DEF LogInv
      <4> QED BY SMTT(40), <4>1, ConcatThree
    <3>3. written \o batch = written
      BY ZenonT(60), <2>5, ConcatNothing
    <3> QED BY ZenonT(60), <1>6, <3>1, <3>2, <3>3 DEF TakeBatch, Logged
  <2> QED BY SMTT(40), <1>6, <2>2, <2>3, <2>4, <2>5, <2>6, <2>7 DEF TakeBatch
<1>7. CASE WriteBatch
  <2>1. written' = written \o batch /\ written' \in Seq(LogLine) /\ Len(written') = Len(written) + Len(batch)
    BY <1>7 DEF WriteBatch
  <2>2. Logged' = Logged
    BY ZenonT(60), <1>7, <2>1, ConcatNothing DEF WriteBatch, Logged
  <2> QED BY SMTT(40), <1>7, <2>1, <2>2 DEF WriteBatch
<1>8. CASE FlushStarts
  BY SMTT(40), <1>8 DEF FlushStarts, Logged
<1>9. CASE FlushLooks
  <2>1. Logged' = Logged
    BY ZenonT(60), <1>9 DEF FlushLooks, Logged
  <2>2. flushAt' = "flushed" => Len(written) + reported = pushed
    <3>1. CASE NothingToWrite /\ ~logWriting
      <4>1. Logged = written
        BY ZenonT(60), <3>1, ConcatNothing DEF Logged
      <4> QED BY SMTT(40), <3>1, <4>1
    <3> QED BY ZenonT(60), <1>9, <3>1 DEF FlushLooks
  <2> QED BY ZenonT(60), <1>9, <2>1, <2>2 DEF FlushLooks
<1> QED BY ZenonT(60), <1>1, <1>2, <1>3, <1>4, <1>5, <1>6, <1>7, <1>8, <1>9 DEF LogNext

\* LogInv is an invariant.
LEMMA LogInvariant == LogSpec => []LogInv
  BY LogStart, LogStep, PTL DEF LogSpec

\* No line of the log is lost without being counted, none is written twice or
\* out of order, and the writer never sleeps on one.
THEOREM LogIsKept == LogSpec => []LinesAccountedFor
<1>1. LogInv => LinesAccountedFor
  BY ZenonT(60) DEF LogInv, LinesAccountedFor
<1> QED BY LogInvariant, <1>1, PTL

\* The queue and the batch stay within the cap, but for the newest line, and
\* the batch within batch_max, but for a single line.
THEOREM LogIsBounded == LogSpec => []LogStaysSmall
<1>1. LogInv => LogStaysSmall
  BY ZenonT(60) DEF LogInv
<1> QED BY LogInvariant, <1>1, PTL

\* A flush that returned in time saw everything that was pushed before it
\* written or reported as dropped.
THEOREM FlushIsTrue == LogSpec => []FlushedIsWritten
<1>1. LogInv => FlushedIsWritten
  BY ZenonT(60) DEF LogInv
<1> QED BY LogInvariant, <1>1, PTL

\* Every wait that nothing has ended yet is on the list that will end it.
LiveIsListed ==
    \A t \in Tasks : live[t] =>
        \/ op[t] = "receive" /\ Has(receivers, t)
        \/ op[t] = "send" /\ Has(senders, t)
        \/ op[t] = "watch"
        \/ op[t] = "select" /\ arm[t] = "receive" /\ Has(receiveWatchers, t)
        \/ op[t] = "select" /\ arm[t] = "send" /\ Has(sendWatchers, t)

\* A call that sends has a value.
SendsValue == \A t \in Tasks : UsesSender(t) => value[t] \in Values

TypeInv == TypeOK /\ SendsValue
ListsInv == TypeInv /\ EntriesAreCurrent /\ LiveIsListed

\* Where a task is when it looks at the queue to receive, or to send.
LooksToReceive(t) ==
    /\ op[t] \in {"none", "receive", "poll"}
    /\ op[t] = "receive" => ~live[t]
    /\ op[t] = "none" => ~receiverGone
LooksToSend(t) ==
    /\ op[t] \in {"none", "send", "poll"}
    /\ op[t] = "send" => ~live[t]

\* The effects a step of a task may have, each with what is known of the task.
Passes(t) ==
    \/ LooksToReceive(t) /\ TakeValue(t)
    \/ LooksToReceive(t) /\ (queue = <<>> \/ woke[t] = "Cancelled") /\ ReceiveFails(t)
    \/ op[t] # "poll" /\ LooksToReceive(t) /\ \E l \in Limits : WaitForValue(t, l)
    \/ LooksToSend(t) /\ \E v \in Values : PutValue(t, v)
    \/ LooksToSend(t) /\ (~Open \/ Full \/ woke[t] = "Cancelled") /\ SendFails(t)
    \/ op[t] # "poll" /\ LooksToSend(t) /\ \E v \in Values : WaitForRoom(t, v)
    \/ \E a \in Arms, v \in Values \cup {NoValue}, l \in Limits : StartSelect(t, a, v, l)
    \/ SelectReturns(t) \/ PollGetsNothing(t)
    \/ Watch(t) \/ OtherSourceReady(t) \/ Unwatch(t) \/ OtherArmWakes(t)
    \/ Cancel(t) \/ DeadlinePasses(t) \/ FireTimer(t)

\* Every step is one of these effects, or concerns an end of the channel.
LEMMA StepEffects ==
    ASSUME TypeInv, Next
    PROVE  \/ \E t \in Tasks : Passes(t)
           \/ Close \/ ReleaseSender \/ ReleaseReceiver
<1>1. ASSUME NEW t \in Tasks, Starts(t) PROVE Passes(t)
  <2>1. ASSUME NEW l \in Limits, Receive(t, l) PROVE Passes(t)
    BY ZenonT(60), <2>1 DEF Receive, ReceivePass, Passes, LooksToReceive
  <2>2. ASSUME NEW v \in Values, Send(t, v) \/ TrySend(t, v) PROVE Passes(t)
    BY ZenonT(60), <2>2 DEF Send, TrySend, SendPass, Passes, LooksToSend
  <2> QED BY ZenonT(60), <1>1, <2>1, <2>2 DEF Starts, Passes
<1>2. ASSUME NEW t \in Tasks, Goes(t) PROVE Passes(t)
  <2>1. CASE ReceiveWoken(t)
    BY ZenonT(60), <2>1 DEF ReceiveWoken, ReceivePass, Passes, LooksToReceive, TypeInv, TypeOK
  <2>2. CASE SendWoken(t)
    BY ZenonT(60), <2>2 DEF SendWoken, SendPass, Passes, LooksToSend, TypeInv, SendsValue, UsesSender
  <2>3. CASE PollGets(t)
    <3>1. CASE arm[t] = "receive"
      BY ZenonT(60), <2>3, <3>1 DEF PollGets, Passes, LooksToReceive
    <3>2. CASE arm[t] # "receive"
      <4>1. arm[t] = "send"
        BY ZenonT(60), <3>2 DEF TypeInv, TypeOK, Arms
      <4>2. value[t] \in Values
        BY ZenonT(60), <2>3, <4>1 DEF PollGets, TypeInv, SendsValue, UsesSender
      <4> QED BY ZenonT(60), <2>3, <4>1, <4>2 DEF PollGets, Passes, LooksToSend
    <3> QED BY ZenonT(60), <3>1, <3>2
  <2> QED BY ZenonT(60), <1>2, <2>1, <2>2, <2>3 DEF Goes, Passes
<1> QED BY ZenonT(60), <1>1, <1>2 DEF Next, Passes

\* What one task's own fields are after a call moves on.
LEMMA CallTypes ==
    ASSUME TypeInv, NEW t \in Tasks, NEW o \in Ops, NEW a \in Arms,
           NEW v \in Values \cup {NoValue}, NEW l \in Limits, Call(t, o, a, v, l)
    PROVE  /\ op' \in [Tasks -> Ops] /\ arm' \in [Tasks -> Arms]
           /\ value' \in [Tasks -> Values \cup {NoValue}] /\ limit' \in [Tasks -> Limits]
           /\ op'[t] = o /\ arm'[t] = a /\ value'[t] = v /\ limit'[t] = l
           /\ \A u \in Tasks \ {t} : /\ op'[u] = op[u] /\ arm'[u] = arm[u]
                                      /\ value'[u] = value[u] /\ limit'[u] = limit[u]
BY ZenonT(60) DEF Call, TypeInv, TypeOK

\* The same after it returns.
LEMMA ReturnTypes ==
    ASSUME TypeInv, NEW t \in Tasks, Return(t)
    PROVE  /\ op' \in [Tasks -> Ops] /\ arm' \in [Tasks -> Arms]
           /\ value' \in [Tasks -> Values \cup {NoValue}] /\ limit' \in [Tasks -> Limits]
           /\ op'[t] = "none"
           /\ \A u \in Tasks \ {t} : op'[u] = op[u] /\ arm'[u] = arm[u] /\ value'[u] = value[u]
BY ZenonT(60), CallTypes DEF Return, Ops, Arms, Limits

\* Whose waits a set of wakers ends.
LEMMA WakeTypes ==
    ASSUME TypeInv, NEW ts, NEW how \in Woke, Wake(ts, how)
    PROVE  /\ live' \in [Tasks -> BOOLEAN] /\ woke' \in [Tasks -> Woke]
           /\ cancelled' \in [Tasks -> BOOLEAN]
           /\ \A u \in Tasks : /\ live'[u] <=> live[u] /\ u \notin ts
                               /\ woke'[u] = IF u \in ts THEN how ELSE woke[u]
           /\ \A u \in Tasks : u \notin ts => live'[u] = live[u] /\ woke'[u] = woke[u]
<1>1. live \in [Tasks -> BOOLEAN] /\ woke \in [Tasks -> Woke] /\ cancelled \in [Tasks -> BOOLEAN]
  BY ZenonT(60) DEF TypeInv, TypeOK
<1>2. /\ live' \in [Tasks -> BOOLEAN] /\ woke' \in [Tasks -> Woke]
      /\ cancelled' \in [Tasks -> BOOLEAN]
  BY ZenonT(60), <1>1 DEF Wake
<1>3. \A u \in Tasks : /\ live'[u] <=> live[u] /\ u \notin ts
                       /\ woke'[u] = IF u \in ts THEN how ELSE woke[u]
  BY Zenon, <1>1 DEF Wake
<1>4. ASSUME NEW u \in Tasks, u \notin ts PROVE live'[u] = live[u] /\ woke'[u] = woke[u]
  BY ZenonT(60), <1>1, <1>2, <1>3, <1>4
<1> QED BY ZenonT(60), <1>2, <1>3, <1>4

-----------------------------------------------------------------------------
(* Types.                                                                  *)

\* room_made, value_added and wake_everyone keep the types of what they change ...
LEMMA RoomTypes ==
    ASSUME TypeInv, RoomMade
    PROVE  /\ live' \in [Tasks -> BOOLEAN] /\ woke' \in [Tasks -> Woke]
           /\ cancelled' \in [Tasks -> BOOLEAN]
           /\ senders' \in Seq(Tasks) /\ sendWatchers' \in Seq(Tasks)
<1>1. LeftByOne(senders, live) \in Seq(Tasks)
  BY ZenonT(60), WakeOneFacts DEF TypeInv, TypeOK
<1> QED BY <1>1, WakeTypes DEF RoomMade, Woke

\* ... here value_added ...
LEMMA ValueTypes ==
    ASSUME TypeInv, ValueAdded
    PROVE  /\ live' \in [Tasks -> BOOLEAN] /\ woke' \in [Tasks -> Woke]
           /\ cancelled' \in [Tasks -> BOOLEAN]
           /\ receivers' \in Seq(Tasks) /\ receiveWatchers' \in Seq(Tasks)
<1>1. LeftByOne(receivers, live) \in Seq(Tasks)
  BY ZenonT(60), WakeOneFacts DEF TypeInv, TypeOK
<1> QED BY <1>1, WakeTypes DEF ValueAdded, Woke

\* ... and wake_everyone.
LEMMA EveryoneTypes ==
    ASSUME TypeInv, WakeEveryone
    PROVE  /\ live' \in [Tasks -> BOOLEAN] /\ woke' \in [Tasks -> Woke]
           /\ cancelled' \in [Tasks -> BOOLEAN]
           /\ receivers' \in Seq(Tasks) /\ receiveWatchers' \in Seq(Tasks)
           /\ senders' \in Seq(Tasks) /\ sendWatchers' \in Seq(Tasks)
BY WakeTypes DEF WakeEveryone, Woke

\* A wait concerns only the task that starts it ...
LEMMA StartWaitTypes ==
    ASSUME TypeInv, NEW t \in Tasks, StartWait(t)
    PROVE  /\ live' \in [Tasks -> BOOLEAN] /\ woke' \in [Tasks -> Woke]
           /\ cancelled' \in [Tasks -> BOOLEAN]
           /\ \A u \in Tasks \ {t} : live'[u] = live[u] /\ woke'[u] = woke[u]
BY ZenonT(60) DEF StartWait, TypeInv, TypeOK, Woke

\* ... or abandons it.
LEMMA AbandonTypes ==
    ASSUME TypeInv, NEW t \in Tasks, Abandon(t)
    PROVE  /\ live' \in [Tasks -> BOOLEAN] /\ woke' \in [Tasks -> Woke]
           /\ cancelled' \in [Tasks -> BOOLEAN]
           /\ ~live'[t]
           /\ \A u \in Tasks \ {t} : live'[u] = live[u] /\ woke'[u] = woke[u]
BY ZenonT(60) DEF Abandon, TypeInv, TypeOK, Woke

\* A task off or on a list leaves a list of tasks.
LEMMA ListTypes ==
    ASSUME TypeInv, NEW t \in Tasks
    PROVE  /\ Remove(receivers, t) \in Seq(Tasks) /\ Remove(senders, t) \in Seq(Tasks)
           /\ Remove(receiveWatchers, t) \in Seq(Tasks) /\ Remove(sendWatchers, t) \in Seq(Tasks)
           /\ Add(Remove(receivers, t), t) \in Seq(Tasks)
           /\ Add(Remove(senders, t), t) \in Seq(Tasks)
           /\ Add(receiveWatchers, t) \in Seq(Tasks) /\ Add(sendWatchers, t) \in Seq(Tasks)
<1>1. /\ Remove(receivers, t) \in Seq(Tasks) /\ Remove(senders, t) \in Seq(Tasks)
      /\ Remove(receiveWatchers, t) \in Seq(Tasks) /\ Remove(sendWatchers, t) \in Seq(Tasks)
  BY ZenonT(60), RemoveFacts DEF TypeInv, TypeOK
<1> QED BY ZenonT(60), <1>1, AddFacts DEF TypeInv, TypeOK

\* Every step keeps the types.
LEMMA TypeInductive ==
    ASSUME TypeInv, [Next]_vars
    PROVE  TypeInv'
<1> USE ChannelsAssumption
<1>1. CASE UNCHANGED vars
  BY ZenonT(60), <1>1 DEF vars, state, lists, calls, waits, TypeInv, TypeOK, SendsValue, UsesSender
<1>2. ASSUME NEW t \in Tasks, Passes(t) PROVE TypeInv'
  <2>1. CASE TakeValue(t)
    <3>1. queue' \in Seq(Values) /\ Len(queue') <= Capacity
      BY <2>1 DEF TakeValue, TypeInv, TypeOK
    <3> QED BY Zenon, <2>1, <3>1, RoomTypes, ReturnTypes, ListTypes DEF TakeValue, TypeInv, TypeOK, SendsValue, UsesSender
  <2>2. CASE ReceiveFails(t)
    BY Zenon, <2>2, ReturnTypes, ListTypes DEF ReceiveFails, TypeInv, TypeOK, SendsValue, UsesSender, state, waits
  <2>3. ASSUME NEW l \in Limits, WaitForValue(t, l) PROVE TypeInv'
    <3>1. "receive" \in Ops /\ "receive" \in Arms
      BY ZenonT(60) DEF Ops, Arms
    <3>2. StartWait(t) /\ Call(t, "receive", "receive", NoValue, l)
      BY ZenonT(60), <2>3 DEF WaitForValue
    <3>3. /\ live' \in [Tasks -> BOOLEAN] /\ woke' \in [Tasks -> Woke]
          /\ cancelled' \in [Tasks -> BOOLEAN]
      BY ZenonT(60), <3>2, StartWaitTypes
    <3>4. /\ op' \in [Tasks -> Ops] /\ arm' \in [Tasks -> Arms]
          /\ value' \in [Tasks -> Values \cup {NoValue}] /\ limit' \in [Tasks -> Limits]
          /\ op'[t] = "receive" /\ arm'[t] = "receive" /\ value'[t] = NoValue
          /\ \A u \in Tasks \ {t} : op'[u] = op[u] /\ arm'[u] = arm[u] /\ value'[u] = value[u]
      BY SMTT(40), <3>1, <3>2, CallTypes
    <3>5. SendsValue'
      BY ZenonT(60), <3>4 DEF TypeInv, SendsValue, UsesSender
    <3> QED BY ZenonT(60), <2>3, <3>3, <3>4, <3>5, ListTypes DEF WaitForValue, TypeInv, TypeOK, state
  <2>4. ASSUME NEW v \in Values, PutValue(t, v) PROVE TypeInv'
    <3>1. queue' \in Seq(Values) /\ Len(queue') <= Capacity
      BY <2>4 DEF PutValue, Full, TypeInv, TypeOK
    <3> QED BY Zenon, <2>4, <3>1, ValueTypes, ReturnTypes, ListTypes DEF PutValue, TypeInv, TypeOK, SendsValue, UsesSender
  <2>5. CASE SendFails(t)
    BY Zenon, <2>5, ReturnTypes, ListTypes DEF SendFails, TypeInv, TypeOK, SendsValue, UsesSender, state, waits
  <2>6. ASSUME NEW v \in Values, WaitForRoom(t, v) PROVE TypeInv'
    <3>1. "send" \in Ops /\ "receive" \in Arms /\ "none" \in Limits /\ v \in Values \cup {NoValue}
      BY ZenonT(60) DEF Ops, Arms, Limits
    <3>2. StartWait(t) /\ Call(t, "send", "receive", v, "none")
      BY ZenonT(60), <2>6 DEF WaitForRoom
    <3>3. /\ live' \in [Tasks -> BOOLEAN] /\ woke' \in [Tasks -> Woke]
          /\ cancelled' \in [Tasks -> BOOLEAN]
      BY ZenonT(60), <3>2, StartWaitTypes
    <3>4. /\ op' \in [Tasks -> Ops] /\ arm' \in [Tasks -> Arms]
          /\ value' \in [Tasks -> Values \cup {NoValue}] /\ limit' \in [Tasks -> Limits]
          /\ op'[t] = "send" /\ arm'[t] = "receive" /\ value'[t] = v
          /\ \A u \in Tasks \ {t} : op'[u] = op[u] /\ arm'[u] = arm[u] /\ value'[u] = value[u]
      BY SMTT(40), <3>1, <3>2, CallTypes
    <3>5. SendsValue'
      BY ZenonT(60), <3>4 DEF TypeInv, SendsValue, UsesSender
    <3> QED BY ZenonT(60), <2>6, <3>3, <3>4, <3>5, ListTypes DEF WaitForRoom, TypeInv, TypeOK, state
  <2>7. ASSUME NEW a \in Arms, NEW v \in Values \cup {NoValue}, NEW l \in Limits, StartSelect(t, a, v, l)
        PROVE  TypeInv'
    <3>1. "poll" \in Ops
      BY ZenonT(60) DEF Ops
    <3>2. a = "send" => v \in Values
      BY ZenonT(60), <2>7 DEF StartSelect
    <3> QED BY SMTT(40), <2>7, <3>1, <3>2, CallTypes DEF StartSelect, TypeInv, TypeOK, SendsValue, UsesSender, state,
               lists, waits
  <2>8. CASE SelectReturns(t)
    BY Zenon, <2>8, ReturnTypes DEF SelectReturns, TypeInv, TypeOK, SendsValue, UsesSender, state, lists, waits
  <2>9. CASE PollGetsNothing(t)
    <3>1. /\ "watch" \in Ops /\ arm[t] \in Arms /\ value[t] \in Values \cup {NoValue}
          /\ limit[t] \in Limits
      BY ZenonT(60) DEF Ops, TypeInv, TypeOK
    <3>2. StartWait(t) /\ Call(t, "watch", arm[t], value[t], limit[t])
      BY ZenonT(60), <2>9 DEF PollGetsNothing
    <3>3. /\ live' \in [Tasks -> BOOLEAN] /\ woke' \in [Tasks -> Woke]
          /\ cancelled' \in [Tasks -> BOOLEAN]
      BY ZenonT(60), <3>2, StartWaitTypes
    <3>4. /\ op' \in [Tasks -> Ops] /\ arm' \in [Tasks -> Arms]
          /\ value' \in [Tasks -> Values \cup {NoValue}] /\ limit' \in [Tasks -> Limits]
          /\ op'[t] = "watch" /\ arm'[t] = arm[t] /\ value'[t] = value[t]
          /\ \A u \in Tasks \ {t} : op'[u] = op[u] /\ arm'[u] = arm[u] /\ value'[u] = value[u]
      BY ZenonT(60), <3>1, <3>2, CallTypes
    <3>5. SendsValue'
      BY ZenonT(60), <3>4, <2>9 DEF PollGetsNothing, TypeInv, SendsValue, UsesSender
    <3> QED BY ZenonT(60), <2>9, <3>3, <3>4, <3>5 DEF PollGetsNothing, TypeInv, TypeOK, state, lists
  <2>10. CASE Watch(t)
    <3>1. CASE Watches(t)
      BY Zenon, <2>10, <3>1, ListTypes DEF Watch, Watches, TypeInv, TypeOK, SendsValue, UsesSender, Ops, state, waits
    <3>2. CASE ~Watches(t)
      BY ZenonT(60), <2>10, <3>2, AbandonTypes DEF Watch, TypeInv, TypeOK, SendsValue, UsesSender, Ops, state, lists
    <3> QED BY ZenonT(60), <3>1, <3>2
  <2>11. CASE OtherSourceReady(t)
    BY ZenonT(60), <2>11, AbandonTypes DEF OtherSourceReady, TypeInv, TypeOK, SendsValue, UsesSender, Ops, state, lists
  <2>12. CASE Unwatch(t)
    <3>1. receiveWatchers' \in Seq(Tasks) /\ sendWatchers' \in Seq(Tasks)
      BY ZenonT(60), <2>12, ListTypes DEF Unwatch, TypeInv, TypeOK
    <3>2. CASE Return(t)
      BY Zenon, <2>12, <3>1, <3>2, ReturnTypes DEF Unwatch, TypeInv, TypeOK, SendsValue, UsesSender, state, waits
    <3>3. CASE ~Return(t)
      BY Zenon, <2>12, <3>1, <3>3 DEF Unwatch, TypeInv, TypeOK, SendsValue, UsesSender, Ops, state, waits
    <3> QED BY ZenonT(60), <3>2, <3>3
  <2>13. CASE OtherArmWakes(t)
    BY ZenonT(60), <2>13, WakeTypes DEF OtherArmWakes, TypeInv, TypeOK, SendsValue, UsesSender, Woke, state, lists, calls
  <2>14. CASE Cancel(t)
    BY ZenonT(60), <2>14 DEF Cancel, TypeInv, TypeOK, SendsValue, UsesSender, Woke, state, lists, calls
  <2>15. CASE DeadlinePasses(t)
    BY ZenonT(60), <2>15 DEF DeadlinePasses, TypeInv, TypeOK, SendsValue, UsesSender, Limits, state, lists, waits
  <2>16. CASE FireTimer(t)
    BY ZenonT(60), <2>16, WakeTypes DEF FireTimer, TypeInv, TypeOK, SendsValue, UsesSender, Woke, state, lists, calls
  <2> QED BY ZenonT(60), <1>2, <2>1, <2>2, <2>3, <2>4, <2>5, <2>6, <2>7, <2>8, <2>9, <2>10, <2>11, <2>12, <2>13,
             <2>14, <2>15, <2>16 DEF Passes
<1>3. CASE Close
  BY ZenonT(60), <1>3, EveryoneTypes DEF Close, TypeInv, TypeOK, SendsValue, UsesSender, calls
<1>4. CASE ReleaseSender
  BY ZenonT(60), <1>4, EveryoneTypes DEF ReleaseSender, TypeInv, TypeOK, SendsValue, UsesSender, calls
<1>5. CASE ReleaseReceiver
  BY SMTT(40), <1>5, EveryoneTypes DEF ReleaseReceiver, TypeInv, TypeOK, SendsValue, UsesSender, calls
<1> QED BY ZenonT(60), <1>1, <1>2, <1>3, <1>4, <1>5, StepEffects

-----------------------------------------------------------------------------
(* The lists.                                                              *)


\* Nobody is on an empty list.
LEMMA EmptyList == Once(<<>>) /\ \A t : ~Has(<<>>, t)
BY DEF Once, Has

\* A task that looks at the queue is not in a wait, nor on another list.
LEMMA LookerIsAwake ==
    ASSUME ListsInv, NEW t \in Tasks
    PROVE  /\ LooksToReceive(t) => /\ ~live[t]
                                   /\ ~Has(senders, t) /\ ~Has(receiveWatchers, t) /\ ~Has(sendWatchers, t)
           /\ LooksToSend(t) => /\ ~live[t]
                                /\ ~Has(receivers, t) /\ ~Has(receiveWatchers, t) /\ ~Has(sendWatchers, t)
BY ZenonT(60) DEF ListsInv, EntriesAreCurrent, Lists, LiveIsListed, LooksToReceive, LooksToSend

\* room_made wakes some sender if one waits, and every Select that watches.
LEMMA RoomFacts ==
    ASSUME TypeInv, RoomMade
    PROVE  /\ \A u \in Tasks : Has(senders', u) => Has(senders, u)
           /\ Once(senders) => Once(senders')
           /\ \A u \in Tasks : live'[u] => live[u]
           /\ \A u \in Tasks : live'[u] /\ Has(senders, u) => Has(senders', u)
           /\ \A u \in Tasks : live'[u] => ~Has(sendWatchers, u)
           /\ Once(sendWatchers') /\ \A u \in Tasks : ~Has(sendWatchers', u)
<1>1. senders \in Seq(Tasks) /\ sendWatchers \in Seq(Tasks) /\ live \in [Tasks -> BOOLEAN]
  BY ZenonT(60) DEF TypeInv, TypeOK
<1>2. WokenByAll(sendWatchers, live) = {u \in Tasks : Has(sendWatchers, u) /\ live[u]}
  BY SMTT(40), <1>1, WakeAllFacts
<1>3. \A u \in Tasks : live'[u] <=> /\ live[u]
                                    /\ u \notin WokenByOne(senders, live)
                                    /\ u \notin WokenByAll(sendWatchers, live)
  BY WakeTypes DEF RoomMade, Woke
<1>4. /\ \A u \in Tasks : Has(LeftByOne(senders, live), u) => Has(senders, u)
      /\ Once(senders) => Once(LeftByOne(senders, live))
      /\ \A u \in Tasks : Has(senders, u) /\ live[u]
                            => Has(LeftByOne(senders, live), u) \/ u \in WokenByOne(senders, live)
  BY ZenonT(60), <1>1, WakeOneFacts
<1>5. senders' = LeftByOne(senders, live) /\ sendWatchers' = <<>>
  BY ZenonT(60) DEF RoomMade
<1> QED BY ZenonT(60), <1>2, <1>3, <1>4, <1>5, EmptyList

\* value_added, likewise.
LEMMA ValueFacts ==
    ASSUME TypeInv, ValueAdded
    PROVE  /\ \A u \in Tasks : Has(receivers', u) => Has(receivers, u)
           /\ Once(receivers) => Once(receivers')
           /\ \A u \in Tasks : live'[u] => live[u]
           /\ \A u \in Tasks : live'[u] /\ Has(receivers, u) => Has(receivers', u)
           /\ \A u \in Tasks : live'[u] => ~Has(receiveWatchers, u)
           /\ Once(receiveWatchers') /\ \A u \in Tasks : ~Has(receiveWatchers', u)
<1>1. receivers \in Seq(Tasks) /\ receiveWatchers \in Seq(Tasks) /\ live \in [Tasks -> BOOLEAN]
  BY ZenonT(60) DEF TypeInv, TypeOK
<1>2. WokenByAll(receiveWatchers, live) = {u \in Tasks : Has(receiveWatchers, u) /\ live[u]}
  BY <1>1, WakeAllFacts
<1>3. \A u \in Tasks : live'[u] <=> /\ live[u]
                                    /\ u \notin WokenByOne(receivers, live)
                                    /\ u \notin WokenByAll(receiveWatchers, live)
  BY WakeTypes DEF ValueAdded, Woke
<1>4. /\ \A u \in Tasks : Has(LeftByOne(receivers, live), u) => Has(receivers, u)
      /\ Once(receivers) => Once(LeftByOne(receivers, live))
      /\ \A u \in Tasks : Has(receivers, u) /\ live[u]
                            => Has(LeftByOne(receivers, live), u) \/ u \in WokenByOne(receivers, live)
  BY ZenonT(60), <1>1, WakeOneFacts
<1>5. receivers' = LeftByOne(receivers, live) /\ receiveWatchers' = <<>>
  BY ZenonT(60) DEF ValueAdded
<1> QED BY ZenonT(60), <1>2, <1>3, <1>4, <1>5, EmptyList

\* wake_everyone leaves only a Select that is still adding its wakers waiting.
LEMMA EveryoneFacts ==
    ASSUME ListsInv, WakeEveryone
    PROVE  /\ \A u \in Tasks : live'[u] => live[u] /\ op[u] = "watch"
           /\ Once(receivers') /\ Once(senders') /\ Once(receiveWatchers') /\ Once(sendWatchers')
           /\ \A u \in Tasks : /\ ~Has(receivers', u) /\ ~Has(senders', u)
                               /\ ~Has(receiveWatchers', u) /\ ~Has(sendWatchers', u)
<1>1. /\ receivers \in Seq(Tasks) /\ senders \in Seq(Tasks) /\ receiveWatchers \in Seq(Tasks)
      /\ sendWatchers \in Seq(Tasks) /\ live \in [Tasks -> BOOLEAN]
  BY ZenonT(60) DEF ListsInv, TypeInv, TypeOK
<1>2. /\ WokenByAll(receivers, live) = {u \in Tasks : Has(receivers, u) /\ live[u]}
      /\ WokenByAll(senders, live) = {u \in Tasks : Has(senders, u) /\ live[u]}
      /\ WokenByAll(receiveWatchers, live) = {u \in Tasks : Has(receiveWatchers, u) /\ live[u]}
      /\ WokenByAll(sendWatchers, live) = {u \in Tasks : Has(sendWatchers, u) /\ live[u]}
  BY SMTT(40), <1>1, WakeAllFacts
<1>3. \A u \in Tasks : live'[u] <=>
        /\ live[u]
        /\ u \notin WokenByAll(receivers, live) /\ u \notin WokenByAll(senders, live)
        /\ u \notin WokenByAll(receiveWatchers, live) /\ u \notin WokenByAll(sendWatchers, live)
  BY WakeTypes DEF WakeEveryone, Woke, ListsInv
<1>4. \A u \in Tasks : live'[u] => live[u] /\ op[u] = "watch"
  BY ZenonT(60), <1>2, <1>3 DEF ListsInv, LiveIsListed
<1> QED BY ZenonT(60), <1>4, EmptyList DEF WakeEveryone

\* A task's own entry goes, or comes back at the end of the list.
LEMMA OwnEntry ==
    ASSUME NEW list \in Seq(Tasks), Once(list), NEW t \in Tasks
    PROVE  /\ Once(Remove(list, t)) /\ Once(Add(Remove(list, t), t))
           /\ \A u \in Tasks : Has(Remove(list, t), u) <=> Has(list, u) /\ u # t
           /\ \A u \in Tasks : Has(Add(Remove(list, t), t), u) <=> Has(list, u) \/ u = t
<1>1. /\ Remove(list, t) \in Seq(Tasks) /\ Once(Remove(list, t)) /\ ~Has(Remove(list, t), t)
      /\ \A u \in Tasks : Has(Remove(list, t), u) <=> Has(list, u) /\ u # t
  BY Zenon, RemoveFacts
<1>2. /\ Once(Add(Remove(list, t), t))
      /\ \A u \in Tasks : Has(Add(Remove(list, t), t), u) <=> Has(Remove(list, t), u) \/ u = t
  BY ZenonT(60), <1>1, AddFacts
<1> QED BY ZenonT(60), <1>1, <1>2

\* The entries stay true to the calls, and every live wait stays listed.
LEMMA ListsInductive ==
    ASSUME ListsInv, [Next]_vars
    PROVE  ListsInv'
<1> TypeInv /\ TypeInv'
  BY ZenonT(60), TypeInductive DEF ListsInv
<1> SUFFICES EntriesAreCurrent' /\ LiveIsListed'
  BY ZenonT(60) DEF ListsInv
<1>0. /\ receivers \in Seq(Tasks) /\ senders \in Seq(Tasks)
      /\ receiveWatchers \in Seq(Tasks) /\ sendWatchers \in Seq(Tasks)
      /\ Once(receivers) /\ Once(senders) /\ Once(receiveWatchers) /\ Once(sendWatchers)
  BY ZenonT(60) DEF TypeInv, TypeOK, ListsInv, EntriesAreCurrent, Lists
<1>1. CASE UNCHANGED vars
  BY ZenonT(60), <1>1 DEF vars, lists, calls, waits, ListsInv, EntriesAreCurrent, Lists, LiveIsListed
<1>2. ASSUME NEW t \in Tasks, Passes(t) PROVE EntriesAreCurrent' /\ LiveIsListed'
  <2>0. /\ \A u \in Tasks : Has(Remove(receivers, t), u) <=> Has(receivers, u) /\ u # t
        /\ \A u \in Tasks : Has(Add(Remove(receivers, t), t), u) <=> Has(receivers, u) \/ u = t
        /\ Once(Remove(receivers, t)) /\ Once(Add(Remove(receivers, t), t))
        /\ \A u \in Tasks : Has(Remove(senders, t), u) <=> Has(senders, u) /\ u # t
        /\ \A u \in Tasks : Has(Add(Remove(senders, t), t), u) <=> Has(senders, u) \/ u = t
        /\ Once(Remove(senders, t)) /\ Once(Add(Remove(senders, t), t))
    BY ZenonT(60), <1>0, OwnEntry
  <2>1. CASE LooksToReceive(t) /\ TakeValue(t)
    <3>1. /\ op'[t] = "none" /\ \A u \in Tasks \ {t} : op'[u] = op[u] /\ arm'[u] = arm[u]
      BY ZenonT(60), <2>1, ReturnTypes DEF TakeValue
    <3>2. RoomMade /\ receivers' = Remove(receivers, t) /\ receiveWatchers' = receiveWatchers
      BY ZenonT(60), <2>1 DEF TakeValue
    <3>3. EntriesAreCurrent'
      BY ZenonT(60), <2>1, <3>1, <3>2, <2>0, RoomFacts, LookerIsAwake DEF ListsInv, EntriesAreCurrent, Lists
    <3>4. \A u \in Tasks : live'[u] =>
            /\ live[u] /\ u # t /\ ~Has(sendWatchers, u)
            /\ Has(receivers, u) => Has(receivers', u)
            /\ Has(senders, u) => Has(senders', u)
      BY ZenonT(60), <2>1, <3>2, <2>0, RoomFacts, LookerIsAwake
    <3>5. LiveIsListed'
      BY ZenonT(60), <3>1, <3>2, <3>4 DEF ListsInv, LiveIsListed
    <3> QED BY ZenonT(60), <3>3, <3>5
  <2>2. CASE LooksToReceive(t) /\ ReceiveFails(t)
    <3>1. /\ op'[t] = "none" /\ \A u \in Tasks \ {t} : op'[u] = op[u] /\ arm'[u] = arm[u]
      BY ZenonT(60), <2>2, ReturnTypes DEF ReceiveFails
    <3>2. /\ receivers' = Remove(receivers, t)
          /\ UNCHANGED <<senders, receiveWatchers, sendWatchers, live>>
      BY ZenonT(60), <2>2 DEF ReceiveFails, waits
    <3>3. EntriesAreCurrent'
      BY ZenonT(60), <2>2, <3>1, <3>2, <2>0, LookerIsAwake DEF ListsInv, EntriesAreCurrent, Lists
    <3>4. LiveIsListed'
      BY ZenonT(60), <2>2, <3>1, <3>2, <2>0, LookerIsAwake DEF ListsInv, LiveIsListed
    <3> QED BY ZenonT(60), <3>3, <3>4
  <2>3. ASSUME LooksToReceive(t), NEW l \in Limits, WaitForValue(t, l)
        PROVE  EntriesAreCurrent' /\ LiveIsListed'
    <3>1. /\ op'[t] = "receive" /\ arm'[t] = "receive"
          /\ \A u \in Tasks \ {t} : op'[u] = op[u] /\ arm'[u] = arm[u]
      BY ZenonT(60), <2>3, CallTypes DEF WaitForValue, Ops, Arms
    <3>2. /\ receivers' = Add(Remove(receivers, t), t)
          /\ UNCHANGED <<senders, receiveWatchers, sendWatchers>>
          /\ \A u \in Tasks \ {t} : live'[u] = live[u]
      BY ZenonT(60), <2>3, StartWaitTypes DEF WaitForValue
    <3>3. EntriesAreCurrent'
      BY ZenonT(60), <2>3, <3>1, <3>2, <2>0, LookerIsAwake DEF ListsInv, EntriesAreCurrent, Lists
    <3>4. LiveIsListed'
      BY ZenonT(60), <3>1, <3>2, <2>0 DEF ListsInv, LiveIsListed
    <3> QED BY ZenonT(60), <3>3, <3>4
  <2>4. ASSUME LooksToSend(t), NEW v \in Values, PutValue(t, v)
        PROVE  EntriesAreCurrent' /\ LiveIsListed'
    <3>1. /\ op'[t] = "none" /\ \A u \in Tasks \ {t} : op'[u] = op[u] /\ arm'[u] = arm[u]
      BY ZenonT(60), <2>4, ReturnTypes DEF PutValue
    <3>2. ValueAdded /\ senders' = Remove(senders, t) /\ sendWatchers' = sendWatchers
      BY ZenonT(60), <2>4 DEF PutValue
    <3>3. EntriesAreCurrent'
      BY ZenonT(60), <2>4, <3>1, <3>2, <2>0, ValueFacts, LookerIsAwake DEF ListsInv, EntriesAreCurrent, Lists
    <3>4. \A u \in Tasks : live'[u] =>
            /\ live[u] /\ u # t /\ ~Has(receiveWatchers, u)
            /\ Has(receivers, u) => Has(receivers', u)
            /\ Has(senders, u) => Has(senders', u)
      BY ZenonT(60), <2>4, <3>2, <2>0, ValueFacts, LookerIsAwake
    <3>5. LiveIsListed'
      BY ZenonT(60), <3>1, <3>2, <3>4 DEF ListsInv, LiveIsListed
    <3> QED BY ZenonT(60), <3>3, <3>5
  <2>5. CASE LooksToSend(t) /\ SendFails(t)
    <3>1. /\ op'[t] = "none" /\ \A u \in Tasks \ {t} : op'[u] = op[u] /\ arm'[u] = arm[u]
      BY ZenonT(60), <2>5, ReturnTypes DEF SendFails
    <3>2. /\ senders' = Remove(senders, t)
          /\ UNCHANGED <<receivers, receiveWatchers, sendWatchers, live>>
      BY ZenonT(60), <2>5 DEF SendFails, waits
    <3>3. EntriesAreCurrent'
      BY ZenonT(60), <2>5, <3>1, <3>2, <2>0, LookerIsAwake DEF ListsInv, EntriesAreCurrent, Lists
    <3>4. LiveIsListed'
      BY ZenonT(60), <2>5, <3>1, <3>2, <2>0, LookerIsAwake DEF ListsInv, LiveIsListed
    <3> QED BY ZenonT(60), <3>3, <3>4
  <2>6. ASSUME LooksToSend(t), NEW v \in Values, WaitForRoom(t, v)
        PROVE  EntriesAreCurrent' /\ LiveIsListed'
    <3>1. /\ op'[t] = "send" /\ arm'[t] = "receive"
          /\ \A u \in Tasks \ {t} : op'[u] = op[u] /\ arm'[u] = arm[u]
      BY ZenonT(60), <2>6, CallTypes DEF WaitForRoom, Ops, Arms, Limits
    <3>2. /\ senders' = Add(Remove(senders, t), t)
          /\ UNCHANGED <<receivers, receiveWatchers, sendWatchers>>
          /\ \A u \in Tasks \ {t} : live'[u] = live[u]
      BY ZenonT(60), <2>6, StartWaitTypes DEF WaitForRoom
    <3>3. EntriesAreCurrent'
      BY ZenonT(60), <2>6, <3>1, <3>2, <2>0, LookerIsAwake DEF ListsInv, EntriesAreCurrent, Lists
    <3>4. LiveIsListed'
      BY ZenonT(60), <3>1, <3>2, <2>0 DEF ListsInv, LiveIsListed
    <3> QED BY ZenonT(60), <3>3, <3>4
  <2>7. ASSUME NEW a \in Arms, NEW v \in Values \cup {NoValue}, NEW l \in Limits, StartSelect(t, a, v, l)
        PROVE  EntriesAreCurrent' /\ LiveIsListed'
    <3>1. /\ op[t] = "none" /\ op'[t] = "poll"
          /\ \A u \in Tasks \ {t} : op'[u] = op[u] /\ arm'[u] = arm[u]
      BY ZenonT(60), <2>7, CallTypes DEF StartSelect, Ops
    <3>2. UNCHANGED <<receivers, senders, receiveWatchers, sendWatchers, live>>
      BY ZenonT(60), <2>7 DEF StartSelect, lists, waits
    <3>3. EntriesAreCurrent'
      BY ZenonT(60), <3>1, <3>2 DEF ListsInv, EntriesAreCurrent, Lists
    <3>4. LiveIsListed'
      BY ZenonT(60), <3>1, <3>2 DEF ListsInv, LiveIsListed
    <3> QED BY ZenonT(60), <3>3, <3>4
  <2>8. CASE SelectReturns(t)
    <3>1. /\ op[t] = "poll" /\ op'[t] = "none"
          /\ \A u \in Tasks \ {t} : op'[u] = op[u] /\ arm'[u] = arm[u]
      BY ZenonT(60), <2>8, ReturnTypes DEF SelectReturns
    <3>2. UNCHANGED <<receivers, senders, receiveWatchers, sendWatchers, live>>
      BY ZenonT(60), <2>8 DEF SelectReturns, lists, waits
    <3>3. EntriesAreCurrent'
      BY ZenonT(60), <3>1, <3>2 DEF ListsInv, EntriesAreCurrent, Lists
    <3>4. LiveIsListed'
      BY ZenonT(60), <3>1, <3>2 DEF ListsInv, LiveIsListed
    <3> QED BY ZenonT(60), <3>3, <3>4
  <2>9. CASE PollGetsNothing(t)
    <3>1. /\ "watch" \in Ops /\ arm[t] \in Arms /\ value[t] \in Values \cup {NoValue}
          /\ limit[t] \in Limits
      BY ZenonT(60) DEF Ops, TypeInv, TypeOK
    <3>2. /\ op[t] = "poll" /\ op'[t] = "watch"
          /\ \A u \in Tasks \ {t} : op'[u] = op[u] /\ arm'[u] = arm[u]
      BY ZenonT(60), <2>9, <3>1, CallTypes DEF PollGetsNothing
    <3>3. \A u \in Tasks \ {t} : live'[u] = live[u]
      BY ZenonT(60), <2>9, StartWaitTypes DEF PollGetsNothing
    <3>4. UNCHANGED <<receivers, senders, receiveWatchers, sendWatchers>>
      BY ZenonT(60), <2>9 DEF PollGetsNothing, lists
    <3>5. EntriesAreCurrent'
      BY ZenonT(60), <3>2, <3>3, <3>4 DEF ListsInv, EntriesAreCurrent, Lists
    <3>6. LiveIsListed'
      BY ZenonT(60), <3>2, <3>3, <3>4 DEF ListsInv, LiveIsListed
    <3> QED BY ZenonT(60), <3>5, <3>6
  <2>10. CASE Watch(t)
    <3>1. op[t] = "watch"
      BY ZenonT(60), <2>10 DEF Watch
    <3>2. ~Has(receiveWatchers, t) /\ ~Has(sendWatchers, t) /\ ~Has(receivers, t) /\ ~Has(senders, t)
      BY ZenonT(60), <3>1 DEF ListsInv, EntriesAreCurrent, Lists
    <3>3. CASE Watches(t)
      <4>1. /\ op'[t] = "select" /\ arm' = arm
            /\ \A u \in Tasks \ {t} : op'[u] = op[u]
            /\ UNCHANGED <<receivers, senders, live>>
        BY ZenonT(60), <3>3 DEF Watches, waits, TypeInv, TypeOK
      <4>2. CASE arm[t] = "receive"
        <5>1. receiveWatchers' = Add(receiveWatchers, t) /\ sendWatchers' = sendWatchers
          BY ZenonT(60), <3>3, <4>2 DEF Watches
        <5>2. /\ Once(receiveWatchers')
              /\ \A u \in Tasks : Has(receiveWatchers', u) <=> Has(receiveWatchers, u) \/ u = t
          BY Zenon, <5>1, <3>2, <1>0, AddFacts
        <5>3. EntriesAreCurrent'
          BY ZenonT(60), <3>1, <3>2, <4>1, <4>2, <5>1, <5>2 DEF ListsInv, EntriesAreCurrent, Lists
        <5>4. LiveIsListed'
          BY ZenonT(60), <3>1, <3>2, <4>1, <4>2, <5>1, <5>2 DEF ListsInv, LiveIsListed
        <5> QED BY ZenonT(60), <5>3, <5>4
      <4>3. CASE arm[t] = "send"
        <5>1. sendWatchers' = Add(sendWatchers, t) /\ receiveWatchers' = receiveWatchers
          BY ZenonT(60), <3>3, <4>3 DEF Watches
        <5>2. /\ Once(sendWatchers')
              /\ \A u \in Tasks : Has(sendWatchers', u) <=> Has(sendWatchers, u) \/ u = t
          BY Zenon, <5>1, <3>2, <1>0, AddFacts
        <5>3. EntriesAreCurrent'
          BY ZenonT(60), <3>1, <3>2, <4>1, <4>3, <5>1, <5>2 DEF ListsInv, EntriesAreCurrent, Lists
        <5>4. LiveIsListed'
          BY ZenonT(60), <3>1, <3>2, <4>1, <4>3, <5>1, <5>2 DEF ListsInv, LiveIsListed
        <5> QED BY ZenonT(60), <5>3, <5>4
      <4> QED BY ZenonT(60), <4>2, <4>3 DEF TypeInv, TypeOK, Arms
    <3>4. CASE ~Watches(t)
      <4>1. /\ op'[t] = "poll" /\ arm' = arm
            /\ \A u \in Tasks \ {t} : op'[u] = op[u]
            /\ UNCHANGED <<receivers, senders, receiveWatchers, sendWatchers>>
            /\ Abandon(t)
        BY ZenonT(60), <2>10, <3>4 DEF Watch, lists, TypeInv, TypeOK
      <4>2. ~live'[t] /\ \A u \in Tasks \ {t} : live'[u] = live[u]
        BY ZenonT(60), <4>1, AbandonTypes
      <4>3. EntriesAreCurrent'
        BY ZenonT(60), <3>1, <4>1, <4>2 DEF ListsInv, EntriesAreCurrent, Lists
      <4>4. LiveIsListed'
        BY ZenonT(60), <3>1, <4>1, <4>2 DEF ListsInv, LiveIsListed
      <4> QED BY ZenonT(60), <4>3, <4>4
    <3> QED BY ZenonT(60), <3>3, <3>4
  <2>11. CASE OtherSourceReady(t)
    <3>1. /\ op[t] \in {"watch", "select"} /\ arm' = arm
          /\ op'[t] = IF op[t] = "watch" THEN "poll" ELSE op[t]
          /\ \A u \in Tasks \ {t} : op'[u] = op[u]
          /\ UNCHANGED <<receivers, senders, receiveWatchers, sendWatchers>>
          /\ Abandon(t)
      BY ZenonT(60), <2>11 DEF OtherSourceReady, lists, TypeInv, TypeOK
    <3>2. ~live'[t] /\ \A u \in Tasks \ {t} : live'[u] = live[u]
      BY ZenonT(60), <3>1, AbandonTypes
    <3>3. EntriesAreCurrent'
      BY ZenonT(60), <3>1, <3>2 DEF ListsInv, EntriesAreCurrent, Lists
    <3>4. LiveIsListed'
      BY ZenonT(60), <3>1, <3>2 DEF ListsInv, LiveIsListed
    <3> QED BY ZenonT(60), <3>3, <3>4
  <2>12. CASE Unwatch(t)
    <3>1. op[t] = "select" /\ ~live[t] /\ UNCHANGED <<receivers, senders, live>>
      BY ZenonT(60), <2>12 DEF Unwatch, waits
    <3>2. /\ op'[t] # "select"
          /\ \A u \in Tasks \ {t} : op'[u] = op[u] /\ arm'[u] = arm[u]
      <4>1. CASE Return(t)
        BY ZenonT(60), <4>1, ReturnTypes
      <4>2. CASE ~Return(t)
        BY ZenonT(60), <2>12, <4>2 DEF Unwatch, TypeInv, TypeOK
      <4> QED BY ZenonT(60), <4>1, <4>2
    <3>3. /\ \A u \in Tasks : Has(receiveWatchers', u) <=> Has(receiveWatchers, u) /\ u # t
          /\ \A u \in Tasks : Has(sendWatchers', u) <=> Has(sendWatchers, u) /\ u # t
          /\ Once(receiveWatchers') /\ Once(sendWatchers')
      <4>1. CASE arm[t] = "receive"
        <5>1. receiveWatchers' = Remove(receiveWatchers, t) /\ sendWatchers' = sendWatchers
          BY ZenonT(60), <2>12, <4>1 DEF Unwatch
        <5>2. ~Has(sendWatchers, t)
          BY ZenonT(60), <4>1 DEF ListsInv, EntriesAreCurrent, Lists
        <5> QED BY ZenonT(60), <5>1, <5>2, <1>0, OwnEntry
      <4>2. CASE arm[t] = "send"
        <5>1. sendWatchers' = Remove(sendWatchers, t) /\ receiveWatchers' = receiveWatchers
          BY ZenonT(60), <2>12, <4>2 DEF Unwatch
        <5>2. ~Has(receiveWatchers, t)
          BY ZenonT(60), <4>2 DEF ListsInv, EntriesAreCurrent, Lists
        <5> QED BY ZenonT(60), <5>1, <5>2, <1>0, OwnEntry
      <4> QED BY ZenonT(60), <4>1, <4>2 DEF TypeInv, TypeOK, Arms
    <3>4. EntriesAreCurrent'
      BY ZenonT(60), <3>1, <3>2, <3>3 DEF ListsInv, EntriesAreCurrent, Lists
    <3>5. LiveIsListed'
      BY ZenonT(60), <3>1, <3>2, <3>3 DEF ListsInv, LiveIsListed
    <3> QED BY ZenonT(60), <3>4, <3>5
  <2>13. CASE OtherArmWakes(t)
    <3>1. UNCHANGED <<receivers, senders, receiveWatchers, sendWatchers, op, arm>>
      BY ZenonT(60), <2>13 DEF OtherArmWakes, lists, calls
    <3>2. \A u \in Tasks : live'[u] => live[u]
      BY ZenonT(60), <2>13, WakeTypes DEF OtherArmWakes, Woke
    <3>3. EntriesAreCurrent'
      BY ZenonT(60), <3>1, <3>2 DEF ListsInv, EntriesAreCurrent, Lists
    <3>4. LiveIsListed'
      BY ZenonT(60), <3>1, <3>2 DEF ListsInv, LiveIsListed
    <3> QED BY ZenonT(60), <3>3, <3>4
  <2>14. CASE Cancel(t)
    <3>1. \A u \in Tasks : live'[u] => live[u]
      BY ZenonT(60), <2>14 DEF Cancel, TypeInv, TypeOK
    <3>2. UNCHANGED <<receivers, senders, receiveWatchers, sendWatchers, op, arm>>
      BY ZenonT(60), <2>14 DEF Cancel, lists, calls
    <3>3. EntriesAreCurrent'
      BY ZenonT(60), <3>1, <3>2 DEF ListsInv, EntriesAreCurrent, Lists
    <3>4. LiveIsListed'
      BY ZenonT(60), <3>1, <3>2 DEF ListsInv, LiveIsListed
    <3> QED BY ZenonT(60), <3>3, <3>4
  <2>15. CASE DeadlinePasses(t)
    <3>1. UNCHANGED <<receivers, senders, receiveWatchers, sendWatchers, op, arm, live>>
      BY ZenonT(60), <2>15 DEF DeadlinePasses, lists, waits
    <3>2. EntriesAreCurrent'
      BY ZenonT(60), <3>1 DEF ListsInv, EntriesAreCurrent, Lists
    <3>3. LiveIsListed'
      BY ZenonT(60), <3>1 DEF ListsInv, LiveIsListed
    <3> QED BY ZenonT(60), <3>2, <3>3
  <2>16. CASE FireTimer(t)
    <3>1. UNCHANGED <<receivers, senders, receiveWatchers, sendWatchers, op, arm>>
      BY ZenonT(60), <2>16 DEF FireTimer, lists, calls
    <3>2. \A u \in Tasks : live'[u] => live[u]
      BY ZenonT(60), <2>16, WakeTypes DEF FireTimer, Woke
    <3>3. EntriesAreCurrent'
      BY ZenonT(60), <3>1, <3>2 DEF ListsInv, EntriesAreCurrent, Lists
    <3>4. LiveIsListed'
      BY ZenonT(60), <3>1, <3>2 DEF ListsInv, LiveIsListed
    <3> QED BY ZenonT(60), <3>3, <3>4
  <2> QED BY ZenonT(60), <1>2, <2>1, <2>2, <2>3, <2>4, <2>5, <2>6, <2>7, <2>8, <2>9, <2>10, <2>11, <2>12, <2>13,
             <2>14, <2>15, <2>16 DEF Passes
<1>3. ASSUME WakeEveryone, UNCHANGED calls PROVE EntriesAreCurrent' /\ LiveIsListed'
  BY ZenonT(60), <1>3, EveryoneFacts DEF calls, EntriesAreCurrent, Lists, LiveIsListed
<1> QED BY Zenon, <1>1, <1>2, <1>3, StepEffects DEF Close, ReleaseSender, ReleaseReceiver

\* A new channel has nobody on its lists and nobody waiting.
LEMMA ListsInitially ==
    ASSUME Init
    PROVE  ListsInv
<1>1. TypeOK
  <2>1. <<>> \in Seq(Values) /\ <<>> \in Seq(Tasks) /\ Len(<<>>) = 0 /\ Capacity \in Nat
    BY ChannelsAssumption
  <2>2. "none" \in Ops /\ "receive" \in Arms /\ "none" \in Limits /\ "Ready" \in Woke
    BY ZenonT(60) DEF Ops, Arms, Limits, Woke
  <2>3. queue \in Seq(Values) /\ Len(queue) <= Capacity
    BY <2>1 DEF Init
  <2> QED BY Zenon, <2>1, <2>2, <2>3 DEF Init, TypeOK
<1>2. SendsValue /\ LiveIsListed
  BY ZenonT(60) DEF Init, SendsValue, UsesSender, LiveIsListed
<1>3. EntriesAreCurrent
  BY ZenonT(60), EmptyList DEF Init, EntriesAreCurrent, Lists
<1> QED BY ZenonT(60), <1>1, <1>2, <1>3 DEF ListsInv, TypeInv

\* So it stays.
LEMMA ListsInvariant == Spec => []ListsInv
BY ListsInitially, ListsInductive, PTL DEF Spec

\* The types of the channel's fields and of every call's locals, and the
\* capacity of the queue, for any tasks, values and capacity.
THEOREM ChannelTypeSafe == Spec => []TypeOK
<1>1. ListsInv => TypeOK
  BY ZenonT(60) DEF ListsInv, TypeInv
<1> QED BY <1>1, ListsInvariant, PTL

\* No entry of a list of waiters outlives the call that added it.
THEOREM EntriesStayCurrent == Spec => []EntriesAreCurrent
<1>1. ListsInv => EntriesAreCurrent
  BY ZenonT(60) DEF ListsInv
<1> QED BY <1>1, ListsInvariant, PTL

-----------------------------------------------------------------------------
(* Who sleeps.  First, each effect of a step is put in terms of who is in  *)
(* which call and who was woken; the invariants then never mention lists.  *)

\* Nothing changes for the tasks other than t in a plain call.
SameCalls(t) == \A u \in Tasks \ {t} : op'[u] = op[u] /\ arm'[u] = arm[u]

\* Of the tasks in call o, none waited, or just w is woken, by wake_one.
OneWoken(o) ==
    \/ \A u \in Tasks : op[u] = o => ~live[u] /\ ~live'[u]
    \/ \E w \in Tasks :
         /\ op[w] = o /\ live[w] /\ ~live'[w] /\ woke'[w] = "Ready"
         /\ \A u \in Tasks \ {w} : op[u] = o => live'[u] = live[u] /\ woke'[u] = woke[u]

\* The waits of the tasks in call o are as they were.
NoneWoken(o) == \A u \in Tasks : op[u] = o => live'[u] = live[u] /\ woke'[u] = woke[u]

Took(t) ==
    /\ ~live[t] /\ op[t] # "send" /\ op'[t] = "none" /\ SameCalls(t)
    /\ queue # <<>> /\ queue' = Tail(queue)
    /\ UNCHANGED <<sendingClosed, receiverGone>>
    /\ \A u \in Tasks : live'[u] => live[u]
    /\ NoneWoken("receive") /\ OneWoken("send")
    /\ \A u \in Tasks : op[u] = "select" /\ arm[u] = "send" => ~live'[u]

Put(t) ==
    /\ ~live[t] /\ op[t] # "receive" /\ op'[t] = "none" /\ SameCalls(t)
    /\ Open /\ Len(queue) < Capacity
    /\ queue' \in Seq(Values) /\ Len(queue') = Len(queue) + 1
    /\ UNCHANGED <<sendingClosed, receiverGone>>
    /\ \A u \in Tasks : live'[u] => live[u]
    /\ NoneWoken("send") /\ OneWoken("receive")
    /\ \A u \in Tasks : op[u] = "select" /\ arm[u] = "receive" => ~live'[u]

\* A call in o, or a Select, gives up.
GaveUp(t) ==
    /\ ~live[t] /\ op'[t] = "none" /\ SameCalls(t)
    /\ op[t] = "receive" => queue = <<>> \/ woke[t] = "Cancelled"
    /\ op[t] = "send" => ~Open \/ Len(queue) >= Capacity \/ woke[t] = "Cancelled"
    /\ UNCHANGED <<queue, sendingClosed, receiverGone, live, woke>>

BeganWait(t, o) ==
    /\ ~live[t] /\ op'[t] = o /\ SameCalls(t)
    /\ op[t] \in {"none", o}
    /\ o = "receive" => queue = <<>> /\ ~sendingClosed
    /\ o = "send" => Open /\ Len(queue) >= Capacity
    /\ UNCHANGED <<queue, sendingClosed, receiverGone>>
    /\ \A u \in Tasks \ {t} : live'[u] = live[u] /\ woke'[u] = woke[u]

EveryoneWoken ==
    /\ UNCHANGED <<op, arm>>
    /\ \A u \in Tasks : live'[u] => live[u] /\ op[u] = "watch"
    /\ \/ queue' = queue /\ receiverGone' = receiverGone
       \/ queue' = <<>> /\ receiverGone' = TRUE

\* The rest: plain calls come and go only by the steps above.
Quiet ==
    /\ UNCHANGED <<queue, sendingClosed, receiverGone>>
    /\ \A u \in Tasks : /\ op'[u] = "receive" <=> op[u] = "receive"
                        /\ op'[u] = "send" <=> op[u] = "send"
    /\ \A u \in Tasks : op[u] \in {"receive", "send"} =>
         (live'[u] => live[u]) /\ (~live[u] => ~live'[u] /\ woke'[u] = woke[u])
    /\ \A u \in Tasks : op'[u] = "select" /\ live'[u] =>
         arm'[u] = arm[u] /\ live[u] /\ (op[u] = "select" \/ ~ArmReady(arm[u]))

Changes ==
    \/ \E t \in Tasks : Took(t) \/ Put(t) \/ GaveUp(t) \/ BeganWait(t, "receive") \/ BeganWait(t, "send")
    \/ EveryoneWoken \/ Quiet

\* room_made wakes one sender at most, and no receiver.
LEMMA TookFacts ==
    ASSUME ListsInv, NEW t \in Tasks, LooksToReceive(t), TakeValue(t)
    PROVE  Took(t)
<1> TypeInv
  BY ZenonT(60) DEF ListsInv
<1> DEFINE one == WokenByOne(senders, live)
           all == WokenByAll(sendWatchers, live)
<1>1. /\ op'[t] = "none" /\ SameCalls(t) /\ queue # <<>> /\ queue' = Tail(queue)
      /\ UNCHANGED <<sendingClosed, receiverGone>> /\ ~live[t] /\ op[t] # "send"
  BY ZenonT(60), ReturnTypes, LookerIsAwake DEF TakeValue, SameCalls, LooksToReceive
<1>10. Wake(one \cup all, "Ready")
  BY ZenonT(60) DEF TakeValue, RoomMade
<1>2. \A u \in Tasks : /\ live'[u] <=> live[u] /\ u \notin one /\ u \notin all
                       /\ woke'[u] = IF u \in one \/ u \in all THEN "Ready" ELSE woke[u]
  BY SMTT(40), <1>10, WakeTypes DEF Woke
<1>9. \A u \in Tasks : u \notin one /\ u \notin all => live'[u] = live[u] /\ woke'[u] = woke[u]
  BY SMTT(40), <1>10, WakeTypes DEF Woke
<1>3. senders \in Seq(Tasks) /\ sendWatchers \in Seq(Tasks) /\ live \in [Tasks -> BOOLEAN]
  BY ZenonT(60) DEF TypeInv, TypeOK
<1>4. all = {u \in Tasks : Has(sendWatchers, u) /\ live[u]}
  BY SMTT(40), <1>3, WakeAllFacts
<1>5. /\ \A u \in one : u \in Tasks /\ live[u] /\ Has(senders, u)
      /\ (\E u \in Tasks : Has(senders, u) /\ live[u]) => \E w \in Tasks : one = {w}
  BY ZenonT(60), <1>3, WakeOneFacts
<1> HIDE DEF one, all
<1>6. /\ \A u \in one : op[u] = "send"
      /\ \A u \in all : op[u] = "select"
      /\ \A u \in Tasks : op[u] = "send" /\ live[u] => Has(senders, u)
      /\ \A u \in Tasks : op[u] = "select" /\ arm[u] = "send" /\ live[u] => u \in all
  BY ZenonT(60), <1>4, <1>5 DEF ListsInv, EntriesAreCurrent, Lists, LiveIsListed
<1>7. NoneWoken("receive")
  BY ZenonT(60), <1>9, <1>6 DEF NoneWoken
<1>8. OneWoken("send")
  <2>1. CASE \A u \in Tasks : op[u] = "send" => ~live[u]
    BY ZenonT(60), <2>1, <1>2 DEF OneWoken
  <2>2. CASE \E u \in Tasks : op[u] = "send" /\ live[u]
    <3>1. PICK w \in Tasks : one = {w}
      BY ZenonT(60), <2>2, <1>5, <1>6
    <3>2. op[w] = "send" /\ live[w] /\ ~live'[w] /\ woke'[w] = "Ready"
      BY ZenonT(60), <3>1, <1>2, <1>5, <1>6
    <3>3. \A u \in Tasks \ {w} : op[u] = "send" => live'[u] = live[u] /\ woke'[u] = woke[u]
      BY ZenonT(60), <3>1, <1>9, <1>6
    <3> QED BY ZenonT(60), <3>2, <3>3 DEF OneWoken
  <2> QED BY ZenonT(60), <2>1, <2>2
<1> QED BY ZenonT(60), <1>1, <1>2, <1>6, <1>7, <1>8 DEF Took

\* value_added wakes one receiver at most, and no sender.
LEMMA PutFacts ==
    ASSUME ListsInv, NEW t \in Tasks, NEW v \in Values, LooksToSend(t), PutValue(t, v)
    PROVE  Put(t)
<1> TypeInv
  BY ZenonT(60) DEF ListsInv
<1> DEFINE one == WokenByOne(receivers, live)
           all == WokenByAll(receiveWatchers, live)
<1>0. queue \in Seq(Values) /\ Capacity \in Nat
  BY ZenonT(60), ChannelsAssumption DEF TypeInv, TypeOK
<1>1. /\ op'[t] = "none" /\ SameCalls(t) /\ Open /\ Len(queue) < Capacity
      /\ queue' \in Seq(Values) /\ Len(queue') = Len(queue) + 1
      /\ UNCHANGED <<sendingClosed, receiverGone>> /\ ~live[t] /\ op[t] # "receive"
  <2>1. op'[t] = "none" /\ SameCalls(t)
    BY ZenonT(60), ReturnTypes DEF PutValue, SameCalls
  <2>2. Open /\ Len(queue) < Capacity
    BY SMTT(40), <1>0 DEF PutValue, Full
  <2>3. queue' \in Seq(Values) /\ Len(queue') = Len(queue) + 1
    BY SMTT(40), <1>0 DEF PutValue
  <2>4. ~live[t] /\ op[t] # "receive"
    BY ZenonT(60), LookerIsAwake DEF LooksToSend
  <2> QED BY ZenonT(60), <2>1, <2>2, <2>3, <2>4 DEF PutValue
<1>10. Wake(one \cup all, "Ready")
  BY ZenonT(60) DEF PutValue, ValueAdded
<1>2. \A u \in Tasks : /\ live'[u] <=> live[u] /\ u \notin one /\ u \notin all
                       /\ woke'[u] = IF u \in one \/ u \in all THEN "Ready" ELSE woke[u]
  BY SMTT(40), <1>10, WakeTypes DEF Woke
<1>9. \A u \in Tasks : u \notin one /\ u \notin all => live'[u] = live[u] /\ woke'[u] = woke[u]
  BY SMTT(40), <1>10, WakeTypes DEF Woke
<1>3. receivers \in Seq(Tasks) /\ receiveWatchers \in Seq(Tasks) /\ live \in [Tasks -> BOOLEAN]
  BY ZenonT(60) DEF TypeInv, TypeOK
<1>4. all = {u \in Tasks : Has(receiveWatchers, u) /\ live[u]}
  BY SMTT(40), <1>3, WakeAllFacts
<1>5. /\ \A u \in one : u \in Tasks /\ live[u] /\ Has(receivers, u)
      /\ (\E u \in Tasks : Has(receivers, u) /\ live[u]) => \E w \in Tasks : one = {w}
  BY ZenonT(60), <1>3, WakeOneFacts
<1> HIDE DEF one, all
<1>6. /\ \A u \in one : op[u] = "receive"
      /\ \A u \in all : op[u] = "select"
      /\ \A u \in Tasks : op[u] = "receive" /\ live[u] => Has(receivers, u)
      /\ \A u \in Tasks : op[u] = "select" /\ arm[u] = "receive" /\ live[u] => u \in all
  BY ZenonT(60), <1>4, <1>5 DEF ListsInv, EntriesAreCurrent, Lists, LiveIsListed
<1>7. NoneWoken("send")
  BY ZenonT(60), <1>9, <1>6 DEF NoneWoken
<1>8. OneWoken("receive")
  <2>1. CASE \A u \in Tasks : op[u] = "receive" => ~live[u]
    BY ZenonT(60), <2>1, <1>2 DEF OneWoken
  <2>2. CASE \E u \in Tasks : op[u] = "receive" /\ live[u]
    <3>1. PICK w \in Tasks : one = {w}
      BY ZenonT(60), <2>2, <1>5, <1>6
    <3>2. op[w] = "receive" /\ live[w] /\ ~live'[w] /\ woke'[w] = "Ready"
      BY ZenonT(60), <3>1, <1>2, <1>5, <1>6
    <3>3. \A u \in Tasks \ {w} : op[u] = "receive" => live'[u] = live[u] /\ woke'[u] = woke[u]
      BY ZenonT(60), <3>1, <1>9, <1>6
    <3> QED BY ZenonT(60), <3>2, <3>3 DEF OneWoken
  <2> QED BY ZenonT(60), <2>1, <2>2
<1> QED BY ZenonT(60), <1>1, <1>2, <1>6, <1>7, <1>8 DEF Put

\* Every step is one of the changes above.
LEMMA StepChanges ==
    ASSUME ListsInv, [Next]_vars
    PROVE  Changes
<1> TypeInv /\ live \in [Tasks -> BOOLEAN] /\ op \in [Tasks -> Ops] /\ woke \in [Tasks -> Woke]
    /\ arm \in [Tasks -> Arms]
  BY ZenonT(60) DEF ListsInv, TypeInv, TypeOK
<1> queue \in Seq(Values) /\ Capacity \in Nat
  BY ZenonT(60), ChannelsAssumption DEF TypeInv, TypeOK
<1>1. ASSUME NEW t \in Tasks, LooksToReceive(t), TakeValue(t) PROVE Changes
  BY ZenonT(60), <1>1, TookFacts DEF Changes
<1>2. ASSUME NEW t \in Tasks, LooksToReceive(t), queue = <<>> \/ woke[t] = "Cancelled", ReceiveFails(t)
      PROVE Changes
  <2>1. GaveUp(t)
    BY ZenonT(60), <1>2, ReturnTypes, LookerIsAwake DEF ReceiveFails, GaveUp, LooksToReceive, SameCalls, state, waits
  <2> QED BY ZenonT(60), <2>1 DEF Changes
<1>3. ASSUME NEW t \in Tasks, op[t] # "poll", LooksToReceive(t), NEW l \in Limits, WaitForValue(t, l)
      PROVE Changes
  <2>0. StartWait(t) /\ Call(t, "receive", "receive", NoValue, l)
    BY Zenon, <1>3 DEF WaitForValue
  <2>1. op'[t] = "receive" /\ SameCalls(t)
    <3>1. "receive" \in Ops /\ "receive" \in Arms /\ NoValue \in Values \cup {NoValue}
      BY ZenonT(60) DEF Ops, Arms
    <3> QED BY Zenon, <2>0, <3>1, CallTypes DEF SameCalls
  <2>2. \A u \in Tasks \ {t} : live'[u] = live[u] /\ woke'[u] = woke[u]
    BY Zenon, <2>0, StartWaitTypes
  <2>3. ~live[t] /\ op[t] \in {"none", "receive"}
    BY ZenonT(60), <1>3, LookerIsAwake DEF LooksToReceive
  <2>4. BeganWait(t, "receive")
    BY ZenonT(60), <1>3, <2>1, <2>2, <2>3 DEF WaitForValue, BeganWait, state
  <2> QED BY Zenon, <2>4 DEF Changes
<1>4. ASSUME NEW t \in Tasks, LooksToSend(t), NEW v \in Values, PutValue(t, v) PROVE Changes
  BY ZenonT(60), <1>4, PutFacts DEF Changes
<1>5. ASSUME NEW t \in Tasks, LooksToSend(t), ~Open \/ Full \/ woke[t] = "Cancelled", SendFails(t)
      PROVE Changes
  <2>1. GaveUp(t)
    BY ZenonT(60), <1>5, ReturnTypes, LookerIsAwake DEF SendFails, GaveUp, LooksToSend, SameCalls, Full, state, waits
  <2> QED BY ZenonT(60), <2>1 DEF Changes
<1>6. ASSUME NEW t \in Tasks, op[t] # "poll", LooksToSend(t), NEW v \in Values, WaitForRoom(t, v)
      PROVE Changes
  <2>0. StartWait(t) /\ Call(t, "send", "receive", v, "none")
    BY Zenon, <1>6 DEF WaitForRoom
  <2>1. op'[t] = "send" /\ SameCalls(t)
    <3>1. "send" \in Ops /\ "receive" \in Arms /\ "none" \in Limits /\ v \in Values \cup {NoValue}
      BY ZenonT(60) DEF Ops, Arms, Limits
    <3> QED BY ZenonT(60), <2>0, <3>1, CallTypes DEF SameCalls
  <2>2. \A u \in Tasks \ {t} : live'[u] = live[u] /\ woke'[u] = woke[u]
    BY Zenon, <2>0, StartWaitTypes
  <2>3. ~live[t] /\ op[t] \in {"none", "send"}
    BY ZenonT(60), <1>6, LookerIsAwake DEF LooksToSend
  <2>4. BeganWait(t, "send")
    BY ZenonT(60), <1>6, <2>1, <2>2, <2>3 DEF WaitForRoom, BeganWait, Full, state
  <2> QED BY Zenon, <2>4 DEF Changes
<1>7. ASSUME NEW t \in Tasks, NEW a \in Arms, NEW v \in Values \cup {NoValue}, NEW l \in Limits,
             StartSelect(t, a, v, l)
      PROVE Quiet
  <2>1. op[t] = "none" /\ op'[t] = "poll" /\ SameCalls(t)
    BY ZenonT(60), <1>7, CallTypes DEF StartSelect, SameCalls, Ops
  <2> QED BY ZenonT(60), <1>7, <2>1 DEF StartSelect, Quiet, SameCalls, state, waits
<1>8. ASSUME NEW t \in Tasks, SelectReturns(t) PROVE Quiet
  <2>1. op[t] = "poll" /\ op'[t] = "none" /\ SameCalls(t)
    BY ZenonT(60), <1>8, ReturnTypes DEF SelectReturns, SameCalls
  <2> QED BY ZenonT(60), <1>8, <2>1 DEF SelectReturns, Quiet, SameCalls, state, waits
<1>9. ASSUME NEW t \in Tasks, PollGetsNothing(t) PROVE Quiet
  <2>1. op[t] = "poll" /\ op'[t] = "watch" /\ SameCalls(t)
    BY ZenonT(60), <1>9, CallTypes DEF PollGetsNothing, SameCalls, Ops, TypeInv, TypeOK
  <2>2. \A u \in Tasks \ {t} : live'[u] = live[u] /\ woke'[u] = woke[u]
    BY ZenonT(60), <1>9, StartWaitTypes DEF PollGetsNothing
  <2> QED BY ZenonT(60), <1>9, <2>1, <2>2 DEF PollGetsNothing, Quiet, SameCalls, state
<1>10. ASSUME NEW t \in Tasks, Watch(t) PROVE Quiet
  <2>1. CASE ArmReady(arm[t])
    <3>1. op[t] = "watch" /\ op'[t] = "poll" /\ SameCalls(t)
      BY ZenonT(60), <1>10, <2>1 DEF Watch, SameCalls
    <3>2. \A u \in Tasks \ {t} : live'[u] = live[u] /\ woke'[u] = woke[u]
      BY ZenonT(60), <1>10, <2>1, AbandonTypes DEF Watch
    <3> QED BY ZenonT(60), <1>10, <2>1, <3>1, <3>2 DEF Watch, Quiet, SameCalls, state
  <2>2. CASE ~ArmReady(arm[t])
    <3>1. op[t] = "watch" /\ op'[t] = "select" /\ SameCalls(t) /\ arm'[t] = arm[t]
      BY ZenonT(60), <1>10, <2>2 DEF Watch, Watches, SameCalls
    <3> QED BY ZenonT(60), <1>10, <2>2, <3>1 DEF Watch, Watches, Quiet, SameCalls, state, waits
  <2> QED BY ZenonT(60), <2>1, <2>2
<1>11. ASSUME NEW t \in Tasks, OtherSourceReady(t) PROVE Quiet
  <2>1. op[t] \in {"watch", "select"} /\ op'[t] \in {"poll", "select"} /\ SameCalls(t)
    BY ZenonT(60), <1>11 DEF OtherSourceReady, SameCalls
  <2>2. ~live'[t] /\ \A u \in Tasks \ {t} : live'[u] = live[u] /\ woke'[u] = woke[u]
    BY ZenonT(60), <1>11, AbandonTypes DEF OtherSourceReady
  <2> QED BY ZenonT(60), <1>11, <2>1, <2>2 DEF OtherSourceReady, Quiet, SameCalls, state
<1>12. ASSUME NEW t \in Tasks, Unwatch(t) PROVE Quiet
  <2>1. op[t] = "select" /\ op'[t] \in {"poll", "none"} /\ SameCalls(t)
    <3>1. CASE woke[t] = "Cancelled"
      BY ZenonT(60), <1>12, <3>1, ReturnTypes DEF Unwatch, SameCalls
    <3>2. CASE woke[t] # "Cancelled"
      BY ZenonT(60), <1>12, <3>2 DEF Unwatch, SameCalls
    <3> QED BY ZenonT(60), <3>1, <3>2
  <2> QED BY ZenonT(60), <1>12, <2>1 DEF Unwatch, Quiet, SameCalls, state, waits
<1>13. ASSUME NEW t \in Tasks, OtherArmWakes(t) \/ FireTimer(t) PROVE Quiet
  <2>1. PICK how \in Woke : Wake({t}, how)
    BY ZenonT(60), <1>13 DEF OtherArmWakes, FireTimer, Woke
  <2>2. ~live'[t] /\ \A u \in Tasks \ {t} : live'[u] <=> live[u]
    BY ZenonT(60), <2>1, WakeTypes
  <2>3. \A u \in Tasks \ {t} : woke'[u] = woke[u]
    BY ZenonT(60), <2>1, WakeTypes
  <2>4. live[t] /\ UNCHANGED <<state, op, arm>>
    BY ZenonT(60), <1>13 DEF OtherArmWakes, FireTimer, calls
  <2> QED BY ZenonT(60), <2>2, <2>3, <2>4 DEF Quiet, state
<1>14. ASSUME NEW t \in Tasks, Cancel(t) PROVE Quiet
  BY ZenonT(60), <1>14 DEF Cancel, Quiet, state, calls
<1>15. ASSUME NEW t \in Tasks, DeadlinePasses(t) PROVE Quiet
  BY ZenonT(60), <1>15 DEF DeadlinePasses, Quiet, state, waits
<1>16. ASSUME Close \/ ReleaseSender \/ ReleaseReceiver PROVE EveryoneWoken
  <2>1. \A u \in Tasks : live'[u] => live[u] /\ op[u] = "watch"
    BY ZenonT(60), <1>16, EveryoneFacts DEF Close, ReleaseSender, ReleaseReceiver
  <2> QED BY ZenonT(60), <1>16, <2>1 DEF Close, ReleaseSender, ReleaseReceiver, EveryoneWoken, calls
<1>17. CASE UNCHANGED vars
  <2>1. Quiet
    BY ZenonT(60), <1>17 DEF vars, state, lists, calls, waits, Quiet
  <2> QED BY ZenonT(60), <2>1 DEF Changes
<1>18. CASE \E t \in Tasks : Passes(t)
  BY ZenonT(60), <1>18, <1>1, <1>2, <1>3, <1>4, <1>5, <1>6, <1>7, <1>8, <1>9, <1>10, <1>11, <1>12, <1>13, <1>14, <1>15
     DEF Passes, Changes
<1>19. CASE Close \/ ReleaseSender \/ ReleaseReceiver
  BY ZenonT(60), <1>19, <1>16 DEF Changes
<1> QED BY ZenonT(60), StepEffects, <1>17, <1>18, <1>19

-----------------------------------------------------------------------------
(* The invariants.                                                         *)

\* A wait begins only in an open channel, and closing ends them all.
LEMMA ClosedInductive ==
    ASSUME ListsInv, ClosedReleases, Changes
    PROVE  ClosedReleases'
<1>1. ASSUME NEW t \in Tasks, Took(t) PROVE ClosedReleases'
  BY ZenonT(60), <1>1 DEF Took, SameCalls, ClosedReleases
<1>2. ASSUME NEW t \in Tasks, Put(t) PROVE ClosedReleases'
  BY ZenonT(60), <1>2 DEF Put, Open, ClosedReleases
<1>3. ASSUME NEW t \in Tasks, GaveUp(t) PROVE ClosedReleases'
  BY ZenonT(60), <1>3 DEF GaveUp, SameCalls, ClosedReleases
<1>4. ASSUME NEW t \in Tasks, BeganWait(t, "receive") PROVE ClosedReleases'
  BY ZenonT(60), <1>4 DEF BeganWait, SameCalls, ClosedReleases
<1>5. ASSUME NEW t \in Tasks, BeganWait(t, "send") PROVE ClosedReleases'
  BY ZenonT(60), <1>5 DEF BeganWait, Open, ClosedReleases
<1>6. CASE EveryoneWoken
  BY SMTT(40), <1>6 DEF EveryoneWoken, ClosedReleases
<1>7. CASE Quiet
  BY ZenonT(60), <1>7 DEF Quiet, ClosedReleases
<1> QED BY ZenonT(60), <1>1, <1>2, <1>3, <1>4, <1>5, <1>6, <1>7 DEF Changes

\* A value can only arrive while the queue is not full and leave while it is
\* not empty: either way one kind of Select was ready before, the other is woken.
LEMMA NoticesInductive ==
    ASSUME ListsInv, SelectNotices, Changes
    PROVE  SelectNotices'
<1>0. arm \in [Tasks -> {"receive", "send"}] /\ queue \in Seq(Values) /\ Capacity \in Nat
  BY ZenonT(60), ChannelsAssumption DEF ListsInv, TypeInv, TypeOK, Arms
<1>1. ASSUME NEW t \in Tasks, Took(t) PROVE SelectNotices'
  <2>1. \A u \in Tasks : op[u] = "select" => ~live'[u]
    BY ZenonT(60), <1>0, <1>1 DEF Took, SelectNotices, ArmReady
  <2> QED BY ZenonT(60), <1>1, <2>1 DEF Took, SameCalls, SelectNotices
<1>2. ASSUME NEW t \in Tasks, Put(t) PROVE SelectNotices'
  <2>1. Len(queue) \in Nat /\ ~(Len(queue) >= Capacity)
    BY SMTT(40), <1>0, <1>2 DEF Put
  <2>2. \A u \in Tasks : op[u] = "select" => ~live'[u]
    BY ZenonT(60), <1>0, <1>2, <2>1 DEF Put, SelectNotices, ArmReady, Full
  <2> QED BY ZenonT(60), <1>2, <2>2 DEF Put, SameCalls, SelectNotices
<1>3. ASSUME NEW t \in Tasks, GaveUp(t) PROVE SelectNotices'
  BY ZenonT(60), <1>3 DEF GaveUp, SameCalls, SelectNotices, ArmReady, Full, Open
<1>4. ASSUME NEW t \in Tasks, NEW o \in {"receive", "send"}, BeganWait(t, o) PROVE SelectNotices'
  BY ZenonT(60), <1>4 DEF BeganWait, SameCalls, SelectNotices, ArmReady, Full, Open
<1>5. CASE EveryoneWoken
  BY ZenonT(60), <1>5 DEF EveryoneWoken, SelectNotices
<1>6. CASE Quiet
  BY ZenonT(60), <1>6 DEF Quiet, SelectNotices, ArmReady, Full, Open
<1> QED BY ZenonT(60), <1>1, <1>2, <1>3, <1>4, <1>5, <1>6 DEF Changes

\* How the number of tasks on their way back can change.
LEMMA BackCounts ==
    ASSUME NEW o, NEW t
    PROVE  /\ Cardinality(Back(o)) \in Nat /\ Cardinality(Back(o)') \in Nat
           /\ Back(o) \subseteq Back(o)' => Cardinality(Back(o)) <= Cardinality(Back(o)')
           /\ Back(o) \ {t} \subseteq Back(o)' => Cardinality(Back(o)) - 1 <= Cardinality(Back(o)')
           /\ t \notin Back(o) /\ Back(o) \cup {t} \subseteq Back(o)'
                => Cardinality(Back(o)) + 1 <= Cardinality(Back(o)')
<1> DEFINE B == Back(o)
           C == Back(o)'
<1>1. IsFiniteSet(B) /\ IsFiniteSet(C)
  <2>1. B \subseteq Tasks /\ C \subseteq Tasks
    BY ZenonT(60) DEF Back
  <2> QED BY ZenonT(60), <2>1, ChannelsAssumption, FS_Subset
<1> HIDE DEF B, C
<1>2. Cardinality(B) \in Nat /\ Cardinality(C) \in Nat
  BY ZenonT(60), <1>1, FS_CardinalityType
<1>3. B \subseteq C => Cardinality(B) <= Cardinality(C)
  BY ZenonT(60), <1>1, FS_Subset
<1>4. ASSUME B \ {t} \subseteq C PROVE Cardinality(B) - 1 <= Cardinality(C)
  <2>1. IsFiniteSet(B \ {t}) /\ Cardinality(B \ {t}) = IF t \in B THEN Cardinality(B) - 1 ELSE Cardinality(B)
    BY ZenonT(60), <1>1, FS_RemoveElement
  <2>2. Cardinality(B \ {t}) <= Cardinality(C)
    BY ZenonT(60), <1>1, <1>4, FS_Subset
  <2> QED BY SMTT(40), <1>2, <2>1, <2>2
<1>5. ASSUME t \notin B, B \cup {t} \subseteq C PROVE Cardinality(B) + 1 <= Cardinality(C)
  <2>1. Cardinality(B \cup {t}) = Cardinality(B) + 1
    BY ZenonT(60), <1>1, <1>5, FS_AddElement
  <2>2. Cardinality(B \cup {t}) <= Cardinality(C)
    BY ZenonT(60), <1>1, <1>5, FS_Subset
  <2> QED BY ZenonT(60), <2>1, <2>2
<1> QED BY ZenonT(60), <1>2, <1>3, <1>4, <1>5 DEF B, C

\* A value taken is taken by one task on its way back, or by a newcomer; a
\* value put sends one more on its way.
LEMMA ReceiverInductive ==
    ASSUME ListsInv, NoStrandedReceiver, Changes
    PROVE  NoStrandedReceiver'
<1> DEFINE asleep == \E u \in Tasks : op[u] = "receive" /\ live[u]
           back == Back("receive")
<1>0. queue \in Seq(Values) /\ Len(queue) \in Nat
  BY DEF ListsInv, TypeInv, TypeOK
<1>20. ASSUME back \subseteq back', asleep' => asleep, queue' = queue PROVE NoStrandedReceiver'
  <2>1. Cardinality(back) \in Nat /\ Cardinality(back') \in Nat /\ Cardinality(back) <= Cardinality(back')
    BY ZenonT(60), <1>20, BackCounts
  <2>2. asleep' => Len(queue) <= Cardinality(back)
    BY ZenonT(60), <1>20 DEF NoStrandedReceiver
  <2>3. Len(queue') = Len(queue)
    BY ZenonT(60), <1>20
  <2> HIDE DEF asleep, back
  <2>4. asleep' => Len(queue') <= Cardinality(back')
    BY SMTT(40), <1>0, <2>1, <2>2, <2>3
  <2> QED BY ZenonT(60), <2>4 DEF NoStrandedReceiver, asleep, back
<1>1. ASSUME NEW t \in Tasks, Took(t) PROVE NoStrandedReceiver'
  <2>1. asleep' => asleep
    BY ZenonT(60), <1>1 DEF Took, SameCalls
  <2>2. back \ {t} \subseteq back'
    BY ZenonT(60), <1>1 DEF Took, SameCalls, NoneWoken, Back
  <2>3. Len(queue') = Len(queue) - 1
    BY SMTT(40), <1>0, <1>1 DEF Took
  <2>5. Cardinality(back) \in Nat /\ Cardinality(back') \in Nat /\ Cardinality(back) - 1 <= Cardinality(back')
    BY ZenonT(60), <2>2, BackCounts
  <2>6. asleep' => Len(queue) <= Cardinality(back)
    BY ZenonT(60), <2>1 DEF NoStrandedReceiver
  <2> HIDE DEF asleep, back
  <2>7. asleep' => Len(queue') <= Cardinality(back')
    BY SMTT(40), <1>0, <2>3, <2>5, <2>6
  <2> QED BY ZenonT(60), <2>7 DEF NoStrandedReceiver, asleep, back
<1>2. ASSUME NEW t \in Tasks, Put(t), asleep' PROVE NoStrandedReceiver'
  <2>1. asleep
    BY ZenonT(60), <1>2 DEF Put, SameCalls
  <2>2. PICK w \in Tasks :
           /\ op[w] = "receive" /\ live[w] /\ ~live'[w] /\ woke'[w] = "Ready"
           /\ \A u \in Tasks \ {w} : op[u] = "receive" => live'[u] = live[u] /\ woke'[u] = woke[u]
    BY ZenonT(60), <1>2, <2>1 DEF Put, OneWoken
  <2>3. w \notin back /\ back \cup {w} \subseteq back'
    BY ZenonT(60), <1>2, <2>2 DEF Put, SameCalls, Back
  <2>4. Len(queue') = Len(queue) + 1
    BY ZenonT(60), <1>2 DEF Put
  <2>5. Cardinality(back) \in Nat /\ Cardinality(back') \in Nat /\ Cardinality(back) + 1 <= Cardinality(back')
    BY ZenonT(60), <2>3, BackCounts
  <2>6. asleep' => Len(queue) <= Cardinality(back)
    BY ZenonT(60), <2>1 DEF NoStrandedReceiver
  <2> HIDE DEF asleep, back
  <2>7. asleep' => Len(queue') <= Cardinality(back')
    BY SMTT(40), <1>0, <2>4, <2>5, <2>6
  <2> QED BY ZenonT(60), <2>7 DEF NoStrandedReceiver, asleep, back
<1>3. ASSUME NEW t \in Tasks, GaveUp(t) PROVE NoStrandedReceiver'
  <2>1. CASE queue = <<>>
    BY SMTT(40), <1>3, <2>1, BackCounts DEF GaveUp, NoStrandedReceiver
  <2>2. CASE queue # <<>>
    <3>1. back \subseteq back' /\ (asleep' => asleep)
      BY ZenonT(60), <1>3, <2>2 DEF GaveUp, SameCalls, Back
    <3> QED BY ZenonT(60), <1>20, <1>3, <3>1 DEF GaveUp
  <2> QED BY ZenonT(60), <2>1, <2>2
<1>4. ASSUME NEW t \in Tasks, BeganWait(t, "receive") PROVE NoStrandedReceiver'
  BY SMTT(40), <1>4, BackCounts DEF BeganWait, NoStrandedReceiver
<1>5. ASSUME NEW t \in Tasks, BeganWait(t, "send") PROVE NoStrandedReceiver'
  <2>1. back \subseteq back' /\ (asleep' => asleep)
    BY ZenonT(60), <1>5 DEF BeganWait, SameCalls, Back
  <2> QED BY ZenonT(60), <1>20, <1>5, <2>1 DEF BeganWait
<1>6. CASE EveryoneWoken
  BY ZenonT(60), <1>6 DEF EveryoneWoken, NoStrandedReceiver
<1>7. CASE Quiet
  <2>1. back \subseteq back' /\ (asleep' => asleep)
    BY ZenonT(60), <1>7 DEF Quiet, Back
  <2> QED BY ZenonT(60), <1>20, <1>7, <2>1 DEF Quiet
<1>8. ASSUME NEW t \in Tasks, Put(t), ~asleep' PROVE NoStrandedReceiver'
  BY ZenonT(60), <1>8 DEF NoStrandedReceiver
<1> QED BY ZenonT(60), <1>1, <1>2, <1>3, <1>4, <1>5, <1>6, <1>7, <1>8 DEF Changes

\* The same for room.
LEMMA SenderInductive ==
    ASSUME ListsInv, ClosedReleases, NoStrandedSender, Changes
    PROVE  NoStrandedSender'
<1> DEFINE asleep == \E u \in Tasks : op[u] = "send" /\ live[u]
           back == Back("send")
<1>0. queue \in Seq(Values) /\ Len(queue) \in Nat /\ Capacity \in Nat
  BY SMTT(40), ChannelsAssumption DEF ListsInv, TypeInv, TypeOK
<1>20. ASSUME back \subseteq back', asleep' => asleep, queue' = queue PROVE NoStrandedSender'
  <2>1. Cardinality(back) \in Nat /\ Cardinality(back') \in Nat /\ Cardinality(back) <= Cardinality(back')
    BY ZenonT(60), <1>20, BackCounts
  <2>2. asleep' => Capacity - Len(queue) <= Cardinality(back)
    BY ZenonT(60), <1>20 DEF NoStrandedSender
  <2>3. Len(queue') = Len(queue)
    BY ZenonT(60), <1>20
  <2> HIDE DEF asleep, back
  <2>4. asleep' => Capacity - Len(queue') <= Cardinality(back')
    BY SMTT(40), <1>0, <2>1, <2>2, <2>3
  <2> QED BY ZenonT(60), <2>4 DEF NoStrandedSender, asleep, back
<1>21. ASSUME queue' = queue, Len(queue) >= Capacity PROVE NoStrandedSender'
  <2>1. Cardinality(back') \in Nat
    BY ZenonT(60), BackCounts
  <2> HIDE DEF back
  <2>2. Capacity - Len(queue') <= Cardinality(back')
    <3>1. Len(queue') = Len(queue)
      BY ZenonT(60), <1>21
    <3> QED BY SMTT(40), <1>0, <1>21, <2>1, <3>1
  <2> QED BY ZenonT(60), <2>2 DEF NoStrandedSender, back
<1>1. ASSUME NEW t \in Tasks, Took(t), asleep' PROVE NoStrandedSender'
  <2>1. asleep
    BY ZenonT(60), <1>1 DEF Took, SameCalls
  <2>2. PICK w \in Tasks :
           /\ op[w] = "send" /\ live[w] /\ ~live'[w] /\ woke'[w] = "Ready"
           /\ \A u \in Tasks \ {w} : op[u] = "send" => live'[u] = live[u] /\ woke'[u] = woke[u]
    BY ZenonT(60), <1>1, <2>1 DEF Took, OneWoken
  <2>3. w \notin back /\ back \cup {w} \subseteq back'
    BY ZenonT(60), <1>1, <2>2 DEF Took, SameCalls, Back
  <2>4. Len(queue') = Len(queue) - 1
    BY SMTT(40), <1>0, <1>1 DEF Took
  <2>5. Cardinality(back) \in Nat /\ Cardinality(back') \in Nat /\ Cardinality(back) + 1 <= Cardinality(back')
    BY ZenonT(60), <2>3, BackCounts
  <2>6. asleep' => Capacity - Len(queue) <= Cardinality(back)
    BY ZenonT(60), <2>1 DEF NoStrandedSender
  <2> HIDE DEF asleep, back
  <2>7. asleep' => Capacity - Len(queue') <= Cardinality(back')
    BY SMTT(40), <1>0, <2>4, <2>5, <2>6
  <2> QED BY ZenonT(60), <2>7 DEF NoStrandedSender, asleep, back
<1>2. ASSUME NEW t \in Tasks, Put(t) PROVE NoStrandedSender'
  <2>1. asleep' => asleep
    BY ZenonT(60), <1>2 DEF Put, SameCalls
  <2>2. back \ {t} \subseteq back'
    BY ZenonT(60), <1>2 DEF Put, SameCalls, NoneWoken, Back
  <2>3. Len(queue') = Len(queue) + 1
    BY ZenonT(60), <1>2 DEF Put
  <2>5. Cardinality(back) \in Nat /\ Cardinality(back') \in Nat /\ Cardinality(back) - 1 <= Cardinality(back')
    BY ZenonT(60), <2>2, BackCounts
  <2>6. asleep' => Capacity - Len(queue) <= Cardinality(back)
    BY ZenonT(60), <2>1 DEF NoStrandedSender
  <2> HIDE DEF asleep, back
  <2>7. asleep' => Capacity - Len(queue') <= Cardinality(back')
    BY SMTT(40), <1>0, <2>3, <2>5, <2>6
  <2> QED BY ZenonT(60), <2>7 DEF NoStrandedSender, asleep, back
<1>3. ASSUME NEW t \in Tasks, GaveUp(t), Len(queue) >= Capacity PROVE NoStrandedSender'
  BY ZenonT(60), <1>3, <1>21 DEF GaveUp
<1>4. ASSUME NEW t \in Tasks, GaveUp(t), Len(queue) < Capacity, Open PROVE NoStrandedSender'
  <2>1. back \subseteq back' /\ (asleep' => asleep)
    BY SMTT(40), <1>0, <1>4 DEF GaveUp, SameCalls, Back
  <2> QED BY ZenonT(60), <1>20, <1>4, <2>1 DEF GaveUp
<1>5. ASSUME NEW t \in Tasks, BeganWait(t, "send") PROVE NoStrandedSender'
  BY ZenonT(60), <1>5, <1>21 DEF BeganWait
<1>6. ASSUME NEW t \in Tasks, BeganWait(t, "receive") PROVE NoStrandedSender'
  <2>1. back \subseteq back' /\ (asleep' => asleep)
    BY ZenonT(60), <1>6 DEF BeganWait, SameCalls, Back
  <2> QED BY ZenonT(60), <1>20, <1>6, <2>1 DEF BeganWait
<1>7. CASE EveryoneWoken
  BY ZenonT(60), <1>7 DEF EveryoneWoken, NoStrandedSender
<1>8. CASE Quiet
  <2>1. back \subseteq back' /\ (asleep' => asleep)
    BY ZenonT(60), <1>8 DEF Quiet, Back
  <2> QED BY ZenonT(60), <1>20, <1>8, <2>1 DEF Quiet
<1>9. ASSUME NEW t \in Tasks, Took(t), ~asleep' PROVE NoStrandedSender'
  BY ZenonT(60), <1>9 DEF NoStrandedSender
<1>11. ASSUME NEW t \in Tasks, GaveUp(t), ~Open PROVE NoStrandedSender'
  BY ZenonT(60), <1>11 DEF GaveUp, SameCalls, Open, ClosedReleases, NoStrandedSender
<1>10. Len(queue) >= Capacity \/ Len(queue) < Capacity
  BY SMTT(40), <1>0
<1> QED BY ZenonT(60), <1>1, <1>2, <1>3, <1>4, <1>5, <1>6, <1>7, <1>8, <1>9, <1>10, <1>11 DEF Changes
\* The invariants together; a sender that gives up on a closed channel is why
\* NoStrandedSender needs ClosedReleases.
SleepInv ==
    /\ ListsInv /\ ClosedReleases /\ SelectNotices
    /\ NoStrandedReceiver /\ NoStrandedSender

\* Nobody waits at first.
LEMMA SleepInitially == Init => SleepInv
<1> SUFFICES ASSUME Init PROVE SleepInv
  OBVIOUS
<1>1. \A t \in Tasks : ~live[t]
  BY ZenonT(60) DEF Init
<1> QED BY Zenon, <1>1, ListsInitially DEF Init, SleepInv, ClosedReleases, SelectNotices,
          NoStrandedReceiver, NoStrandedSender

\* SleepInv always holds.
LEMMA SleepInvariant == Spec => []SleepInv
<1>1. SleepInv /\ [Next]_vars => SleepInv'
  BY ZenonT(60), ListsInductive, StepChanges, ClosedInductive, NoticesInductive, ReceiverInductive,
     SenderInductive DEF SleepInv
<1> QED BY SleepInitially, <1>1, PTL DEF Spec

\* For any tasks, values and capacity: while a receiver sleeps in
\* roc_channel_receive, every queued value has a woken receiver coming for it.
THEOREM NoReceiverStranded == Spec => []NoStrandedReceiver
<1>1. SleepInv => NoStrandedReceiver
  BY ZenonT(60) DEF SleepInv
<1> QED BY <1>1, SleepInvariant, PTL

\* Likewise for a sender in roc_channel_send and the room in the queue.
THEOREM NoSenderStranded == Spec => []NoStrandedSender
<1>1. SleepInv => NoStrandedSender
  BY ZenonT(60) DEF SleepInv
<1> QED BY <1>1, SleepInvariant, PTL

\* A Select never sleeps through its arm being ready: `watch` looks before it
\* adds its waker, and value_added, room_made and wake_everyone wake it.
THEOREM SelectsNotice == Spec => []SelectNotices
<1>1. SleepInv => SelectNotices
  BY ZenonT(60) DEF SleepInv
<1> QED BY <1>1, SleepInvariant, PTL

\* Nobody sleeps in a channel that was closed or lost its receiver.
THEOREM ClosingReleases == Spec => []ClosedReleases
<1>1. SleepInv => ClosedReleases
  BY ZenonT(60) DEF SleepInv
<1> QED BY <1>1, SleepInvariant, PTL

\* No call of roc_channel_send or roc_channel_receive sleeps on beside what it
\* waits for: the three facts above, together.
THEOREM NobodyIsStranded == Spec => []NobodyStranded
<1>1. SleepInv => NobodyStranded
  BY ZenonT(60) DEF SleepInv, NobodyStranded
<1> QED BY <1>1, SleepInvariant, PTL

=============================================================================
