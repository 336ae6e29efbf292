--------------------------- MODULE WaitersProofs ---------------------------
(***************************************************************************)
(* What the operations of `Waiters` (src/src/sched.rs) do to a list, in    *)
(* terms of the tasks on it.                                               *)
(***************************************************************************)
EXTENDS Waiters, WellFoundedInduction, TLAPS

\* A set of natural numbers that is not empty has a least element.
LEMMA LeastNatural ==
    ASSUME NEW S \in SUBSET Nat, S # {}
    PROVE  \E n \in S : \A m \in S : n <= m
<1> DEFINE R == OpToRel(<, Nat)
<1>1. \E n \in S : \A m \in S : ~(<<m, n>> \in R)
  BY NatLessThanWellFounded, WFMin
<1>2. PICK n \in S : \A m \in S : ~(<<m, n>> \in R)
  BY <1>1
<1>3. \A m \in S : n <= m
  <2> TAKE m \in S
  <2>1. ~(m < n)
    BY ZenonT(60), <1>2 DEF OpToRel
  <2> QED BY <2>1
<1> QED BY <1>3

\* wake_one stops at the first task that is still waiting.
LEMMA PoppedIsFirst ==
    ASSUME NEW T, NEW list \in Seq(T), NEW live \in [T -> BOOLEAN], Waiting(list, live) # {}
    PROVE  /\ Popped(list, live) \in Waiting(list, live)
           /\ \A j \in Waiting(list, live) : Popped(list, live) <= j
<1> DEFINE W == Waiting(list, live)
<1>1. W \in SUBSET Nat
  BY DEF Waiting
<1>2. \E i \in W : \A j \in W : i <= j
  <2> HIDE DEF W
  <2> QED BY ZenonT(60), <1>1, LeastNatural DEF W
<1>3. Popped(list, live) = CHOOSE i \in W : \A j \in W : i <= j
  BY DEF Popped
<1> HIDE DEF W
<1> QED BY <1>2, <1>3 DEF W

\* wake_one wakes a task if any on the list is waiting, and only one that is;
\* whoever goes on waiting stays on the list.
LEMMA WakeOneFacts ==
    ASSUME NEW T, NEW list \in Seq(T), NEW live \in [T -> BOOLEAN]
    PROVE  /\ LeftByOne(list, live) \in Seq(T)
           /\ \A t \in T : Has(LeftByOne(list, live), t) => Has(list, t)
           /\ Once(list) => Once(LeftByOne(list, live))
           /\ \A t \in T : Has(list, t) /\ live[t]
                             => Has(LeftByOne(list, live), t) \/ t \in WokenByOne(list, live)
           /\ \A t \in WokenByOne(list, live) : t \in T /\ live[t] /\ Has(list, t)
           /\ (\E t \in T : Has(list, t) /\ live[t]) => \E u \in T : WokenByOne(list, live) = {u}
           /\ (\A t \in T : Has(list, t) => ~live[t]) => WokenByOne(list, live) = {}
           /\ WokenByOne(list, live) = {} \/ \E u \in T : WokenByOne(list, live) = {u}
<1> DEFINE p == Popped(list, live)
           left == LeftByOne(list, live)
           woken == WokenByOne(list, live)
           W == Waiting(list, live)
<1>1. /\ p \in 0..Len(list)
      /\ W # {} => p \in W /\ \A j \in W : p <= j
  <2>1. CASE W = {}
    BY <2>1 DEF Popped
  <2>2. CASE W # {}
    <3>1. p \in W /\ \A j \in W : p <= j
      BY <2>2, PoppedIsFirst
    <3> QED BY <3>1 DEF Waiting
  <2> QED BY <2>1, <2>2
<1>2. \A i \in W : i \in 1..Len(list) /\ live[list[i]] /\ list[i] \in T
  BY DEF Waiting
<1>3. \A i \in 1..Len(list) : live[list[i]] => i \in W
  BY DEF Waiting
<1>4. woken = {list[i] : i \in W \cap {p}}
  BY DEF WokenByOne
<1>5. left = SubSeq(list, p + 1, Len(list))
  BY DEF LeftByOne
<1> HIDE DEF p, left, woken, W
<1>6. /\ left \in Seq(T)
      /\ Len(left) = Len(list) - p
      /\ \A i \in 1..Len(left) : left[i] = list[p + i]
  BY <1>1, <1>5
<1>61. \A i \in 1..Len(left) : p + i \in 1..Len(list)
  BY <1>1, <1>6
<1>62. DOMAIN left = 1..Len(left) /\ DOMAIN list = 1..Len(list)
  BY <1>6
<1>7. \A t \in T : Has(left, t) => Has(list, t)
  BY <1>6, <1>61, <1>62 DEF Has
<1>8. Once(list) => Once(left)
  <2> SUFFICES ASSUME Once(list), NEW i \in 1..Len(left), NEW j \in 1..Len(left), left[i] = left[j]
               PROVE  i = j
    BY <1>62 DEF Once
  <2>1. list[p + i] = list[p + j]
    BY <1>6
  <2>2. p + i = p + j
    BY <2>1, <1>61, <1>62 DEF Once
  <2> QED BY <2>2, <1>1, <1>6
<1>9. \A t \in T : Has(list, t) /\ live[t] => Has(left, t) \/ t \in woken
  <2> SUFFICES ASSUME NEW t \in T, NEW i \in 1..Len(list), list[i] = t, live[t], t \notin woken
               PROVE  Has(left, t)
    BY DEF Has
  <2>1. i \in W /\ i # p
    BY <1>3, <1>4
  <2>2. i > p
    BY <2>1, <1>1
  <2>3. i - p \in 1..Len(left) /\ left[i - p] = t
    BY <2>2, <1>1, <1>6
  <2> QED BY <2>3, <1>6 DEF Has
<1>10. \A t \in woken : t \in T /\ live[t] /\ Has(list, t)
  BY <1>2, <1>4 DEF Has
<1>11. W # {} => \E u \in T : woken = {u}
  BY <1>1, <1>2, <1>4
<1>12. W = {} => woken = {}
  BY <1>4
<1>13. (\E t \in T : Has(list, t) /\ live[t]) => W # {}
  BY <1>3 DEF Has
<1>14. (\A t \in T : Has(list, t) => ~live[t]) => W = {}
  BY <1>2 DEF Has
<1> QED BY <1>6, <1>7, <1>8, <1>9, <1>10, <1>11, <1>12, <1>13, <1>14 DEF left, woken

\* wake_all wakes every task on the list that is waiting.
LEMMA WakeAllFacts ==
    ASSUME NEW T, NEW list \in Seq(T), NEW live \in [T -> BOOLEAN]
    PROVE  WokenByAll(list, live) = {t \in T : Has(list, t) /\ live[t]}
BY DEF WokenByAll, Waiting, Has

\* add puts a task on the list.
LEMMA AddFacts ==
    ASSUME NEW T, NEW list \in Seq(T), NEW t \in T
    PROVE  /\ Add(list, t) \in Seq(T)
           /\ \A u \in T : Has(Add(list, t), u) <=> Has(list, u) \/ u = t
           /\ Once(list) /\ ~Has(list, t) => Once(Add(list, t))
<1> DEFINE l == Add(list, t)
<1>1. /\ l \in Seq(T) /\ Len(l) = Len(list) + 1 /\ l[Len(list) + 1] = t
      /\ \A i \in 1..Len(list) : l[i] = list[i]
  BY DEF Add
<1> HIDE DEF l
<1>2. \A u \in T : Has(l, u) <=> Has(list, u) \/ u = t
  <2> SUFFICES ASSUME NEW u \in T PROVE Has(l, u) <=> Has(list, u) \/ u = t
    OBVIOUS
  <2>1. ASSUME Has(l, u) PROVE Has(list, u) \/ u = t
    BY <1>1, <2>1 DEF Has
  <2>2. ASSUME Has(list, u) PROVE Has(l, u)
    BY <1>1, <2>2 DEF Has
  <2>3. ASSUME u = t PROVE Has(l, u)
    BY <1>1, <2>3 DEF Has
  <2> QED BY <2>1, <2>2, <2>3
<1>3. Once(list) /\ ~Has(list, t) => Once(l)
  BY <1>1 DEF Once, Has
<1> QED BY <1>1, <1>2, <1>3 DEF l

\* remove takes the task off the list and leaves the others.
LEMMA RemoveFacts ==
    ASSUME NEW T, NEW list \in Seq(T), NEW t \in T
    PROVE  /\ Remove(list, t) \in Seq(T)
           /\ \A u \in T : Has(Remove(list, t), u) => Has(list, u)
           /\ \A u \in T : Has(list, u) /\ u # t => Has(Remove(list, t), u)
           /\ Once(list) => Once(Remove(list, t)) /\ ~Has(Remove(list, t), t)
<1> DEFINE l == Remove(list, t)
<1>1. CASE ~Has(list, t)
  BY <1>1 DEF Remove
<1>2. CASE Has(list, t)
  <2> DEFINE k == CHOOSE i \in DOMAIN list : list[i] = t
  <2>1. k \in 1..Len(list) /\ list[k] = t
    BY <1>2 DEF Has
  <2>2. l = SubSeq(list, 1, k - 1) \o SubSeq(list, k + 1, Len(list))
    BY ZenonT(60), <1>2 DEF Remove
  <2> HIDE DEF k, l
  <2> DEFINE a == SubSeq(list, 1, k - 1)
             b == SubSeq(list, k + 1, Len(list))
  <2>3. a \in Seq(T) /\ Len(a) = k - 1 /\ \A i \in 1..(k - 1) : a[i] = list[i]
    BY <2>1
  <2>4. /\ b \in Seq(T) /\ Len(b) = Len(list) - k
        /\ \A i \in 1..(Len(list) - k) : b[i] = list[k + i]
    BY <2>1
  <2> HIDE DEF a, b
  <2>40. k \in Nat /\ Len(list) \in Nat /\ 1 <= k /\ k <= Len(list)
    BY <2>1
  <2>41. a \o b \in Seq(T) /\ Len(a \o b) = Len(list) - 1
    <3>1. a \in Seq(T) /\ b \in Seq(T)
      BY <2>3, <2>4
    <3>2. a \o b \in Seq(T) /\ Len(a \o b) = Len(a) + Len(b)
      BY <3>1
    <3> QED BY <3>2, <2>40, <2>3, <2>4
  <2>42. ASSUME NEW i \in 1..(k - 1) PROVE (a \o b)[i] = list[i]
    BY <2>40, <2>3, <2>4
  <2>43. ASSUME NEW i \in k..(Len(list) - 1) PROVE (a \o b)[i] = list[i + 1]
    <3>1. i - (k - 1) \in 1..Len(b) /\ k + (i - (k - 1)) = i + 1
      BY <2>40, <2>4
    <3>2. (a \o b)[i] = b[i - (k - 1)]
      BY <3>1, <2>40, <2>3, <2>4
    <3>3. b[i - (k - 1)] = list[k + (i - (k - 1))]
      BY <3>1, <2>4
    <3> QED BY <3>1, <3>2, <3>3
  <2>5. /\ l \in Seq(T) /\ Len(l) = Len(list) - 1
        /\ \A i \in 1..(k - 1) : l[i] = list[i]
        /\ \A i \in k..(Len(list) - 1) : l[i] = list[i + 1]
    BY ZenonT(60), <2>2, <2>41, <2>42, <2>43 DEF a, b
  <2>6. \A u \in T : Has(l, u) => Has(list, u)
    BY <2>1, <2>5 DEF Has
  <2>7. ASSUME NEW u \in T, Has(list, u), u # t PROVE Has(l, u)
    <3>1. PICK i \in 1..Len(list) : list[i] = u
      BY <2>7 DEF Has
    <3>2. CASE i < k
      BY <3>1, <3>2, <2>1, <2>5 DEF Has
    <3>3. CASE i > k
      <4>1. i - 1 \in 1..Len(l) /\ l[i - 1] = u
        BY <3>1, <3>3, <2>1, <2>5
      <4> QED BY <4>1, <2>5 DEF Has
    <3> QED BY <3>1, <3>2, <3>3, <2>1, <2>7
  <2>8. ASSUME Once(list) PROVE Once(l) /\ ~Has(l, t)
    <3> DEFINE at(i) == IF i < k THEN i ELSE i + 1
    <3>1. \A i \in 1..Len(l) : at(i) \in 1..Len(list) /\ at(i) # k /\ l[i] = list[at(i)]
      <4> TAKE i \in 1..Len(l)
      <4>1. CASE i < k
        BY <4>1, <2>40, <2>5
      <4>2. CASE i >= k
        BY <4>2, <2>40, <2>5
      <4> QED BY <4>1, <4>2, <2>40
    <3>2. \A i, j \in 1..Len(l) : at(i) = at(j) => i = j
      BY <2>40, <2>5
    <3> HIDE DEF at
    <3>3. DOMAIN l = 1..Len(l) /\ DOMAIN list = 1..Len(list)
      BY <2>5
    <3>4. Once(l)
      BY <3>1, <3>2, <3>3, <2>8 DEF Once
    <3>5. ~Has(l, t)
      BY <3>1, <3>3, <2>1, <2>8 DEF Once, Has
    <3> QED BY <3>4, <3>5
  <2> QED BY <2>5, <2>6, <2>7, <2>8 DEF l
<1> QED BY <1>1, <1>2
=============================================================================
