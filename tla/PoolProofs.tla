----------------------------- MODULE PoolProofs -----------------------------
(***************************************************************************)
(* For any tasks and any number of places: the waiting list of a pool is   *)
(* current, and no free place is missed by a task that sleeps for one.     *)
(***************************************************************************)
EXTENDS Pool, WaitersProofs, FiniteSetTheorems, TLAPS

Woken == {t \in Tasks : claim[t] = "woken"}
SomeAsleep == \E t \in Tasks : claim[t] = "asleep"

\* A free place is missed only through the list, so the list's part is needed.
PoolInv == TypeOK /\ ListIsCurrent /\ NoneStranded

\* Every task but one keeps its claim.
Others(t) == \A u \in Tasks \ {t} : claim'[u] = claim[u]

-----------------------------------------------------------------------------
(* What the steps do.                                                      *)

\* One pass of the loop, of a newcomer or of a task that was woken.
LEMMA PassFacts ==
    ASSUME PoolAssumption, TypeOK, NEW t \in Tasks, NEW l \in {"none", "ahead", "passed"}, Pass(t, l)
    PROVE  /\ TypeOK' /\ Others(t)
           /\ \/ /\ taken < Size /\ taken' = taken + 1 /\ claim'[t] = "none"
                 /\ waiters' = Remove(waiters, t)
              \/ /\ taken = Size /\ taken' = taken /\ claim'[t] = "none"
                 /\ waiters' = Remove(waiters, t)
              \/ /\ taken = Size /\ taken' = taken /\ claim'[t] \in {"asleep", "cancelled"}
                 /\ waiters' = Add(Remove(waiters, t), t)
<1>1. CASE Take(t)
  BY <1>1, RemoveFacts DEF Take, TypeOK, PoolAssumption, Others
<1>2. CASE taken >= Size /\ l = "passed" /\ Fail(t)
  BY <1>2, RemoveFacts DEF Fail, TypeOK, PoolAssumption, Others
<1>3. CASE Wait(t, l)
  <2>1. Remove(waiters, t) \in Seq(Tasks) /\ Add(Remove(waiters, t), t) \in Seq(Tasks)
    BY RemoveFacts, AddFacts DEF TypeOK
  <2>2. TypeOK'
    BY <1>3, <2>1 DEF Wait, TypeOK, PoolAssumption
  <2> QED BY <1>3, <2>2 DEF Wait, TypeOK, PoolAssumption, Others
<1> QED BY <1>1, <1>2, <1>3 DEF Pass

\* Drop of a guard, a slot or a reservation.
LEMMA GiveBackFacts ==
    ASSUME PoolAssumption, TypeOK, ListIsCurrent, GiveBack
    PROVE  /\ TypeOK' /\ taken' = taken - 1
           /\ waiters' = LeftByOne(waiters, Asleep)
           /\ SomeAsleep => \E w \in Tasks : claim[w] = "asleep" /\ claim'[w] = "woken" /\ Others(w)
           /\ ~SomeAsleep => claim' = claim
           /\ \A t \in Tasks : \/ claim'[t] = claim[t]
                               \/ claim[t] = "asleep" /\ claim'[t] = "woken"
           /\ \A t \in Tasks : claim'[t] = "asleep" => Has(waiters', t)
<1> DEFINE woken == WokenByOne(waiters, Asleep)
<1>1. Asleep \in [Tasks -> BOOLEAN] /\ waiters \in Seq(Tasks) /\ \A t \in Tasks : Asleep[t] <=> claim[t] = "asleep"
  BY Zenon DEF Asleep, TypeOK
<1>2. /\ LeftByOne(waiters, Asleep) \in Seq(Tasks)
      /\ \A t \in Tasks : Has(waiters, t) /\ Asleep[t] => Has(LeftByOne(waiters, Asleep), t) \/ t \in woken
      /\ \A t \in woken : t \in Tasks /\ Asleep[t] /\ Has(waiters, t)
      /\ (\E t \in Tasks : Has(waiters, t) /\ Asleep[t]) => \E u \in Tasks : woken = {u}
  BY <1>1, WakeOneFacts
<1> HIDE DEF woken
<1>3. /\ taken' = taken - 1 /\ waiters' = LeftByOne(waiters, Asleep) /\ limit' = limit /\ cancelled' = cancelled
      /\ claim' = [t \in Tasks |-> IF t \in woken THEN "woken" ELSE claim[t]]
      /\ taken > 0
  BY DEF GiveBack, woken
<1>4. TypeOK'
  BY <1>2, <1>3 DEF TypeOK, PoolAssumption
<1>5. \A t \in Tasks : IF t \in woken THEN claim'[t] = "woken" /\ claim[t] = "asleep" ELSE claim'[t] = claim[t]
  BY <1>1, <1>2, <1>3
<1>6. ASSUME SomeAsleep PROVE \E w \in Tasks : claim[w] = "asleep" /\ claim'[w] = "woken" /\ Others(w)
  <2>1. \E t \in Tasks : Has(waiters, t) /\ Asleep[t]
    BY <1>1, <1>6 DEF SomeAsleep, ListIsCurrent
  <2>2. PICK w \in Tasks : woken = {w}
    BY <1>2, <2>1
  <2> QED BY <1>5, <2>2 DEF Others
<1>7. ASSUME ~SomeAsleep PROVE claim' = claim
  <2>1. woken = {}
    BY <1>1, <1>2, <1>7 DEF SomeAsleep
  <2> QED BY <1>3, <2>1 DEF TypeOK
<1>8. \A t \in Tasks : claim'[t] = "asleep" => Has(waiters', t)
  BY <1>1, <1>2, <1>3, <1>5 DEF ListIsCurrent
<1> QED BY <1>3, <1>4, <1>5, <1>6, <1>7, <1>8

\* How the number of woken tasks can change.
LEMMA WokenCounts ==
    ASSUME PoolAssumption, NEW t
    PROVE  /\ Cardinality(Woken) \in Nat /\ Cardinality(Woken') \in Nat
           /\ Woken \subseteq Woken' => Cardinality(Woken) <= Cardinality(Woken')
           /\ Woken \ {t} \subseteq Woken' => Cardinality(Woken) - 1 <= Cardinality(Woken')
           /\ t \notin Woken /\ Woken \cup {t} \subseteq Woken'
                => Cardinality(Woken) + 1 <= Cardinality(Woken')
<1> DEFINE B == Woken
           C == Woken'
<1>1. IsFiniteSet(B) /\ IsFiniteSet(C)
  <2>1. B \subseteq Tasks /\ C \subseteq Tasks
    BY DEF Woken
  <2> QED BY <2>1, FS_Subset DEF PoolAssumption
<1> HIDE DEF B, C
<1>2. Cardinality(B) \in Nat /\ Cardinality(C) \in Nat
  BY <1>1, FS_CardinalityType
<1>3. B \subseteq C => Cardinality(B) <= Cardinality(C)
  BY <1>1, FS_Subset
<1>4. ASSUME B \ {t} \subseteq C PROVE Cardinality(B) - 1 <= Cardinality(C)
  <2>1. Cardinality(B \ {t}) = IF t \in B THEN Cardinality(B) - 1 ELSE Cardinality(B)
    BY Zenon, <1>1, FS_RemoveElement
  <2>2. Cardinality(B \ {t}) <= Cardinality(C)
    BY <1>1, <1>4, FS_Subset
  <2> QED BY <1>2, <2>1, <2>2
<1>5. ASSUME t \notin B, B \cup {t} \subseteq C PROVE Cardinality(B) + 1 <= Cardinality(C)
  <2>1. Cardinality(B \cup {t}) = Cardinality(B) + 1
    BY ZenonT(60), <1>1, <1>5, FS_AddElement
  <2>2. Cardinality(B \cup {t}) <= Cardinality(C)
    BY <1>1, <1>5, FS_Subset
  <2> QED BY <2>1, <2>2
<1> QED BY <1>2, <1>3, <1>4, <1>5 DEF B, C

-----------------------------------------------------------------------------
(* The invariant, one conjunct at a time.                                  *)

\* A pass keeps the list current, and takes a free place from those coming for
\* one at most together with one of them.
LEMMA PassInductive ==
    ASSUME PoolAssumption, PoolInv, NEW t \in Tasks, NEW l \in {"none", "ahead", "passed"}, Pass(t, l)
    PROVE  PoolInv'
<1>1. TypeOK /\ ListIsCurrent /\ NoneStranded
  BY DEF PoolInv
<1>2. /\ TypeOK' /\ Others(t)
      /\ \/ /\ taken < Size /\ taken' = taken + 1 /\ claim'[t] = "none"
            /\ waiters' = Remove(waiters, t)
         \/ /\ taken = Size /\ taken' = taken /\ claim'[t] = "none"
            /\ waiters' = Remove(waiters, t)
         \/ /\ taken = Size /\ taken' = taken /\ claim'[t] \in {"asleep", "cancelled"}
            /\ waiters' = Add(Remove(waiters, t), t)
  BY <1>1, PassFacts
<1>3. ListIsCurrent'
  <2>1. /\ Remove(waiters, t) \in Seq(Tasks)
        /\ \A u \in Tasks : Has(Remove(waiters, t), u) => Has(waiters, u)
        /\ \A u \in Tasks : Has(waiters, u) /\ u # t => Has(Remove(waiters, t), u)
        /\ Once(Remove(waiters, t)) /\ ~Has(Remove(waiters, t), t)
    BY <1>1, RemoveFacts DEF TypeOK, ListIsCurrent
  <2>2. CASE waiters' = Remove(waiters, t) /\ claim'[t] = "none"
    BY ZenonT(60), <1>1, <1>2, <2>1, <2>2 DEF ListIsCurrent, Others
  <2>3. CASE waiters' = Add(Remove(waiters, t), t) /\ claim'[t] \in {"asleep", "cancelled"}
    <3>1. /\ \A u \in Tasks : Has(waiters', u) <=> Has(Remove(waiters, t), u) \/ u = t
          /\ Once(waiters')
      BY ZenonT(60), <2>1, <2>3, AddFacts
    <3> QED BY <1>1, <1>2, <2>1, <2>3, <3>1 DEF ListIsCurrent, Others
  <2> QED BY <1>2, <2>2, <2>3
<1>4. Size \in Nat /\ taken \in Nat /\ taken' \in Nat /\ Cardinality(Woken) \in Nat /\ Cardinality(Woken') \in Nat
  BY <1>1, <1>2, WokenCounts DEF TypeOK, PoolAssumption
<1>5. NoneStranded'
  <2>1. CASE taken < Size /\ taken' = taken + 1 /\ claim'[t] = "none"
    <3>1. Woken \ {t} \subseteq Woken' /\ (SomeAsleep' => SomeAsleep)
      BY <1>2, <2>1 DEF Others, Woken, SomeAsleep
    <3>2. Cardinality(Woken) - 1 <= Cardinality(Woken')
      BY <3>1, WokenCounts
    <3>3. SomeAsleep => Size - taken <= Cardinality(Woken)
      BY <1>1 DEF NoneStranded, SomeAsleep, Woken
    <3>4. SomeAsleep' => Size - taken' <= Cardinality(Woken')
      BY <1>4, <2>1, <3>1, <3>2, <3>3
    <3> QED BY <3>4 DEF NoneStranded, SomeAsleep, Woken
  <2>2. CASE taken = Size /\ taken' = taken
    <3>1. Size - taken' <= Cardinality(Woken')
      BY <1>4, <2>2
    <3> QED BY <3>1 DEF NoneStranded, Woken
  <2> QED BY <1>2, <2>1, <2>2
<1> QED BY <1>2, <1>3, <1>5 DEF PoolInv

\* A place given back sends one sleeper on its way to it, if there is one.
LEMMA GiveBackInductive ==
    ASSUME PoolAssumption, PoolInv, GiveBack
    PROVE  PoolInv'
<1>1. TypeOK /\ ListIsCurrent /\ NoneStranded
  BY DEF PoolInv
<1>2. /\ TypeOK' /\ taken' = taken - 1
      /\ waiters' = LeftByOne(waiters, Asleep)
      /\ SomeAsleep => \E w \in Tasks : claim[w] = "asleep" /\ claim'[w] = "woken" /\ Others(w)
      /\ ~SomeAsleep => claim' = claim
      /\ \A t \in Tasks : \/ claim'[t] = claim[t]
                          \/ claim[t] = "asleep" /\ claim'[t] = "woken"
      /\ \A t \in Tasks : claim'[t] = "asleep" => Has(waiters', t)
  BY <1>1, GiveBackFacts
<1>3. ListIsCurrent'
  <2>1. Asleep \in [Tasks -> BOOLEAN] /\ waiters \in Seq(Tasks)
    BY <1>1 DEF Asleep, TypeOK
  <2>2. Once(waiters') /\ \A t \in Tasks : Has(waiters', t) => Has(waiters, t)
    BY <1>1, <1>2, <2>1, WakeOneFacts DEF ListIsCurrent
  <2> QED BY <1>1, <1>2, <2>2 DEF ListIsCurrent
<1>4. Size \in Nat /\ taken \in Nat /\ taken' \in Nat /\ Cardinality(Woken) \in Nat /\ Cardinality(Woken') \in Nat
  BY <1>1, <1>2, WokenCounts DEF TypeOK, PoolAssumption
<1>5. ASSUME SomeAsleep PROVE Size - taken' <= Cardinality(Woken')
  <2>1. PICK w \in Tasks : claim[w] = "asleep" /\ claim'[w] = "woken" /\ Others(w)
    BY <1>2, <1>5
  <2>2. w \notin Woken /\ Woken \cup {w} \subseteq Woken'
    BY <2>1 DEF Woken, Others
  <2>3. Cardinality(Woken) + 1 <= Cardinality(Woken')
    BY <2>2, WokenCounts
  <2>4. Size - taken <= Cardinality(Woken)
    BY <1>1, <1>5 DEF NoneStranded, SomeAsleep, Woken
  <2> QED BY <1>2, <1>4, <2>3, <2>4
<1>6. SomeAsleep' => SomeAsleep
  BY <1>2 DEF SomeAsleep
<1>7. NoneStranded'
  BY <1>5, <1>6 DEF NoneStranded, SomeAsleep, Woken
<1> QED BY <1>2, <1>3, <1>7 DEF PoolInv

\* A step that ends waits, or gives up, and touches neither count nor list.
LEMMA QuietInductive ==
    ASSUME PoolAssumption, PoolInv, TypeOK', taken' = taken, waiters' = waiters,
           \A t \in Tasks : claim'[t] = claim[t] \/ (claim[t] = "asleep" /\ claim'[t] \in {"woken", "cancelled"})
    PROVE  PoolInv'
<1>1. ListIsCurrent'
  BY DEF PoolInv, ListIsCurrent
<1>2. Woken \subseteq Woken' /\ (SomeAsleep' => SomeAsleep)
  BY DEF Woken, SomeAsleep
<1>3. Cardinality(Woken) \in Nat /\ Cardinality(Woken') \in Nat /\ Cardinality(Woken) <= Cardinality(Woken')
  BY <1>2, WokenCounts
<1>4. SomeAsleep => Size - taken <= Cardinality(Woken)
  BY DEF PoolInv, NoneStranded, SomeAsleep, Woken
<1>5. Size \in Nat /\ taken \in Nat
  BY DEF PoolInv, TypeOK, PoolAssumption
<1>6. SomeAsleep' => Size - taken' <= Cardinality(Woken')
  BY <1>2, <1>3, <1>4, <1>5
<1> QED BY <1>1, <1>6 DEF PoolInv, NoneStranded, SomeAsleep, Woken

\* A claim that was cancelled ends without a place.
LEMMA FailInductive ==
    ASSUME PoolAssumption, PoolInv, NEW t \in Tasks, claim[t] = "cancelled", Fail(t)
    PROVE  PoolInv'
<1>1. /\ Remove(waiters, t) \in Seq(Tasks)
      /\ \A u \in Tasks : Has(Remove(waiters, t), u) => Has(waiters, u)
      /\ \A u \in Tasks : Has(waiters, u) /\ u # t => Has(Remove(waiters, t), u)
      /\ Once(Remove(waiters, t)) /\ ~Has(Remove(waiters, t), t)
  BY RemoveFacts DEF PoolInv, TypeOK, ListIsCurrent
<1>2. TypeOK' /\ Others(t) /\ claim'[t] = "none" /\ waiters' = Remove(waiters, t) /\ taken' = taken
  BY <1>1 DEF PoolInv, TypeOK, Fail, Others
<1>3. ListIsCurrent'
  BY <1>1, <1>2 DEF PoolInv, ListIsCurrent, Others
<1>4. Woken \subseteq Woken' /\ (SomeAsleep' => SomeAsleep)
  BY <1>2 DEF Woken, SomeAsleep, Others
<1>5. Cardinality(Woken) \in Nat /\ Cardinality(Woken') \in Nat /\ Cardinality(Woken) <= Cardinality(Woken')
  BY <1>4, WokenCounts
<1>6. SomeAsleep => Size - taken <= Cardinality(Woken)
  BY DEF PoolInv, NoneStranded, SomeAsleep, Woken
<1>7. Size \in Nat /\ taken \in Nat
  BY DEF PoolInv, TypeOK, PoolAssumption
<1>8. SomeAsleep' => Size - taken' <= Cardinality(Woken')
  BY <1>2, <1>4, <1>5, <1>6, <1>7
<1> QED BY <1>2, <1>3, <1>8 DEF PoolInv, NoneStranded, SomeAsleep, Woken

LEMMA PoolInductive ==
    ASSUME PoolAssumption, PoolInv, [Next]_vars
    PROVE  PoolInv'
<1>1. ASSUME NEW t \in Tasks, NEW l \in Limits, Claim(t, l) PROVE PoolInv'
  BY <1>1, PassInductive DEF Claim, PoolAssumption
<1>2. ASSUME NEW t \in Tasks, TryClaim(t) PROVE PoolInv'
  <2>1. Pass(t, "none")
    BY <1>2 DEF TryClaim, Pass
  <2> QED BY <2>1, PassInductive
<1>3. ASSUME NEW t \in Tasks, ClaimWoken(t) PROVE PoolInv'
  <2>1. limit[t] \in {"none", "ahead", "passed"}
    BY DEF PoolInv, TypeOK
  <2> QED BY <1>3, <2>1, PassInductive, FailInductive DEF ClaimWoken
<1>4. ASSUME NEW t \in Tasks, Cancel(t) PROVE PoolInv'
  <2>1. TypeOK' /\ taken' = taken /\ waiters' = waiters
    BY <1>4 DEF Cancel, PoolInv, TypeOK
  <2>2. \A u \in Tasks : claim'[u] = claim[u] \/ (claim[u] = "asleep" /\ claim'[u] \in {"woken", "cancelled"})
    BY <1>4 DEF Cancel, PoolInv, TypeOK
  <2> QED BY <2>1, <2>2, QuietInductive
<1>5. ASSUME NEW t \in Tasks, DeadlinePasses(t) PROVE PoolInv'
  <2>1. TypeOK' /\ taken' = taken /\ waiters' = waiters /\ claim' = claim
    BY <1>5 DEF DeadlinePasses, PoolInv, TypeOK
  <2> QED BY <2>1, QuietInductive
<1>6. ASSUME NEW t \in Tasks, FireTimer(t) PROVE PoolInv'
  <2>1. TypeOK' /\ taken' = taken /\ waiters' = waiters
    BY <1>6 DEF FireTimer, PoolInv, TypeOK
  <2>2. \A u \in Tasks : claim'[u] = claim[u] \/ (claim[u] = "asleep" /\ claim'[u] \in {"woken", "cancelled"})
    BY <1>6 DEF FireTimer, PoolInv, TypeOK
  <2> QED BY <2>1, <2>2, QuietInductive
<1>7. CASE UNCHANGED vars
  <2>1. TypeOK' /\ taken' = taken /\ waiters' = waiters /\ claim' = claim
    BY <1>7 DEF vars, PoolInv, TypeOK
  <2> QED BY <2>1, QuietInductive
<1> QED BY <1>1, <1>2, <1>3, <1>4, <1>5, <1>6, <1>7, GiveBackInductive DEF Next

LEMMA PoolInitially ==
    ASSUME PoolAssumption, Init
    PROVE  PoolInv
<1>1. TypeOK
  BY DEF Init, TypeOK, PoolAssumption
<1>2. ListIsCurrent /\ NoneStranded
  BY DEF Init, ListIsCurrent, NoneStranded, Has, Once
<1> QED BY <1>1, <1>2 DEF PoolInv

-----------------------------------------------------------------------------

\* A Lock, the helper-thread slots and a heap's slots, for any number of tasks
\* and places: no more places are taken than there are, the list holds every
\* sleeper once, and while a task sleeps each free place has a woken task
\* coming for it.
THEOREM PoolIsSound ==
    ASSUME PoolAssumption
    PROVE  Spec => [](TypeOK /\ ListIsCurrent /\ NoneStranded)
<1>1. Init => PoolInv
  BY PoolInitially
<1>2. PoolInv /\ [Next]_vars => PoolInv'
  BY PoolInductive
<1>3. PoolInv => TypeOK /\ ListIsCurrent /\ NoneStranded
  BY DEF PoolInv
<1> QED BY <1>1, <1>2, <1>3, PTL DEF Spec
=============================================================================
