------------------------- MODULE ResourceHeapProofs -------------------------
(***************************************************************************)
(* For any tasks and slots: a handle leads to the resource it was given    *)
(* out for, and reserving a slot implements module Pool.                   *)
(*                                                                         *)
(* The argument: at any time a slot is free, or one call has it alone, or  *)
(* Roc holds references to it and all calls that use it mean the same      *)
(* resource (SlotHeld).                                                    *)
(***************************************************************************)
EXTENDS ResourceHeap, WaitersProofs, FiniteSetTheorems, TLAPS

\* What a task may be at.
HeapOps == {"none", "reserves", "holds", "inserts", "reads", "uses", "closes", "frees"}

\* The types, but for the lists and the waits.
HeapTypes ==
    /\ free \in Seq(Slots)
    /\ generations \in [Slots -> Generations] /\ inUse \in [Slots -> BOOLEAN]
    /\ token \in [Slots -> Generations] /\ resource \in [Slots -> Generations]
    /\ refs \in [Slots -> Nat]
    /\ given \in [Slots -> Generations] /\ heapClosing \in [Slots -> Generations]
    /\ heapOp \in [HeapTasks -> HeapOps]
    /\ slot \in [HeapTasks -> Slots \cup {NoSlot}] /\ seen \in [HeapTasks -> Generations]

\* Which calls have a slot.
SlotsNamed ==
    \A t \in HeapTasks : IF heapOp[t] \in {"none", "reserves"} THEN slot[t] = NoSlot ELSE slot[t] \in Slots

\* A slot is on the stack, and no call has to do with it; ...
SlotFree(s) == Has(free, s) /\ refs[s] = 0 /\ heapClosing[s] = 0 /\ \A u \in HeapTasks : slot[u] # s

\* ... or one call, alone, fills or empties it; ...
SlotOwned(t, s) ==
    /\ ~Has(free, s) /\ refs[s] = 0
    /\ slot[t] = s /\ heapOp[t] \in {"holds", "inserts", "closes", "frees"}
    /\ \A u \in HeapTasks : slot[u] = s => u = t
    /\ heapClosing[s] # 0 => heapOp[t] = "closes"
    /\ heapOp[t] = "inserts" => inUse[s] /\ generations[s] # 0 /\ seen[t] = generations[s]

\* ... or Roc has references to it, one for each call that uses it, and it is
\* one resource all of them stand for.
SlotShared(s) ==
    /\ ~Has(free, s) /\ refs[s] > 0 /\ refs[s] >= Cardinality(Users(s))
    /\ heapClosing[s] = 0 /\ inUse[s] /\ generations[s] # 0
    /\ resource[s] = generations[s] /\ token[s] = generations[s] /\ given[s] = generations[s]
    /\ \A u \in HeapTasks : slot[u] = s => heapOp[u] \in {"reads", "uses"} /\ seen[u] = generations[s]

\* Every slot is one of the three.
SlotHeld(s) == SlotFree(s) \/ (\E t \in HeapTasks : SlotOwned(t, s)) \/ SlotShared(s)

\* The inductive invariant behind LookupsFindTheirOwn.
HeapInv == HeapTypes /\ Once(free) /\ SlotsNamed /\ \A s \in Slots : SlotHeld(s)

-----------------------------------------------------------------------------
(* Counting, and what the parts of actions do.                             *)

\* The calls that use a slot can be counted,
LEMMA UsersAreFinite ==
    ASSUME NEW s
    PROVE  IsFiniteSet(Users(s)) /\ Cardinality(Users(s)) \in Nat
  BY ZenonT(60), HeapAssumption, FS_Subset, FS_CardinalityType DEF Users

\* and with one more or one less their number changes by one.
LEMMA SetChanges ==
    ASSUME NEW S, IsFiniteSet(S), NEW T, NEW x
    PROVE  /\ T \subseteq S \cup {x} => Cardinality(T) \in Nat /\ Cardinality(T) <= Cardinality(S) + 1
           /\ T \subseteq S \ {x} /\ x \in S => Cardinality(T) \in Nat /\ Cardinality(T) <= Cardinality(S) - 1
<1>1. Cardinality(S) \in Nat
  BY ZenonT(60), FS_CardinalityType
<1>2. ASSUME T \subseteq S \cup {x} PROVE Cardinality(T) \in Nat /\ Cardinality(T) <= Cardinality(S) + 1
  <2>1. IsFiniteSet(S \cup {x}) /\ Cardinality(S \cup {x}) <= Cardinality(S) + 1 /\ Cardinality(S \cup {x}) \in Nat
    BY <1>1, FS_AddElement, FS_CardinalityType
  <2>2. Cardinality(T) \in Nat /\ Cardinality(T) <= Cardinality(S \cup {x})
    BY ZenonT(60), <1>2, <2>1, FS_Subset, FS_CardinalityType
  <2> QED BY <1>1, <2>1, <2>2
<1>3. ASSUME T \subseteq S \ {x}, x \in S PROVE Cardinality(T) \in Nat /\ Cardinality(T) <= Cardinality(S) - 1
  <2>1. IsFiniteSet(S \ {x}) /\ Cardinality(S \ {x}) = Cardinality(S) - 1 /\ Cardinality(S \ {x}) \in Nat
    BY ZenonT(60), <1>1, <1>3, FS_RemoveElement, FS_CardinalityType
  <2>2. Cardinality(T) \in Nat /\ Cardinality(T) <= Cardinality(S \ {x})
    BY ZenonT(60), <1>3, <2>1, FS_Subset, FS_CardinalityType
  <2> QED BY ZenonT(60), <1>1, <2>1, <2>2
<1> QED BY ZenonT(60), <1>2, <1>3

\* What is where in the first elements of a list.
LEMMA PrefixPlaces ==
    ASSUME NEW T, NEW a \in Seq(T), NEW n \in 0..Len(a)
    PROVE  /\ SubSeq(a, 1, n) \in Seq(T) /\ Len(SubSeq(a, 1, n)) = n
           /\ \A i \in 1..n : i \in 1..Len(a) /\ SubSeq(a, 1, n)[i] = a[i]
  OBVIOUS

\* The free slots are on the stack once each, so popping one takes it off.
LEMMA FreePopped ==
    ASSUME free \in Seq(Slots), free # <<>>, Once(free), NEW f, f = SubSeq(free, 1, Len(free) - 1)
    PROVE  LET s == free[Len(free)] IN
           /\ f \in Seq(Slots) /\ Len(f) = Len(free) - 1 /\ Once(f) /\ s \in Slots /\ Has(free, s)
           /\ ~Has(f, s) /\ \A v \in Slots : v # s => (Has(f, v) <=> Has(free, v))
<1>0. Len(free) \in Nat /\ Len(free) # 0
  OBVIOUS
<1>1. f \in Seq(Slots) /\ Len(f) = Len(free) - 1 /\ \A i \in 1..Len(free) - 1 : f[i] = free[i]
  <2>1. Len(free) - 1 \in 0..Len(free)
    BY <1>0
  <2> QED BY ZenonT(60), <2>1, PrefixPlaces
<1>2. DOMAIN f = 1..Len(free) - 1 /\ DOMAIN free = 1..Len(free)
  BY <1>1
<1>3. Once(f) /\ ~Has(f, free[Len(free)])
  BY SMTT(40), <1>0, <1>1, <1>2 DEF Once, Has
<1>4. free[Len(free)] \in Slots /\ Has(free, free[Len(free)])
  BY <1>0, <1>2 DEF Has
<1>5. \A v \in Slots : v # free[Len(free)] => (Has(f, v) <=> Has(free, v))
  <2>1. \A i \in 1..Len(free) : i = Len(free) \/ i \in 1..Len(free) - 1
    BY <1>0
  <2>2. \A i \in 1..Len(free) - 1 : i \in 1..Len(free)
    BY <1>0
  <2> QED BY ZenonT(60), <1>1, <1>2, <2>1, <2>2 DEF Has
<1> QED BY ZenonT(60), <1>1, <1>3, <1>4, <1>5

-----------------------------------------------------------------------------
\* Steps.                                                                 

\* Where a call goes.
CallAt(t, o, s, k) ==
    /\ heapOp' \in [HeapTasks -> HeapOps] /\ slot' \in [HeapTasks -> Slots \cup {NoSlot}] /\ seen' \in [HeapTasks -> Generations]
    /\ heapOp'[t] = o /\ slot'[t] = s /\ seen'[t] = k
    /\ \A u \in HeapTasks : u # t => heapOp'[u] = heapOp[u] /\ slot'[u] = slot[u] /\ seen'[u] = seen[u]

\* HeapAt changes one call.
LEMMA HeapAtFacts ==
    ASSUME HeapTypes, NEW t \in HeapTasks, NEW o \in HeapOps, NEW s \in Slots \cup {NoSlot}, NEW k \in Generations,
           HeapAt(t, o, s, k)
    PROVE  CallAt(t, o, s, k)
  BY ZenonT(60) DEF HeapTypes, HeapAt, CallAt

\* 0 stands for no resource.
LEMMA ZeroIsNone == 0 \in Generations
  BY HeapAssumption DEF Generations

\* What a step leaves of slot v.
Untouched(v) ==
    /\ Has(free', v) <=> Has(free, v)
    /\ refs'[v] = refs[v] /\ heapClosing'[v] = heapClosing[v] /\ inUse'[v] = inUse[v] /\ generations'[v] = generations[v]
    /\ resource'[v] = resource[v] /\ token'[v] = token[v] /\ given'[v] = given[v]

\* A call is where it was.
SameCall(u) == heapOp'[u] = heapOp[u] /\ slot'[u] = slot[u] /\ seen'[u] = seen[u]

\* A slot that a step does not touch, with the calls that have to do with it,
\* is held as it was.
LEMMA SlotStays ==
    ASSUME NEW v \in Slots, SlotHeld(v), Untouched(v),
           \A u \in HeapTasks : SameCall(u) \/ (slot[u] # v /\ slot'[u] # v)
    PROVE  SlotHeld(v)'
<1>1. CASE SlotFree(v)
  BY ZenonT(60), <1>1 DEF SlotFree, SlotHeld, Untouched, SameCall
<1>2. ASSUME NEW t \in HeapTasks, SlotOwned(t, v) PROVE SlotHeld(v)'
  <2>1. SlotOwned(t, v)'
    BY ZenonT(60), <1>2 DEF SlotOwned, Untouched, SameCall
  <2> QED BY ZenonT(60), <2>1 DEF SlotHeld
<1>3. CASE SlotShared(v)
  <2>1. Users(v)' = Users(v)
    BY ZenonT(60) DEF Users, SameCall
  <2>2. SlotShared(v)'
    BY ZenonT(60), <1>3, <2>1 DEF SlotShared, Untouched, SameCall
  <2> QED BY ZenonT(60), <2>2 DEF SlotHeld
<1> QED BY ZenonT(60), <1>1, <1>2, <1>3 DEF SlotHeld

\* A step of one call with one slot.
LEMMA OneSlotStep ==
    ASSUME HeapInv, NEW t \in HeapTasks, NEW s \in Slots, NEW o \in HeapOps, NEW k, NEW r \in {s, NoSlot},
           slot[t] \in {s, NoSlot}, CallAt(t, o, r, k), (o \in {"none", "reserves"}) <=> (r = NoSlot),
           HeapTypes', Once(free'), \A v \in Slots : v # s => Untouched(v), SlotHeld(s)'
    PROVE  HeapInv'
<1>1. NoSlot \notin Slots
  BY ZenonT(60), HeapAssumption
<1>2. ASSUME NEW v \in Slots, v # s PROVE SlotHeld(v)'
  <2>1. SlotHeld(v) /\ Untouched(v)
    BY ZenonT(60), <1>2 DEF HeapInv
  <2>2. \A u \in HeapTasks : SameCall(u) \/ (slot[u] # v /\ slot'[u] # v)
    BY ZenonT(60), <1>1, <1>2 DEF CallAt, SameCall
  <2> QED BY ZenonT(60), <2>1, <2>2, SlotStays
<1>3. SlotsNamed'
  BY ZenonT(60), <1>1 DEF CallAt, SlotsNamed, HeapInv
<1> QED BY ZenonT(60), <1>2, <1>3 DEF HeapInv

\* A step that touches no slot, of calls that have none.
LEMMA NoSlotStep ==
    ASSUME HeapInv, NEW t \in HeapTasks, NEW o \in {"none", "reserves"}, heapOp[t] \in {"none", "reserves"},
           HeapAt(t, o, NoSlot, 0), UNCHANGED <<heapState, memory>>
    PROVE  HeapInv'
<1>1. UNCHANGED <<free, generations, inUse, token, resource, refs, given, heapClosing>>
  BY ZenonT(60) DEF heapState, memory
<1>2. CallAt(t, o, NoSlot, 0)
  <2>1. o \in HeapOps /\ NoSlot \in Slots \cup {NoSlot} /\ HeapTypes
    BY ZenonT(60) DEF HeapOps, HeapInv
  <2> QED BY ZenonT(60), <2>1, ZeroIsNone, HeapAtFacts
<1>3. slot[t] = NoSlot /\ NoSlot \notin Slots
  BY ZenonT(60), HeapAssumption DEF HeapInv, SlotsNamed
<1>4. HeapTypes'
  BY ZenonT(60), <1>1, <1>2 DEF HeapInv, HeapTypes, CallAt
<1>5. SlotsNamed' /\ Once(free')
  BY ZenonT(60), <1>1, <1>2 DEF HeapInv, SlotsNamed, CallAt
<1>6. ASSUME NEW v \in Slots PROVE SlotHeld(v)'
  <2>1. SlotHeld(v) /\ Untouched(v)
    BY ZenonT(60), <1>1 DEF HeapInv, Untouched
  <2>2. \A u \in HeapTasks : SameCall(u) \/ (slot[u] # v /\ slot'[u] # v)
    BY ZenonT(60), <1>2, <1>3 DEF CallAt, SameCall
  <2> QED BY ZenonT(60), <2>1, <2>2, SlotStays
<1> QED BY ZenonT(60), <1>4, <1>5, <1>6 DEF HeapInv

\* A step of no call, with one slot.
LEMMA NoCallStep ==
    ASSUME HeapInv, UNCHANGED <<heapState, memory, heapCalls>>
    PROVE  HeapInv'
<1>1. UNCHANGED <<free, generations, inUse, token, resource, refs, given, heapClosing, heapOp, slot, seen>>
  BY ZenonT(60) DEF heapState, memory, heapCalls
<1>2. HeapTypes' /\ SlotsNamed' /\ Once(free')
  BY ZenonT(60), <1>1 DEF HeapInv, HeapTypes, SlotsNamed
<1>3. ASSUME NEW v \in Slots PROVE SlotHeld(v)'
  <2>1. SlotHeld(v) /\ Untouched(v) /\ \A u \in HeapTasks : SameCall(u)
    BY ZenonT(60), <1>1 DEF HeapInv, Untouched, SameCall
  <2> QED BY ZenonT(60), <2>1, SlotStays
<1> QED BY ZenonT(60), <1>2, <1>3 DEF HeapInv

\* Whose a slot is, from what a call is at.
LEMMA WhoseSlot ==
    ASSUME HeapInv
    PROVE  /\ \A t \in HeapTasks : heapOp[t] \in {"holds", "inserts", "closes", "frees"}
                                     => slot[t] \in Slots /\ SlotOwned(t, slot[t])
           /\ \A t \in HeapTasks : heapOp[t] \in {"reads", "uses"} => slot[t] \in Slots /\ SlotShared(slot[t])
           /\ \A s \in Slots : Has(free, s) => SlotFree(s)
           /\ \A s \in Slots : refs[s] > 0 => SlotShared(s)
<1>1. ASSUME NEW t \in HeapTasks, heapOp[t] \notin {"none", "reserves"}
      PROVE  /\ slot[t] \in Slots
             /\ SlotOwned(t, slot[t]) \/ (SlotShared(slot[t]) /\ heapOp[t] \in {"reads", "uses"})
  <2>1. slot[t] \in Slots
    BY ZenonT(60), <1>1 DEF HeapInv, SlotsNamed
  <2>2. SlotHeld(slot[t])
    BY ZenonT(60), <2>1 DEF HeapInv
  <2>3. \A u \in HeapTasks : SlotOwned(u, slot[t]) => u = t
    BY ZenonT(60) DEF SlotOwned
  <2>4. SlotShared(slot[t]) => heapOp[t] \in {"reads", "uses"}
    BY ZenonT(60) DEF SlotShared
  <2> QED BY ZenonT(60), <2>1, <2>2, <2>3, <2>4 DEF SlotHeld, SlotFree
<1>2. \A t \in HeapTasks : heapOp[t] \in {"holds", "inserts", "closes", "frees"}
                             => slot[t] \in Slots /\ SlotOwned(t, slot[t])
  BY ZenonT(60), <1>1
<1>3. \A t \in HeapTasks : heapOp[t] \in {"reads", "uses"} => slot[t] \in Slots /\ SlotShared(slot[t])
  BY ZenonT(60), <1>1 DEF SlotOwned
<1>4. \A s \in Slots : Has(free, s) => SlotFree(s)
  BY ZenonT(60) DEF HeapInv, SlotHeld, SlotOwned, SlotShared
<1>5. \A s \in Slots : refs[s] > 0 => SlotShared(s)
  BY DEF HeapInv, SlotHeld, SlotOwned, SlotFree
<1> QED BY ZenonT(60), <1>2, <1>3, <1>4, <1>5

-----------------------------------------------------------------------------
(* One lemma per action.                                                   *)

\* reserve takes a slot from the stack: the call has it alone.
LEMMA PopFreeKeeps ==
    ASSUME HeapInv, NEW t \in HeapTasks, heapOp[t] \in {"none", "reserves"}, PopFree(t), NEW s, s = free[Len(free)]
    PROVE  HeapInv'
<1>1. /\ free # <<>> /\ free' = SubSeq(free, 1, Len(free) - 1) /\ HeapAt(t, "holds", s, 0)
      /\ UNCHANGED <<generations, inUse, token, resource, refs, given, heapClosing>>
  BY ZenonT(60) DEF PopFree, memory
<1>2. /\ free' \in Seq(Slots) /\ Once(free') /\ s \in Slots /\ Has(free, s) /\ ~Has(free', s)
      /\ \A v \in Slots : v # s => (Has(free', v) <=> Has(free, v))
  BY ZenonT(60), <1>1, FreePopped DEF HeapInv, HeapTypes
<1>3. CallAt(t, "holds", s, 0)
  BY ZenonT(60), <1>1, <1>2, ZeroIsNone, HeapAtFacts DEF HeapInv, HeapOps
<1>4. HeapTypes'
  BY ZenonT(60), <1>1, <1>2, <1>3 DEF HeapInv, HeapTypes, CallAt
<1>5. SlotFree(s) /\ slot[t] = NoSlot
  BY ZenonT(60), <1>2, WhoseSlot DEF HeapInv, SlotsNamed
<1>6. SlotOwned(t, s)'
  BY ZenonT(60), <1>1, <1>2, <1>3, <1>5 DEF SlotFree, SlotOwned, CallAt
<1>7. \A v \in Slots : v # s => Untouched(v)
  BY ZenonT(60), <1>1, <1>2 DEF Untouched
<1>8. NoSlot \notin Slots /\ "holds" \in HeapOps /\ SlotHeld(s)'
  BY ZenonT(60), <1>6, HeapAssumption DEF HeapOps, SlotHeld
<1> QED BY ZenonT(60), <1>2, <1>3, <1>4, <1>5, <1>7, <1>8, OneSlotStep

\* free_slot puts back a slot that the call had alone.
LEMMA FreeSlotKeeps ==
    ASSUME HeapInv, NEW t \in HeapTasks, heapOp[t] \in {"holds", "frees"}, FreeHeapSlot(slot[t]), HeapReturns(t),
           UNCHANGED <<generations, inUse, memory>>, NEW s, s = slot[t]
    PROVE  HeapInv'
<1>1. free' = Append(free, s) /\ HeapAt(t, "none", NoSlot, 0)
      /\ UNCHANGED <<generations, inUse, token, resource, refs, given, heapClosing>>
  BY ZenonT(60) DEF FreeHeapSlot, HeapReturns, memory
<1>2. s \in Slots /\ SlotOwned(t, s)
  BY ZenonT(60), WhoseSlot
<1>3. free' \in Seq(Slots) /\ Once(free') /\ \A v \in Slots : Has(free', v) <=> Has(free, v) \/ v = s
  BY ZenonT(60), <1>1, <1>2, AddFacts DEF HeapInv, HeapTypes, SlotOwned, Add
<1>4. CallAt(t, "none", NoSlot, 0)
  BY ZenonT(60), <1>1, ZeroIsNone, HeapAtFacts DEF HeapInv, HeapOps
<1>5. HeapTypes'
  BY ZenonT(60), <1>1, <1>3, <1>4 DEF HeapInv, HeapTypes, CallAt
<1>6. NoSlot \notin Slots /\ "none" \in HeapOps
  BY ZenonT(60), HeapAssumption DEF HeapOps
<1>7. SlotFree(s)'
  BY SMTT(40), <1>1, <1>2, <1>3, <1>4, <1>6 DEF SlotFree, SlotOwned, CallAt
<1>8. \A v \in Slots : v # s => Untouched(v)
  BY ZenonT(60), <1>1, <1>3 DEF Untouched
<1>9. SlotHeld(s)'
  BY ZenonT(60), <1>7 DEF SlotHeld
<1> QED BY ZenonT(60), <1>2, <1>3, <1>4, <1>5, <1>6, <1>8, <1>9, OneSlotStep

\* insert, under the mutex, starts the slot's next generation.
LEMMA MarkLiveKeeps ==
    ASSUME HeapInv, NEW t \in HeapTasks, MarkLive(t), NEW s, s = slot[t], NEW g, g = generations[s] + 1
    PROVE  HeapInv'
<1>1. /\ heapOp[t] = "holds" /\ generations[s] < MaxInserts /\ generations' = [generations EXCEPT ![s] = g]
      /\ inUse' = [inUse EXCEPT ![s] = TRUE] /\ HeapAt(t, "inserts", s, g)
      /\ UNCHANGED <<free, token, resource, refs, given, heapClosing>>
  BY ZenonT(60) DEF MarkLive, memory
<1>2. s \in Slots /\ SlotOwned(t, s)
  BY ZenonT(60), <1>1, WhoseSlot
<1>3. g \in Generations /\ g # 0
  <2>1. generations[s] \in 0..MaxInserts
    BY ZenonT(60), <1>2 DEF HeapInv, HeapTypes, Generations
  <2> QED BY SMTT(40), <1>1, <2>1, HeapAssumption DEF Generations
<1>4. CallAt(t, "inserts", s, g)
  BY ZenonT(60), <1>1, <1>2, <1>3, HeapAtFacts DEF HeapInv, HeapOps
<1>5. /\ generations' \in [Slots -> Generations] /\ inUse' \in [Slots -> BOOLEAN] /\ generations'[s] = g /\ inUse'[s]
      /\ \A v \in Slots : v # s => generations'[v] = generations[v] /\ inUse'[v] = inUse[v]
  BY ZenonT(60), <1>1, <1>2, <1>3 DEF HeapInv, HeapTypes
<1>6. HeapTypes'
  BY ZenonT(60), <1>1, <1>4, <1>5 DEF HeapInv, HeapTypes, CallAt
<1>7. SlotOwned(t, s)'
  BY SMTT(40), <1>1, <1>2, <1>3, <1>4, <1>5 DEF SlotOwned, CallAt
<1>8. (\A v \in Slots : v # s => Untouched(v)) /\ Once(free')
  BY ZenonT(60), <1>1, <1>5 DEF Untouched, HeapInv
<1>9. SlotHeld(s)' /\ NoSlot \notin Slots /\ "inserts" \in HeapOps
  BY ZenonT(60), <1>7, HeapAssumption DEF SlotHeld, HeapOps
<1> QED BY ZenonT(60), <1>2, <1>4, <1>6, <1>8, <1>9, OneSlotStep

\* insert fills the slot and gives Roc the first reference.
LEMMA FillSlotKeeps ==
    ASSUME HeapInv, NEW t \in HeapTasks, FillSlot(t), NEW s, s = slot[t], NEW g, g = seen[t]
    PROVE  HeapInv'
<1>1. /\ heapOp[t] = "inserts" /\ resource' = [resource EXCEPT ![s] = g] /\ token' = [token EXCEPT ![s] = g]
      /\ refs' = [refs EXCEPT ![s] = 1] /\ given' = [given EXCEPT ![s] = g] /\ HeapAt(t, "none", NoSlot, 0)
      /\ UNCHANGED <<free, generations, inUse, heapClosing>>
  BY ZenonT(60) DEF FillSlot, HeapReturns, heapState
<1>2. s \in Slots /\ SlotOwned(t, s)
  BY ZenonT(60), <1>1, WhoseSlot
<1>3. g \in Generations /\ inUse[s] /\ generations[s] # 0 /\ g = generations[s] /\ heapClosing[s] = 0
  BY ZenonT(60), <1>1, <1>2 DEF SlotOwned, HeapInv, HeapTypes
<1>4. CallAt(t, "none", NoSlot, 0)
  BY ZenonT(60), <1>1, ZeroIsNone, HeapAtFacts DEF HeapInv, HeapOps
<1>5. /\ resource' \in [Slots -> Generations] /\ token' \in [Slots -> Generations] /\ given' \in [Slots -> Generations]
      /\ refs' \in [Slots -> Nat] /\ resource'[s] = g /\ token'[s] = g /\ given'[s] = g /\ refs'[s] = 1
      /\ \A v \in Slots : v # s => /\ resource'[v] = resource[v] /\ token'[v] = token[v] /\ given'[v] = given[v]
                                   /\ refs'[v] = refs[v]
  BY ZenonT(60), <1>1, <1>2, <1>3 DEF HeapInv, HeapTypes
<1>6. HeapTypes'
  BY ZenonT(60), <1>1, <1>4, <1>5 DEF HeapInv, HeapTypes, CallAt
<1>7. NoSlot \notin Slots /\ "none" \in HeapOps
  BY ZenonT(60), HeapAssumption DEF HeapOps
<1>8. ~Has(free', s) /\ \A u \in HeapTasks : slot'[u] # s
  BY ZenonT(60), <1>1, <1>2, <1>4, <1>7 DEF SlotOwned, CallAt
<1>9. Users(s)' = {} /\ Cardinality(Users(s)') = 0
  BY ZenonT(60), <1>8, FS_EmptySet DEF Users
<1>10. SlotShared(s)'
  BY SMTT(40), <1>1, <1>3, <1>5, <1>8, <1>9 DEF SlotShared
<1>11. (\A v \in Slots : v # s => Untouched(v)) /\ Once(free')
  BY ZenonT(60), <1>1, <1>5 DEF Untouched, HeapInv
<1>12. SlotHeld(s)'
  BY ZenonT(60), <1>10 DEF SlotHeld
<1> QED BY ZenonT(60), <1>2, <1>4, <1>6, <1>7, <1>11, <1>12, OneSlotStep

\* get reads the token of a slot it has a reference to.
LEMMA GetTokenKeeps ==
    ASSUME HeapInv, NEW t \in HeapTasks, NEW s \in Slots, GetToken(t, s)
    PROVE  HeapInv'
<1>1. /\ heapOp[t] = "none" /\ refs[s] > Cardinality(Users(s)) /\ HeapAt(t, "reads", s, token[s])
      /\ UNCHANGED <<free, generations, inUse, token, resource, refs, given, heapClosing>>
  BY ZenonT(60) DEF GetToken, heapState, memory
<1>2. refs[s] \in Nat /\ Cardinality(Users(s)) \in Nat /\ token[s] \in Generations
  BY ZenonT(60), UsersAreFinite DEF HeapInv, HeapTypes
<1>3. SlotShared(s) /\ slot[t] = NoSlot
  BY SMTT(40), <1>1, <1>2, WhoseSlot DEF HeapInv, SlotsNamed
<1>4. CallAt(t, "reads", s, token[s])
  BY ZenonT(60), <1>1, <1>2, HeapAtFacts DEF HeapInv, HeapOps
<1>5. HeapTypes'
  BY ZenonT(60), <1>1, <1>4 DEF HeapInv, HeapTypes, CallAt
<1>6. refs'[s] >= Cardinality(Users(s)')
  <2>1. Users(s)' \subseteq Users(s) \cup {t}
    BY ZenonT(60), <1>4 DEF Users, CallAt
  <2>2. Cardinality(Users(s)') \in Nat /\ Cardinality(Users(s)') <= Cardinality(Users(s)) + 1
    BY ZenonT(60), <2>1, UsersAreFinite, SetChanges
  <2> QED BY SMTT(40), <1>1, <1>2, <2>2
<1>7. SlotShared(s)'
  BY SMTT(40), <1>1, <1>3, <1>4, <1>6 DEF SlotShared, CallAt
<1>8. (\A v \in Slots : v # s => Untouched(v)) /\ Once(free')
  BY ZenonT(60), <1>1 DEF Untouched, HeapInv
<1>9. SlotHeld(s)' /\ NoSlot \notin Slots /\ "reads" \in HeapOps
  BY ZenonT(60), <1>7, HeapAssumption DEF SlotHeld, HeapOps
<1> QED BY ZenonT(60), <1>3, <1>4, <1>5, <1>8, <1>9, OneSlotStep

\* The token a call read is still the slot's when it is checked, so the call
\* goes on with the slot's resource.
LEMMA GetChecksKeeps ==
    ASSUME HeapInv, NEW t \in HeapTasks, GetChecks(t), NEW s, s = slot[t]
    PROVE  HeapInv'
<1>1. heapOp[t] = "reads" /\ UNCHANGED <<free, generations, inUse, token, resource, refs, given, heapClosing>>
  BY ZenonT(60) DEF GetChecks, heapState, memory
<1>2. s \in Slots /\ SlotShared(s)
  BY ZenonT(60), <1>1, WhoseSlot
<1>3. inUse[s] /\ resource[s] = generations[s] /\ seen[t] = generations[s] /\ generations[s] \in Generations
  BY ZenonT(60), <1>2 DEF SlotShared, HeapInv, HeapTypes
<1>4. HeapAt(t, "uses", s, generations[s])
  BY ZenonT(60), <1>3 DEF GetChecks, Valid
<1>5. CallAt(t, "uses", s, generations[s])
  BY ZenonT(60), <1>2, <1>3, <1>4, HeapAtFacts DEF HeapInv, HeapOps
<1>6. HeapTypes'
  BY ZenonT(60), <1>1, <1>5 DEF HeapInv, HeapTypes, CallAt
<1>7. Users(s)' = Users(s)
  BY ZenonT(60), <1>1, <1>5 DEF Users, CallAt
<1>8. SlotShared(s)'
  BY ZenonT(60), <1>1, <1>2, <1>5, <1>7 DEF SlotShared, CallAt
<1>9. (\A v \in Slots : v # s => Untouched(v)) /\ Once(free')
  BY ZenonT(60), <1>1 DEF Untouched, HeapInv
<1>10. SlotHeld(s)' /\ NoSlot \notin Slots /\ "uses" \in HeapOps
  BY ZenonT(60), <1>8, HeapAssumption DEF SlotHeld, HeapOps
<1> QED BY ZenonT(60), <1>2, <1>5, <1>6, <1>9, <1>10, OneSlotStep

\* A call ends and leaves a reference to others.
LEMMA CallEndsKeeps ==
    ASSUME HeapInv, NEW t \in HeapTasks, CallEnds(t), NEW s, s = slot[t]
    PROVE  HeapInv'
<1>1. /\ heapOp[t] = "uses" /\ refs[s] > 1 /\ refs' = [refs EXCEPT ![s] = refs[s] - 1] /\ HeapAt(t, "none", NoSlot, 0)
      /\ UNCHANGED <<free, generations, inUse, token, resource, given, heapClosing>>
  BY ZenonT(60) DEF CallEnds, HeapReturns, heapState
<1>2. s \in Slots /\ SlotShared(s) /\ refs[s] \in Nat /\ t \in Users(s)
  BY ZenonT(60), <1>1, WhoseSlot DEF HeapInv, HeapTypes, Users
<1>3. CallAt(t, "none", NoSlot, 0)
  BY ZenonT(60), <1>1, ZeroIsNone, HeapAtFacts DEF HeapInv, HeapOps
<1>4. /\ refs' \in [Slots -> Nat] /\ refs'[s] = refs[s] - 1 /\ refs'[s] > 0
      /\ \A v \in Slots : v # s => refs'[v] = refs[v]
  BY <1>1, <1>2 DEF HeapInv, HeapTypes
<1>5. HeapTypes'
  BY ZenonT(60), <1>1, <1>3, <1>4 DEF HeapInv, HeapTypes, CallAt
<1>6. NoSlot \notin Slots /\ "none" \in HeapOps
  BY ZenonT(60), HeapAssumption DEF HeapOps
<1>7. refs'[s] >= Cardinality(Users(s)')
  <2>1. Users(s)' \subseteq Users(s) \ {t}
    BY ZenonT(60), <1>2, <1>3, <1>6 DEF Users, CallAt
  <2>2. /\ Cardinality(Users(s)) \in Nat /\ Cardinality(Users(s)') \in Nat
        /\ Cardinality(Users(s)') <= Cardinality(Users(s)) - 1
    BY ZenonT(60), <1>2, <2>1, UsersAreFinite, SetChanges
  <2>3. refs[s] >= Cardinality(Users(s))
    BY ZenonT(60), <1>2 DEF SlotShared
  <2> QED BY SMTT(40), <1>2, <1>4, <2>2, <2>3
<1>8. SlotShared(s)'
  BY SMTT(40), <1>1, <1>2, <1>3, <1>4, <1>6, <1>7 DEF SlotShared, CallAt
<1>9. (\A v \in Slots : v # s => Untouched(v)) /\ Once(free')
  BY ZenonT(60), <1>1, <1>4 DEF Untouched, HeapInv
<1>10. SlotHeld(s)'
  BY ZenonT(60), <1>8 DEF SlotHeld
<1> QED BY ZenonT(60), <1>2, <1>3, <1>5, <1>6, <1>9, <1>10, OneSlotStep

\* References come and go, and the last one is not among them.
LEMMA RefsChange ==
    ASSUME HeapInv, NEW s \in Slots, refs[s] > 0, NEW n \in Nat, n >= Cardinality(Users(s)), n > 0,
           refs' = [refs EXCEPT ![s] = n],
           UNCHANGED <<heapState, token, resource, given, heapClosing, heapCalls>>
    PROVE  HeapInv'
<1>1. UNCHANGED <<free, generations, inUse, token, resource, given, heapClosing, heapOp, slot, seen>>
  BY ZenonT(60) DEF heapState, heapCalls
<1>2. refs' \in [Slots -> Nat] /\ refs'[s] = n /\ \A v \in Slots : v # s => refs'[v] = refs[v]
  BY ZenonT(60) DEF HeapInv, HeapTypes
<1>3. HeapTypes' /\ SlotsNamed' /\ Once(free')
  BY <1>1, <1>2 DEF HeapInv, HeapTypes, SlotsNamed
<1>4. Users(s)' = Users(s) /\ SlotShared(s)
  BY ZenonT(60), <1>1, WhoseSlot DEF Users
<1>5. SlotShared(s)'
  BY ZenonT(60), <1>1, <1>2, <1>4 DEF SlotShared
<1>6. ASSUME NEW v \in Slots, v # s PROVE SlotHeld(v)'
  <2>1. SlotHeld(v) /\ Untouched(v) /\ \A u \in HeapTasks : SameCall(u)
    BY ZenonT(60), <1>1, <1>2, <1>6 DEF HeapInv, Untouched, SameCall
  <2> QED BY ZenonT(60), <2>1, SlotStays
<1> QED BY ZenonT(60), <1>3, <1>5, <1>6 DEF HeapInv, SlotHeld

\* Whoever drops the last reference finds the slot in use and has it alone.
LEMMA ReleaseKeeps ==
    ASSUME HeapInv, NEW t \in HeapTasks, NEW s \in Slots, ReleaseSlot(t, s)
    PROVE  HeapInv'
<1>1. /\ refs[s] = 1
      /\ (heapOp[t] = "none" /\ Users(s) = {}) \/ (heapOp[t] = "uses" /\ slot[t] = s)
      /\ refs' = [refs EXCEPT ![s] = 0] /\ given' = [given EXCEPT ![s] = 0]
      /\ UNCHANGED <<free, generations, token>>
  BY ZenonT(60) DEF ReleaseSlot
<1>2. SlotShared(s) /\ inUse[s] /\ resource[s] \in Generations
  BY <1>1, WhoseSlot DEF SlotShared, HeapInv, HeapTypes
<1>3. /\ inUse' = [inUse EXCEPT ![s] = FALSE] /\ heapClosing' = [heapClosing EXCEPT ![s] = resource[s]]
      /\ resource' = [resource EXCEPT ![s] = 0] /\ HeapAt(t, "closes", s, 0)
  BY ZenonT(60), <1>2 DEF ReleaseSlot
<1>4. CallAt(t, "closes", s, 0)
  BY ZenonT(60), <1>3, ZeroIsNone, HeapAtFacts DEF HeapInv, HeapOps
<1>5. /\ refs' \in [Slots -> Nat] /\ given' \in [Slots -> Generations] /\ inUse' \in [Slots -> BOOLEAN]
      /\ heapClosing' \in [Slots -> Generations] /\ resource' \in [Slots -> Generations] /\ refs'[s] = 0
      /\ \A v \in Slots : v # s => /\ refs'[v] = refs[v] /\ given'[v] = given[v] /\ inUse'[v] = inUse[v]
                                   /\ heapClosing'[v] = heapClosing[v] /\ resource'[v] = resource[v]
  BY ZenonT(60), <1>1, <1>2, <1>3, ZeroIsNone DEF HeapInv, HeapTypes
<1>6. HeapTypes'
  BY ZenonT(60), <1>1, <1>4, <1>5 DEF HeapInv, HeapTypes, CallAt
<1>7. Users(s) \ {t} = {}
  <2>1. CASE heapOp[t] = "uses" /\ slot[t] = s
    <3>1. t \in Users(s) /\ IsFiniteSet(Users(s)) /\ Cardinality(Users(s)) \in Nat /\ 1 >= Cardinality(Users(s))
      BY ZenonT(60), <1>1, <1>2, <2>1, UsersAreFinite DEF Users, SlotShared
    <3>2. IsFiniteSet(Users(s) \ {t}) /\ Cardinality(Users(s) \ {t}) \in Nat
          /\ Cardinality(Users(s) \ {t}) <= Cardinality(Users(s)) - 1
      BY ZenonT(60), <3>1, FS_Subset, SetChanges
    <3> QED BY SMTT(40), <3>1, <3>2, FS_EmptySet
  <2> QED BY ZenonT(60), <1>1, <2>1
<1>8. \A u \in HeapTasks : slot[u] = s => u = t
  BY ZenonT(60), <1>2, <1>7 DEF SlotShared, Users
<1>9. SlotOwned(t, s)'
  BY SMTT(40), <1>1, <1>2, <1>4, <1>5, <1>8 DEF SlotShared, SlotOwned, CallAt
<1>10. slot[t] \in {s, NoSlot}
  BY ZenonT(60), <1>1 DEF HeapInv, SlotsNamed
<1>11. (\A v \in Slots : v # s => Untouched(v)) /\ Once(free')
  BY ZenonT(60), <1>1, <1>5 DEF Untouched, HeapInv
<1>12. SlotHeld(s)' /\ NoSlot \notin Slots /\ "closes" \in HeapOps
  BY ZenonT(60), <1>9, HeapAssumption DEF SlotHeld, HeapOps
<1> QED BY ZenonT(60), <1>4, <1>6, <1>10, <1>11, <1>12, OneSlotStep

\* The resource is closed while the call still has the slot alone.
LEMMA CloseKeeps ==
    ASSUME HeapInv, NEW t \in HeapTasks, CloseResource(t), NEW s, s = slot[t]
    PROVE  HeapInv'
<1>1. /\ heapOp[t] = "closes" /\ heapClosing' = [heapClosing EXCEPT ![s] = 0] /\ HeapAt(t, "frees", s, 0)
      /\ UNCHANGED <<free, generations, inUse, token, resource, refs, given>>
  BY ZenonT(60) DEF CloseResource, heapState
<1>2. s \in Slots /\ SlotOwned(t, s)
  BY ZenonT(60), <1>1, WhoseSlot
<1>3. CallAt(t, "frees", s, 0)
  BY ZenonT(60), <1>1, <1>2, ZeroIsNone, HeapAtFacts DEF HeapInv, HeapOps
<1>4. heapClosing' \in [Slots -> Generations] /\ heapClosing'[s] = 0 /\ \A v \in Slots : v # s => heapClosing'[v] = heapClosing[v]
  BY ZenonT(60), <1>1, <1>2, ZeroIsNone DEF HeapInv, HeapTypes
<1>5. HeapTypes'
  BY ZenonT(60), <1>1, <1>3, <1>4 DEF HeapInv, HeapTypes, CallAt
<1>6. SlotOwned(t, s)'
  BY ZenonT(60), <1>1, <1>2, <1>3, <1>4 DEF SlotOwned, CallAt
<1>7. (\A v \in Slots : v # s => Untouched(v)) /\ Once(free')
  BY ZenonT(60), <1>1, <1>4 DEF Untouched, HeapInv
<1>8. SlotHeld(s)' /\ NoSlot \notin Slots /\ "frees" \in HeapOps
  BY ZenonT(60), <1>6, HeapAssumption DEF SlotHeld, HeapOps
<1> QED BY ZenonT(60), <1>2, <1>3, <1>5, <1>7, <1>8, OneSlotStep

\* HeapInv holds at the start.
LEMMA HeapStart == HeapInit => HeapInv
<1> SUFFICES ASSUME HeapInit PROVE HeapInv
  OBVIOUS
<1>1. Cardinality(Slots) \in Nat /\ IsFiniteSet(Slots) /\ NoSlot \notin Slots
  BY ZenonT(60), HeapAssumption, FS_CardinalityType
<1>2. HeapTypes /\ Once(free) /\ SlotsNamed
  BY SMTT(40), <1>1, ZeroIsNone DEF HeapInit, HeapTypes, HeapOps, Once, SlotsNamed
<1>3. ASSUME NEW s \in Slots PROVE Has(free, s)
  <2>1. free \in Injection(1..Cardinality(Slots), Slots)
    BY ZenonT(60) DEF HeapInit, Injection, IsInjective
  <2>2. Cardinality(1..Cardinality(Slots)) = Cardinality(Slots)
    <3>1. Cardinality(1..Cardinality(Slots)) = IF 1 > Cardinality(Slots) THEN 0 ELSE Cardinality(Slots) - 1 + 1
      BY SMTT(40), <1>1, FS_Interval
    <3> QED BY SMTT(40), <1>1, <3>1
  <2>3. free \in Surjection(1..Cardinality(Slots), Slots)
    BY ZenonT(60), <1>1, <2>1, <2>2, FS_Injection
  <2> QED BY ZenonT(60), <2>3 DEF Surjection, Has
<1>4. \A s \in Slots : SlotFree(s)
  BY ZenonT(60), <1>1, <1>3 DEF HeapInit, SlotFree
<1> QED BY ZenonT(60), <1>2, <1>4 DEF HeapInv, SlotHeld

\* Every step keeps HeapInv: one step per action.
LEMMA HeapStep == HeapInv /\ [HeapNext]_heapVars => HeapInv'
<1> SUFFICES ASSUME HeapInv, [HeapNext]_heapVars PROVE HeapInv'
  OBVIOUS
<1>1. CASE UNCHANGED heapVars
  BY ZenonT(60), <1>1, NoCallStep DEF heapVars
<1>2. ASSUME NEW t \in HeapTasks, heapOp[t] \in {"none", "reserves"}, PopFree(t) \/ WaitForRoom(t) PROVE HeapInv'
  <2>1. CASE PopFree(t)
    BY ZenonT(60), <1>2, <2>1, PopFreeKeeps
  <2>2. CASE WaitForRoom(t)
    <3>1. HeapAt(t, "reserves", NoSlot, 0) /\ UNCHANGED <<heapState, memory>>
      BY ZenonT(60), <2>2 DEF WaitForRoom
    <3> QED BY ZenonT(60), <1>2, <3>1, NoSlotStep
  <2> QED BY ZenonT(60), <1>2, <2>1, <2>2
<1>3. ASSUME NEW t \in HeapTasks, Reserve(t) \/ TryReserve(t) PROVE HeapInv'
  BY ZenonT(60), <1>2, <1>3 DEF Reserve, TryReserve
<1>4. ASSUME NEW t \in HeapTasks, ReserveWoken(t) PROVE HeapInv'
  <2>1. CASE heapWoke[t] = "Cancelled"
    <3>1. heapOp[t] = "reserves" /\ HeapAt(t, "none", NoSlot, 0) /\ UNCHANGED <<heapState, memory>>
      BY ZenonT(60), <1>4, <2>1 DEF ReserveWoken, HeapReturns
    <3> QED BY ZenonT(60), <3>1, NoSlotStep
  <2>2. CASE heapWoke[t] # "Cancelled"
    BY ZenonT(60), <1>2, <1>4, <2>2 DEF ReserveWoken
  <2> QED BY ZenonT(60), <2>1, <2>2
<1>5. ASSUME NEW t \in HeapTasks, DropReservation(t) \/ FreeReleased(t) PROVE HeapInv'
  BY ZenonT(60), <1>5, FreeSlotKeeps DEF DropReservation, FreeReleased
<1>6. ASSUME NEW t \in HeapTasks, HeapCancel(t) PROVE HeapInv'
  BY ZenonT(60), <1>6, NoCallStep DEF HeapCancel
<1>7. ASSUME NEW t \in HeapTasks, NEW s \in Slots, GetToken(t, s) PROVE HeapInv'
  BY ZenonT(60), <1>7, GetTokenKeeps
<1>8. ASSUME NEW s \in Slots, Clone(s) \/ DropRef(s) PROVE HeapInv'
  <2>1. refs[s] \in Nat /\ Cardinality(Users(s)) \in Nat /\ (refs[s] > 0 => refs[s] >= Cardinality(Users(s)))
    BY ZenonT(60), UsersAreFinite, WhoseSlot DEF HeapInv, HeapTypes, SlotShared
  <2>2. CASE Clone(s)
    <3>1. /\ refs[s] > 0 /\ refs' = [refs EXCEPT ![s] = refs[s] + 1]
          /\ UNCHANGED <<heapState, token, resource, given, heapClosing, heapCalls>>
      BY ZenonT(60), <2>2 DEF Clone
    <3>2. refs[s] + 1 \in Nat /\ refs[s] + 1 >= Cardinality(Users(s)) /\ refs[s] + 1 > 0
      BY SMTT(40), <2>1, <3>1
    <3> QED BY ZenonT(60), <3>1, <3>2, RefsChange
  <2>3. CASE DropRef(s)
    <3>1. /\ refs[s] > Cardinality(Users(s)) /\ refs[s] > 1 /\ refs' = [refs EXCEPT ![s] = refs[s] - 1]
          /\ UNCHANGED <<heapState, token, resource, given, heapClosing, heapCalls>>
      BY ZenonT(60), <2>3 DEF DropRef
    <3>2. refs[s] - 1 \in Nat /\ refs[s] - 1 >= Cardinality(Users(s)) /\ refs[s] - 1 > 0 /\ refs[s] > 0
      BY SMTT(40), <2>1, <3>1
    <3> QED BY ZenonT(60), <3>1, <3>2, RefsChange
  <2> QED BY ZenonT(60), <1>8, <2>2, <2>3
<1> QED BY ZenonT(60), <1>1, <1>3, <1>4, <1>5, <1>6, <1>7, <1>8, MarkLiveKeeps, FillSlotKeeps, GetChecksKeeps, CallEndsKeeps,
           ReleaseKeeps, CloseKeeps DEF HeapNext, HeapGoes


\* For any tasks, slots and bounds: a call that owns a reference finds the
\* resource its handle was given out for, and no slot is free, referred to or
\* reserved while its resource is closing (ResourceHeap::get, insert, release).
THEOREM LookupsAreRight == HeapSpec => []LookupsFindTheirOwn
<1>1. ASSUME HeapInv PROVE LookupsFindTheirOwn
  <2>1. \A t \in HeapTasks : heapOp[t] = "uses" => seen[t] # 0 /\ seen[t] = given[slot[t]]
    BY ZenonT(60), <1>1, WhoseSlot DEF SlotShared
  <2>2. ASSUME NEW s \in Slots, heapClosing[s] # 0
        PROVE  ~Has(free, s) /\ refs[s] = 0 /\ \A t \in HeapTasks : slot[t] = s => heapOp[t] = "closes"
    <3>1. PICK c \in HeapTasks : SlotOwned(c, s)
      BY ZenonT(60), <1>1, <2>2 DEF HeapInv, SlotHeld, SlotFree, SlotShared
    <3> QED BY ZenonT(60), <2>2, <3>1 DEF SlotOwned
  <2> QED BY ZenonT(60), <2>1, <2>2 DEF LookupsFindTheirOwn
<1> QED BY <1>1, HeapStart, HeapStep, PTL DEF HeapSpec

-----------------------------------------------------------------------------
(* Reservations implement module Pool.                                     *)

\* The types of the waits.
RoomTypes ==
    /\ roomWaiters \in Seq(HeapTasks) /\ inWait \in [HeapTasks -> BOOLEAN]
    /\ heapWoke \in [HeapTasks -> {"Ready", "Cancelled"}] /\ heapCancelled \in [HeapTasks -> BOOLEAN]

\* Only tasks that reserve are on the list, once each.
RoomListed == Once(roomWaiters) /\ \A t \in HeapTasks : Has(roomWaiters, t) => heapOp[t] = "reserves"

\* What the mapping to module Pool needs beside HeapInv.
RoomInv == RoomTypes /\ RoomListed

\* At the start RoomInv holds, and no place of the pool is taken.
LEMMA RoomStart == HeapInit => RoomInv /\ Reserves!Init
<1> SUFFICES ASSUME HeapInit PROVE RoomInv /\ Reserves!Init
  OBVIOUS
<1>1. RoomInv
  BY DEF HeapInit, RoomInv, RoomTypes, RoomListed, Once, Has
<1>2. SlotsTaken = 0
  <2>1. Cardinality(Slots) \in Nat
    BY ZenonT(60), HeapAssumption, FS_CardinalityType
  <2>2. Len(free) = Cardinality(Slots)
    BY <2>1 DEF HeapInit
  <2> QED BY SMTT(40), <2>1, <2>2 DEF SlotsTaken
<1>3. Reserving = [t \in HeapTasks |-> "none"] /\ HeapStopped = {} /\ roomWaiters = <<>>
  BY ZenonT(60) DEF HeapInit, Reserving, HeapStopped
<1> QED BY ZenonT(60), <1>1, <1>2, <1>3 DEF Reserves!Init, Unlimited

\* The stack of free slots has room for a slot that is not on it.
LEMMA FreeFits ==
    ASSUME HeapInv
    PROVE  /\ Cardinality(Slots) \in Nat /\ Len(free) \in Nat /\ Len(free) <= Cardinality(Slots)
           /\ \A s \in Slots : ~Has(free, s) => Len(free) < Cardinality(Slots)
<1>1. Cardinality(Slots) \in Nat /\ IsFiniteSet(Slots)
  BY ZenonT(60), HeapAssumption, FS_CardinalityType
<1>2. free \in [1..Len(free) -> Slots] /\ Len(free) \in Nat /\ Once(free) /\ DOMAIN free = 1..Len(free)
  BY DEF HeapInv, HeapTypes
<1>3. free \in Injection(1..Len(free), Slots)
  BY ZenonT(60), <1>2 DEF Injection, IsInjective, Once
<1>4. Cardinality(1..Len(free)) = Len(free)
  <2>1. Cardinality(1..Len(free)) = IF 1 > Len(free) THEN 0 ELSE Len(free) - 1 + 1
    BY SMTT(40), <1>2, FS_Interval
  <2> QED BY SMTT(40), <1>2, <2>1
<1>5. /\ Cardinality(1..Len(free)) <= Cardinality(Slots)
      /\ Cardinality(1..Len(free)) = Cardinality(Slots) => free \in Surjection(1..Len(free), Slots)
  BY ZenonT(60), <1>1, <1>3, FS_Injection
<1>6. \A s \in Slots : free \in Surjection(1..Len(free), Slots) => Has(free, s)
  BY ZenonT(60), <1>2 DEF Surjection, Has
<1> QED BY SMTT(40), <1>1, <1>2, <1>4, <1>5, <1>6

\* The pool's operators on lists are the module's own.
LEMMA RoomOperators ==
    ASSUME NEW t, NEW a
    PROVE  /\ Reserves!Remove(roomWaiters, t) = Remove(roomWaiters, t)
           /\ Reserves!Add(Remove(roomWaiters, t), t) = Add(Remove(roomWaiters, t), t)
           /\ Reserves!LeftByOne(roomWaiters, a) = LeftByOne(roomWaiters, a)
           /\ Reserves!WokenByOne(roomWaiters, a) = WokenByOne(roomWaiters, a)
<1>1. Reserves!Remove(roomWaiters, t) = Remove(roomWaiters, t)
  BY ZenonT(60) DEF Reserves!Remove, Reserves!Has, Remove, Has
<1>2. Reserves!Waiting(roomWaiters, a) = Waiting(roomWaiters, a)
  BY ZenonT(60) DEF Reserves!Waiting, Waiting
<1>3. Reserves!Popped(roomWaiters, a) = Popped(roomWaiters, a)
  BY <1>2 DEF Reserves!Popped, Popped
<1> QED BY ZenonT(60), <1>1, <1>2, <1>3 DEF Reserves!Add, Add, Reserves!LeftByOne, LeftByOne, Reserves!WokenByOne, WokenByOne

\* A step that concerns no reservation.
LEMMA NoRoomMoves ==
    ASSUME HeapInv, RoomInv, UNCHANGED <<free, roomWaiters, heapWaits>>, heapOp' \in [HeapTasks -> HeapOps],
           \A u \in HeapTasks : heapOp'[u] = "reserves" <=> heapOp[u] = "reserves"
    PROVE  RoomInv' /\ UNCHANGED Reserves!vars
<1>1. UNCHANGED <<roomWaiters, inWait, heapWoke, heapCancelled>> /\ free' = free
  BY ZenonT(60) DEF heapWaits
<1>2. RoomInv'
  BY ZenonT(60), <1>1 DEF RoomInv, RoomTypes, RoomListed
<1>3. Reserving' = Reserving
  BY ZenonT(60), <1>1 DEF Reserving
<1>4. HeapStopped' = HeapStopped /\ SlotsTaken' = SlotsTaken /\ Unlimited' = Unlimited
  BY ZenonT(60), <1>1 DEF HeapStopped, SlotsTaken, Unlimited
<1> QED BY ZenonT(60), <1>1, <1>2, <1>3, <1>4 DEF Reserves!vars

\* A slot is popped.
LEMMA PopFreeMoves ==
    ASSUME HeapInv, RoomInv, NEW t \in HeapTasks, PopFree(t)
    PROVE  RoomInv' /\ Reserves!Take(t)
<1>1. /\ free # <<>> /\ free' = SubSeq(free, 1, Len(free) - 1) /\ roomWaiters' = Remove(roomWaiters, t)
      /\ heapOp' = [heapOp EXCEPT ![t] = "holds"] /\ UNCHANGED <<inWait, heapWoke, heapCancelled>>
  BY ZenonT(60) DEF PopFree, HeapAt, heapWaits
<1>2. heapOp'[t] = "holds" /\ \A u \in HeapTasks : u # t => heapOp'[u] = heapOp[u]
  BY ZenonT(60), <1>1 DEF HeapInv, HeapTypes
<1>3. RoomInv'
  <2>1. /\ Remove(roomWaiters, t) \in Seq(HeapTasks) /\ Once(Remove(roomWaiters, t)) /\ ~Has(Remove(roomWaiters, t), t)
        /\ \A u \in HeapTasks : Has(Remove(roomWaiters, t), u) => Has(roomWaiters, u)
    BY ZenonT(60), RemoveFacts DEF RoomInv, RoomTypes, RoomListed
  <2> QED BY ZenonT(60), <1>1, <1>2, <2>1 DEF RoomInv, RoomTypes, RoomListed
<1>4. SlotsTaken < Cardinality(Slots) /\ SlotsTaken' = SlotsTaken + 1
  <2>1. Len(free) \in Nat /\ Len(free) # 0 /\ Len(free') = Len(free) - 1
    <3>1. free \in Seq(Slots) /\ Once(free)
      BY ZenonT(60) DEF HeapInv, HeapTypes
    <3>2. Len(free) \in Nat /\ Len(free) # 0
      BY SMTT(40), <1>1, <3>1
    <3> QED BY ZenonT(60), <1>1, <3>1, <3>2, FreePopped
  <2> QED BY SMTT(40), <2>1, FreeFits DEF SlotsTaken
<1>5. Reserving' = [Reserving EXCEPT ![t] = "none"]
  BY ZenonT(60), <1>1, <1>2 DEF Reserving
<1>6. Unlimited' = [Unlimited EXCEPT ![t] = "none"] /\ HeapStopped' = HeapStopped
  BY ZenonT(60), <1>1 DEF Unlimited, HeapStopped
<1> QED BY ZenonT(60), <1>1, <1>3, <1>4, <1>5, <1>6, RoomOperators DEF Reserves!Take

\* reserve finds no slot and waits.
LEMMA WaitMoves ==
    ASSUME HeapInv, RoomInv, NEW t \in HeapTasks, WaitForRoom(t)
    PROVE  RoomInv' /\ Reserves!Wait(t, "none")
<1>1. /\ free = <<>> /\ roomWaiters' = Add(Remove(roomWaiters, t), t) /\ heapOp' = [heapOp EXCEPT ![t] = "reserves"]
      /\ inWait' = [inWait EXCEPT ![t] = ~heapCancelled[t]] /\ UNCHANGED <<free, heapCancelled>>
      /\ heapWoke' = [heapWoke EXCEPT ![t] = IF heapCancelled[t] THEN "Cancelled" ELSE "Ready"]
  BY ZenonT(60) DEF WaitForRoom, HeapAt, heapState
<1>2. heapOp'[t] = "reserves" /\ \A u \in HeapTasks : u # t => heapOp'[u] = heapOp[u]
  BY ZenonT(60), <1>1 DEF HeapInv, HeapTypes
<1>3. /\ inWait' \in [HeapTasks -> BOOLEAN] /\ (inWait'[t] <=> ~heapCancelled[t])
      /\ \A u \in HeapTasks : u # t => (inWait'[u] <=> inWait[u])
  BY ZenonT(60), <1>1 DEF RoomInv, RoomTypes
<1>4. /\ heapWoke' \in [HeapTasks -> {"Ready", "Cancelled"}]
      /\ heapCancelled[t] => heapWoke'[t] = "Cancelled"
      /\ \A u \in HeapTasks : u # t => heapWoke'[u] = heapWoke[u]
  BY ZenonT(60), <1>1 DEF RoomInv, RoomTypes
<1>5. RoomInv'
  <2>1. /\ Remove(roomWaiters, t) \in Seq(HeapTasks) /\ Once(Remove(roomWaiters, t)) /\ ~Has(Remove(roomWaiters, t), t)
        /\ \A u \in HeapTasks : Has(Remove(roomWaiters, t), u) => Has(roomWaiters, u)
    BY ZenonT(60), RemoveFacts DEF RoomInv, RoomTypes, RoomListed
  <2>2. /\ roomWaiters' \in Seq(HeapTasks) /\ Once(roomWaiters')
        /\ \A u \in HeapTasks : Has(roomWaiters', u) <=> Has(Remove(roomWaiters, t), u) \/ u = t
    BY ZenonT(60), <1>1, <2>1, AddFacts
  <2>3. \A u \in HeapTasks : Has(roomWaiters', u) => heapOp'[u] = "reserves"
    BY ZenonT(60), <1>2, <2>1, <2>2 DEF RoomInv, RoomListed
  <2> QED BY ZenonT(60), <1>1, <1>3, <1>4, <2>2, <2>3 DEF RoomInv, RoomTypes, RoomListed
<1>6. SlotsTaken >= Cardinality(Slots) /\ SlotsTaken' = SlotsTaken
  <2>1. Len(free) = 0 /\ Len(free') = Len(free)
    BY ZenonT(60), <1>1
  <2> QED BY SMTT(40), <2>1, FreeFits DEF SlotsTaken
<1>7. Reserving' = [Reserving EXCEPT ![t] = IF TRUE /\ t \in HeapStopped THEN "cancelled" ELSE "asleep"]
  <2>1. t \in HeapStopped <=> heapCancelled[t]
    BY ZenonT(60) DEF HeapStopped
  <2> QED BY ZenonT(60), <1>2, <1>3, <1>4, <2>1 DEF Reserving
<1>8. Unlimited' = [Unlimited EXCEPT ![t] = "none"] /\ HeapStopped' = HeapStopped
  BY ZenonT(60), <1>1 DEF Unlimited, HeapStopped
<1> QED BY ZenonT(60), <1>1, <1>5, <1>6, <1>7, <1>8, RoomOperators DEF Reserves!Wait

\* Only tasks that reserve are on the list, so the pool finds the same task to wake.
LEMMA FreeSlotMoves ==
    ASSUME HeapInv, RoomInv, NEW t \in HeapTasks, heapOp[t] \in {"holds", "frees"}, FreeHeapSlot(slot[t]), HeapReturns(t)
    PROVE  RoomInv' /\ Reserves!GiveBack
<1> DEFINE A == Reserves!Asleep
           W == WokenByOne(roomWaiters, inWait)
           L == LeftByOne(roomWaiters, inWait)
<1>1. /\ free' = Append(free, slot[t]) /\ roomWaiters' = L /\ heapCancelled' = heapCancelled
      /\ inWait' = [u \in HeapTasks |-> inWait[u] /\ u \notin W]
      /\ heapWoke' = [u \in HeapTasks |-> IF u \in W THEN "Ready" ELSE heapWoke[u]]
      /\ heapOp' = [heapOp EXCEPT ![t] = "none"]
  BY ZenonT(60) DEF FreeHeapSlot, HeapReturns, HeapAt
<1>2. heapOp'[t] = "none" /\ \A u \in HeapTasks : u # t => heapOp'[u] = heapOp[u]
  BY ZenonT(60), <1>1 DEF HeapInv, HeapTypes
<1>3. roomWaiters \in Seq(HeapTasks) /\ inWait \in [HeapTasks -> BOOLEAN]
  BY ZenonT(60) DEF RoomInv, RoomTypes
<1>4. /\ L \in Seq(HeapTasks) /\ Once(L) /\ \A u \in HeapTasks : Has(L, u) => Has(roomWaiters, u)
      /\ \A u \in W : u \in HeapTasks /\ inWait[u] /\ Has(roomWaiters, u)
  BY ZenonT(60), <1>3, WakeOneFacts DEF RoomInv, RoomListed
<1>5. Waiting(roomWaiters, A) = Waiting(roomWaiters, inWait)
  <2>1. \A i \in DOMAIN roomWaiters : roomWaiters[i] \in HeapTasks /\ heapOp[roomWaiters[i]] = "reserves"
    BY <1>3 DEF RoomInv, RoomListed, Has
  <2>2. \A u \in HeapTasks : heapOp[u] = "reserves" => (A[u] <=> inWait[u])
    BY ZenonT(60), <1>3 DEF Reserves!Asleep, Reserving
  <2> QED BY ZenonT(60), <2>1, <2>2 DEF Waiting
<1> HIDE DEF A
<1>6. Popped(roomWaiters, A) = Popped(roomWaiters, inWait)
  BY <1>5 DEF Popped
<1>7. LeftByOne(roomWaiters, A) = L /\ WokenByOne(roomWaiters, A) = W
  BY ZenonT(60), <1>5, <1>6 DEF LeftByOne, WokenByOne
<1>8. Reserves!LeftByOne(roomWaiters, A) = L /\ Reserves!WokenByOne(roomWaiters, A) = W
  BY ZenonT(60), <1>7, RoomOperators
<1> HIDE DEF W, L
<1>9. \A u \in W : u # t /\ heapOp[u] = "reserves" /\ heapOp'[u] = "reserves"
  BY ZenonT(60), <1>2, <1>4 DEF RoomInv, RoomListed
<1>10. RoomInv'
  <2>1. inWait' \in [HeapTasks -> BOOLEAN] /\ heapWoke' \in [HeapTasks -> {"Ready", "Cancelled"}]
    BY ZenonT(60), <1>1 DEF RoomInv, RoomTypes
  <2>2. \A u \in HeapTasks : Has(L, u) => heapOp'[u] = "reserves"
    BY ZenonT(60), <1>2, <1>4 DEF RoomInv, RoomListed
  <2> QED BY ZenonT(60), <1>1, <1>4, <2>1, <2>2 DEF RoomInv, RoomTypes, RoomListed
<1>11. SlotsTaken > 0 /\ SlotsTaken' = SlotsTaken - 1
  <2>1. slot[t] \in Slots /\ ~Has(free, slot[t]) /\ free \in Seq(Slots)
    BY ZenonT(60), WhoseSlot DEF SlotOwned, HeapInv, HeapTypes
  <2>2. Len(free') = Len(free) + 1
    BY SMTT(40), <1>1, <2>1
  <2> QED BY SMTT(40), <2>1, <2>2, FreeFits DEF SlotsTaken
<1>12. Reserving' = [u \in HeapTasks |-> IF u \in W THEN "woken" ELSE Reserving[u]]
  <2>1. ASSUME NEW u \in HeapTasks PROVE Reserving'[u] = IF u \in W THEN "woken" ELSE Reserving[u]
    <3>1. (inWait'[u] <=> inWait[u] /\ u \notin W) /\ heapWoke'[u] = IF u \in W THEN "Ready" ELSE heapWoke[u]
      BY ZenonT(60), <1>1
    <3>2. CASE u \in W
      BY ZenonT(60), <1>9, <3>1, <3>2 DEF Reserving
    <3>3. CASE u \notin W /\ u # t
      BY ZenonT(60), <1>2, <3>1, <3>3 DEF Reserving
    <3>4. CASE u \notin W /\ u = t
      BY ZenonT(60), <1>2, <3>4 DEF Reserving
    <3> QED BY ZenonT(60), <3>2, <3>3, <3>4
  <2> QED BY ZenonT(60), <2>1 DEF Reserving
<1>13. Unlimited' = Unlimited /\ HeapStopped' = HeapStopped
  BY ZenonT(60), <1>1 DEF Unlimited, HeapStopped
<1> QED BY ZenonT(60), <1>1, <1>8, <1>10, <1>11, <1>12, <1>13 DEF Reserves!GiveBack, A

\* A task is cancelled.
LEMMA CancelMoves ==
    ASSUME RoomInv, NEW t \in HeapTasks, HeapCancel(t)
    PROVE  RoomInv' /\ Reserves!Cancel(t)
<1>1. /\ ~heapCancelled[t] /\ heapCancelled' = [heapCancelled EXCEPT ![t] = TRUE]
      /\ inWait' = [inWait EXCEPT ![t] = FALSE]
      /\ heapWoke' = [heapWoke EXCEPT ![t] = IF inWait[t] THEN "Cancelled" ELSE heapWoke[t]]
      /\ UNCHANGED <<free, roomWaiters, heapOp>>
  BY ZenonT(60) DEF HeapCancel, heapState, heapCalls
<1>2. /\ inWait' \in [HeapTasks -> BOOLEAN] /\ ~inWait'[t] /\ \A u \in HeapTasks : u # t => (inWait'[u] <=> inWait[u])
      /\ heapCancelled' \in [HeapTasks -> BOOLEAN] /\ heapCancelled'[t]
      /\ \A u \in HeapTasks : u # t => (heapCancelled'[u] <=> heapCancelled[u])
  BY ZenonT(60), <1>1 DEF RoomInv, RoomTypes
<1>3. /\ heapWoke' \in [HeapTasks -> {"Ready", "Cancelled"}]
      /\ inWait[t] => heapWoke'[t] = "Cancelled"
      /\ ~inWait[t] => heapWoke'[t] = heapWoke[t]
      /\ \A u \in HeapTasks : u # t => heapWoke'[u] = heapWoke[u]
  BY ZenonT(60), <1>1 DEF RoomInv, RoomTypes
<1>4. RoomInv'
  BY ZenonT(60), <1>1, <1>2, <1>3 DEF RoomInv, RoomTypes, RoomListed
<1>5. Reserving' = [Reserving EXCEPT ![t] = IF TRUE /\ Reserving[t] = "asleep" THEN "cancelled" ELSE Reserving[t]]
  BY ZenonT(60), <1>1, <1>2, <1>3 DEF Reserving
<1>6. t \notin HeapStopped /\ HeapStopped' = HeapStopped \cup {t}
  BY ZenonT(60), <1>1, <1>2 DEF HeapStopped
<1>7. Unlimited' = Unlimited /\ SlotsTaken' = SlotsTaken
  BY ZenonT(60), <1>1 DEF Unlimited, SlotsTaken
<1> QED BY ZenonT(60), <1>1, <1>4, <1>5, <1>6, <1>7 DEF Reserves!Cancel

\* Every step keeps RoomInv, and is a step of module Pool or none.
LEMMA RoomStep ==
    ASSUME HeapInv, RoomInv, [HeapNext]_heapVars
    PROVE  RoomInv' /\ [Reserves!Next]_(Reserves!vars)
<1> DEFINE Moves == RoomInv' /\ (Reserves!Next \/ UNCHANGED Reserves!vars)
<1>1. HeapTypes'
  BY ZenonT(60), HeapStep DEF HeapInv
<1>2. ASSUME UNCHANGED <<free, roomWaiters, heapWaits>>,
             \A u \in HeapTasks : heapOp'[u] = "reserves" <=> heapOp[u] = "reserves"
      PROVE  Moves
  BY ZenonT(60), <1>1, <1>2, NoRoomMoves DEF HeapTypes
<1>3. ASSUME NEW t \in HeapTasks, NEW o, heapOp[t] # "reserves", o # "reserves", heapOp' = [heapOp EXCEPT ![t] = o],
             UNCHANGED <<free, roomWaiters, heapWaits>>
      PROVE  Moves
  <2>1. \A u \in HeapTasks : heapOp'[u] = "reserves" <=> heapOp[u] = "reserves"
    BY ZenonT(60), <1>3 DEF HeapInv, HeapTypes
  <2> QED BY ZenonT(60), <1>2, <1>3, <2>1
<1>4. ASSUME NEW t \in HeapTasks, PopFree(t), Reserving[t] \in {"none", "woken"} PROVE Moves
  <2>1. RoomInv' /\ Reserves!Take(t)
    BY ZenonT(60), <1>4, PopFreeMoves
  <2>2. Unlimited[t] = "none"
    BY ZenonT(60) DEF Unlimited
  <2> QED BY ZenonT(60), <1>4, <2>1, <2>2 DEF Reserves!Next, Reserves!TryClaim, Reserves!ClaimWoken, Reserves!Pass
<1>5. ASSUME NEW t \in HeapTasks, WaitForRoom(t), Reserving[t] \in {"none", "woken"} PROVE Moves
  <2>1. RoomInv' /\ Reserves!Wait(t, "none")
    BY ZenonT(60), <1>5, WaitMoves
  <2>2. Unlimited[t] = "none"
    BY ZenonT(60) DEF Unlimited
  <2> QED BY ZenonT(60), <1>5, <2>1, <2>2 DEF Reserves!Next, Reserves!Claim, Reserves!ClaimWoken, Reserves!Pass
<1>6. ASSUME NEW t \in HeapTasks, Reserve(t) \/ TryReserve(t) PROVE Moves
  <2>1. Reserving[t] = "none"
    BY ZenonT(60), <1>6 DEF Reserve, TryReserve, Reserving
  <2> QED BY ZenonT(60), <1>4, <1>5, <1>6, <2>1 DEF Reserve, TryReserve
<1>7. ASSUME NEW t \in HeapTasks, ReserveWoken(t) PROVE Moves
  <2>1. heapOp[t] = "reserves" /\ ~inWait[t]
    BY ZenonT(60), <1>7 DEF ReserveWoken
  <2>2. CASE heapWoke[t] = "Cancelled"
    <3>1. /\ roomWaiters' = Remove(roomWaiters, t) /\ heapOp' = [heapOp EXCEPT ![t] = "none"]
          /\ UNCHANGED <<free, inWait, heapWoke, heapCancelled>>
      BY ZenonT(60), <1>7, <2>2 DEF ReserveWoken, HeapReturns, HeapAt, heapState, heapWaits
    <3>2. heapOp'[t] = "none" /\ \A u \in HeapTasks : u # t => heapOp'[u] = heapOp[u]
      BY ZenonT(60), <3>1 DEF HeapInv, HeapTypes
    <3>3. RoomInv'
      <4>1. /\ Remove(roomWaiters, t) \in Seq(HeapTasks) /\ Once(Remove(roomWaiters, t)) /\ ~Has(Remove(roomWaiters, t), t)
            /\ \A u \in HeapTasks : Has(Remove(roomWaiters, t), u) => Has(roomWaiters, u)
        BY ZenonT(60), RemoveFacts DEF RoomInv, RoomTypes, RoomListed
      <4> QED BY ZenonT(60), <3>1, <3>2, <4>1 DEF RoomInv, RoomTypes, RoomListed
    <3>4. Reserving' = [Reserving EXCEPT ![t] = "none"] /\ Reserving[t] = "cancelled"
      BY ZenonT(60), <2>1, <2>2, <3>1, <3>2 DEF Reserving
    <3>5. Unlimited' = [Unlimited EXCEPT ![t] = "none"] /\ HeapStopped' = HeapStopped /\ SlotsTaken' = SlotsTaken
      BY ZenonT(60), <3>1 DEF Unlimited, HeapStopped, SlotsTaken
    <3>6. Reserves!Fail(t)
      BY ZenonT(60), <3>1, <3>4, <3>5, RoomOperators DEF Reserves!Fail
    <3> QED BY ZenonT(60), <3>3, <3>4, <3>6 DEF Reserves!Next, Reserves!ClaimWoken
  <2>3. CASE heapWoke[t] # "Cancelled"
    <3>1. Reserving[t] = "woken"
      BY ZenonT(60), <2>1, <2>3 DEF Reserving
    <3> QED BY ZenonT(60), <1>4, <1>5, <1>7, <2>3, <3>1 DEF ReserveWoken
  <2> QED BY ZenonT(60), <2>2, <2>3
<1>8. ASSUME NEW t \in HeapTasks, DropReservation(t) \/ FreeReleased(t) PROVE Moves
  <2>1. RoomInv' /\ Reserves!GiveBack
    BY ZenonT(60), <1>8, FreeSlotMoves DEF DropReservation, FreeReleased
  <2> QED BY ZenonT(60), <2>1 DEF Reserves!Next
<1>9. ASSUME NEW t \in HeapTasks, HeapCancel(t) PROVE Moves
  BY ZenonT(60), <1>9, CancelMoves DEF Reserves!Next
<1>10. ASSUME NEW t \in HeapTasks, MarkLive(t) \/ FillSlot(t) \/ GetChecks(t) \/ CallEnds(t) \/ CloseResource(t)
       PROVE  Moves
  <2>1. PICK o \in {"inserts", "none", "uses", "frees"} : heapOp' = [heapOp EXCEPT ![t] = o]
    BY ZenonT(60), <1>10 DEF MarkLive, FillSlot, GetChecks, CallEnds, CloseResource, HeapReturns, HeapAt
  <2>2. heapOp[t] # "reserves" /\ UNCHANGED <<free, roomWaiters, heapWaits>>
    BY ZenonT(60), <1>10 DEF MarkLive, FillSlot, GetChecks, CallEnds, CloseResource, heapState
  <2> QED BY ZenonT(60), <1>3, <2>1, <2>2
<1>11. ASSUME NEW t \in HeapTasks, NEW s \in Slots, GetToken(t, s) \/ ReleaseSlot(t, s) PROVE Moves
  <2>1. PICK o \in {"reads", "closes", "none"} : heapOp' = [heapOp EXCEPT ![t] = o]
    BY ZenonT(60), <1>11 DEF GetToken, ReleaseSlot, HeapReturns, HeapAt
  <2>2. heapOp[t] # "reserves" /\ UNCHANGED <<free, roomWaiters, heapWaits>>
    BY ZenonT(60), <1>11 DEF GetToken, ReleaseSlot, heapState
  <2> QED BY ZenonT(60), <1>3, <2>1, <2>2
<1>12. ASSUME NEW s \in Slots, Clone(s) \/ DropRef(s) PROVE Moves
  <2>1. UNCHANGED <<free, roomWaiters, heapWaits, heapOp>>
    BY ZenonT(60), <1>12 DEF Clone, DropRef, heapState, heapCalls
  <2> QED BY ZenonT(60), <1>2, <2>1
<1>13. CASE UNCHANGED heapVars
  <2>1. UNCHANGED <<free, roomWaiters, heapWaits, heapOp>>
    BY ZenonT(60), <1>13 DEF heapVars, heapState, heapCalls
  <2> QED BY ZenonT(60), <1>2, <2>1
<1>14. CASE HeapNext
  <2>1. CASE \E s \in Slots : Clone(s) \/ DropRef(s)
    BY ZenonT(60), <1>12, <2>1
  <2>2. CASE \E t \in HeapTasks : \E s \in Slots : GetToken(t, s) \/ ReleaseSlot(t, s)
    BY ZenonT(60), <1>11, <2>2
  <2>3. ASSUME NEW t \in HeapTasks,
               \/ Reserve(t) \/ TryReserve(t) \/ DropReservation(t) \/ MarkLive(t) \/ CallEnds(t) \/ HeapCancel(t)
               \/ HeapGoes(t)
        PROVE  Moves
    BY ZenonT(60), <1>6, <1>7, <1>8, <1>9, <1>10, <2>3 DEF HeapGoes
  <2> QED BY ZenonT(60), <1>14, <2>1, <2>2, <2>3 DEF HeapNext
<1>15. Moves
  BY ZenonT(60), <1>13, <1>14
<1> QED BY ZenonT(60), <1>15

\* The types hold for any tasks, slots and bounds; the stack of free slots never
\* outgrows the heap (the `free` of ResourceHeap::new has room for all).
THEOREM HeapIsTyped == HeapSpec => []HeapTypeOK
<1>1. HeapInit => HeapInv /\ RoomInv
  BY ZenonT(60), HeapStart, RoomStart
<1>2. HeapInv /\ RoomInv /\ [HeapNext]_heapVars => (HeapInv /\ RoomInv)'
  BY ZenonT(60), HeapStep, RoomStep
<1>3. HeapInv /\ RoomInv => HeapTypeOK
  BY ZenonT(60), FreeFits DEF HeapInv, HeapTypes, HeapOps, RoomInv, RoomTypes, HeapTypeOK
<1> QED BY <1>1, <1>2, <1>3, PTL DEF HeapSpec

\* ResourceHeap's reservations, with the slots that return through free_slot,
\* implement module Pool: what is proved of a pool, that no free place is missed
\* by a task that sleeps for one, is true of the slots.
THEOREM ReservingImplementsPool == HeapSpec => ReservesLikeAPool
<1>1. HeapInit => HeapInv /\ RoomInv /\ Reserves!Init
  BY ZenonT(60), HeapStart, RoomStart
<1>2. HeapInv /\ RoomInv /\ [HeapNext]_heapVars => (HeapInv /\ RoomInv)'
  BY ZenonT(60), HeapStep, RoomStep
<1>3. HeapInv /\ RoomInv /\ [HeapNext]_heapVars => [Reserves!Next]_(Reserves!vars)
  BY ZenonT(60), RoomStep
<1> QED BY <1>1, <1>2, <1>3, PTL DEF HeapSpec, ReservesLikeAPool, Reserves!Spec
=============================================================================
