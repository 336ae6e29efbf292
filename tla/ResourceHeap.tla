---------------------------- MODULE ResourceHeap ----------------------------
(***************************************************************************)
(* The slots in which the host keeps what Roc holds handles to:            *)
(* src/src/resource.rs.  Sockets, channel ends, task handles and groups    *)
(* live in such heaps.                                                     *)
(*                                                                         *)
(* A handle is a pointer into its slot.  Roc counts its references in the  *)
(* slot (`refs`); a host call owns one while it runs (`uses`), and when    *)
(* the last one goes the slot is released.  `given` remembers which        *)
(* resource the references of a slot were handed out for.  A resource is   *)
(* known by the number of its insertion.                                   *)
(*                                                                         *)
(* An action is one critical section of the heap's mutex, or one access    *)
(* of a slot outside it.  A wake-up is one step (see TaskWake).            *)
(***************************************************************************)
EXTENDS Waiters, FiniteSets

CONSTANTS
    HeapTasks,
    Slots,      \* indexes of the slots; its size is the capacity
    NoSlot,
    MaxRefs,    \* bound on the references to a handle
    MaxInserts  \* bound on the insertions into a slot: wrap-around needs 2^48

ASSUME HeapAssumption ==
    /\ IsFiniteSet(HeapTasks)
    /\ IsFiniteSet(Slots) /\ Slots # {} /\ NoSlot \notin Slots
    /\ MaxRefs \in Nat /\ MaxInserts \in Nat

VARIABLES
    free,         \* State::free, a stack
    generations,  \* State::generations
    inUse,        \* State::live
    roomWaiters,  \* State::waiters
    token,        \* Slot::token: its generation
    resource,     \* Slot::resource, 0 if there is none
    refs,         \* Slot::refcount
    given,        \* the resource the references stand for (history)
    heapClosing,  \* resources taken out of their slots and not closed yet
    heapOp,       \* what each task is at
    slot,         \* the slot it has to do with
    seen,         \* the token it read
    inWait,       \* whether it is in a wait nothing has ended
    heapWoke,     \* how its last wait ended
    heapCancelled \* Task::cancelled

heapState == <<free, generations, inUse>>
memory == <<token, resource, refs, given, heapClosing>>
heapCalls == <<heapOp, slot, seen>>
heapWaits == <<inWait, heapWoke, heapCancelled>>
heapVars == <<heapState, roomWaiters, memory, heapCalls, heapWaits>>

\* ResourceHeap::new, for some order of the slots.
HeapInit ==
    /\ free \in {f \in [1..Cardinality(Slots) -> Slots] : \A i, j \in DOMAIN f : f[i] = f[j] => i = j}
    /\ generations = [s \in Slots |-> 0]
    /\ inUse = [s \in Slots |-> FALSE]
    /\ roomWaiters = <<>>
    /\ token = [s \in Slots |-> 0]
    /\ resource = [s \in Slots |-> 0]
    /\ refs = [s \in Slots |-> 0]
    /\ given = [s \in Slots |-> 0]
    /\ heapClosing = [s \in Slots |-> 0]
    /\ heapOp = [t \in HeapTasks |-> "none"]
    /\ slot = [t \in HeapTasks |-> NoSlot]
    /\ seen = [t \in HeapTasks |-> 0]
    /\ inWait = [t \in HeapTasks |-> FALSE]
    /\ heapWoke = [t \in HeapTasks |-> "Ready"]
    /\ heapCancelled = [t \in HeapTasks |-> FALSE]

HeapAt(t, o, s, k) ==
        /\ heapOp' = [heapOp EXCEPT ![t] = o]
        /\ slot' = [slot EXCEPT ![t] = s]
        /\ seen' = [seen EXCEPT ![t] = k]

HeapReturns(t) == HeapAt(t, "none", NoSlot, 0)

-----------------------------------------------------------------------------
(* reserve and try_reserve; dropping a reservation.                        *)

PopFree(t) ==
    /\ free # <<>>
    /\ free' = SubSeq(free, 1, Len(free) - 1)
    /\ roomWaiters' = Remove(roomWaiters, t)
    /\ HeapAt(t, "holds", free[Len(free)], 0)
    /\ UNCHANGED <<generations, inUse, memory, heapWaits>>

WaitForRoom(t) ==
    /\ free = <<>>
    /\ roomWaiters' = Add(Remove(roomWaiters, t), t)
    /\ inWait' = [inWait EXCEPT ![t] = ~heapCancelled[t]]
    /\ heapWoke' = [heapWoke EXCEPT ![t] = IF heapCancelled[t] THEN "Cancelled" ELSE "Ready"]
    /\ HeapAt(t, "reserves", NoSlot, 0)
    /\ UNCHANGED <<heapState, memory, heapCancelled>>

Reserve(t) == heapOp[t] = "none" /\ (PopFree(t) \/ WaitForRoom(t))

TryReserve(t) == heapOp[t] = "none" /\ PopFree(t)

ReserveWoken(t) ==
    /\ heapOp[t] = "reserves" /\ ~inWait[t]
    /\ IF heapWoke[t] = "Cancelled"
         THEN roomWaiters' = Remove(roomWaiters, t) /\ HeapReturns(t) /\ UNCHANGED <<heapState, memory, heapWaits>>
         ELSE PopFree(t) \/ WaitForRoom(t)

\* free_slot, and as a mutant one that wakes nobody.
FreeSlotSilently(s) ==
    /\ free' = Append(free, s)
    /\ UNCHANGED <<roomWaiters, heapWaits>>
FreeHeapSlot(s) ==
    /\ free' = Append(free, s)
    /\ roomWaiters' = LeftByOne(roomWaiters, inWait)
    /\ LET woken == WokenByOne(roomWaiters, inWait) IN
         /\ inWait' = [t \in HeapTasks |-> inWait[t] /\ t \notin woken]
         /\ heapWoke' = [t \in HeapTasks |-> IF t \in woken THEN "Ready" ELSE heapWoke[t]]
    /\ UNCHANGED heapCancelled

DropReservation(t) ==
    /\ heapOp[t] = "holds"
    /\ FreeHeapSlot(slot[t])
    /\ HeapReturns(t)
    /\ UNCHANGED <<generations, inUse, memory>>

-----------------------------------------------------------------------------
(* insert.                                                                 *)

\* Under the mutex ...
MarkLive(t) ==
    /\ heapOp[t] = "holds" /\ generations[slot[t]] < MaxInserts
    /\ generations' = [generations EXCEPT ![slot[t]] = @ + 1]
    /\ inUse' = [inUse EXCEPT ![slot[t]] = TRUE]
    /\ HeapAt(t, "inserts", slot[t], generations[slot[t]] + 1)
    /\ UNCHANGED <<free, roomWaiters, memory, heapWaits>>

\* ... and then, outside it, the slot; Roc gets one reference.  As a mutant, the
\* token is left as it was.
FillSlotOldToken(t) ==
    /\ heapOp[t] = "inserts"
    /\ resource' = [resource EXCEPT ![slot[t]] = seen[t]]
    /\ refs' = [refs EXCEPT ![slot[t]] = 1]
    /\ given' = [given EXCEPT ![slot[t]] = seen[t]]
    /\ HeapReturns(t)
    /\ UNCHANGED <<heapState, roomWaiters, token, heapClosing, heapWaits>>
FillSlot(t) ==
    /\ heapOp[t] = "inserts"
    /\ resource' = [resource EXCEPT ![slot[t]] = seen[t]]
    /\ token' = [token EXCEPT ![slot[t]] = seen[t]]
    /\ refs' = [refs EXCEPT ![slot[t]] = 1]
    /\ given' = [given EXCEPT ![slot[t]] = seen[t]]
    /\ HeapReturns(t)
    /\ UNCHANGED <<heapState, roomWaiters, heapClosing, heapWaits>>

-----------------------------------------------------------------------------
(* References, which Roc counts (external), and get.                       *)

Users(s) == {t \in HeapTasks : heapOp[t] \in {"reads", "uses"} /\ slot[t] = s}

Clone(s) ==
    /\ refs[s] > 0 /\ refs[s] < MaxRefs
    /\ refs' = [refs EXCEPT ![s] = @ + 1]
    /\ UNCHANGED <<heapState, roomWaiters, token, resource, given, heapClosing, heapCalls, heapWaits>>

\* A host call with a reference of its own reads the token ...
GetToken(t, s) ==
    /\ heapOp[t] = "none" /\ refs[s] > Cardinality(Users(s))
    /\ HeapAt(t, "reads", s, token[s])
    /\ UNCHANGED <<heapState, roomWaiters, memory, heapWaits>>

\* ... checks it under the mutex, and goes on with the resource if it is valid.
Valid(t) == inUse[slot[t]] /\ seen[t] = generations[slot[t]]
GetChecks(t) ==
    /\ heapOp[t] = "reads"
    /\ HeapAt(t, "uses", slot[t], IF Valid(t) THEN resource[slot[t]] ELSE 0)
    /\ UNCHANGED <<heapState, roomWaiters, memory, heapWaits>>

\* A reference goes, a call's or one that no call has; it is not the last one.
DropRef(s) ==
    /\ refs[s] > Cardinality(Users(s)) /\ refs[s] > 1
    /\ refs' = [refs EXCEPT ![s] = @ - 1]
    /\ UNCHANGED <<heapState, roomWaiters, token, resource, given, heapClosing, heapCalls, heapWaits>>
CallEnds(t) ==
    /\ heapOp[t] = "uses" /\ refs[slot[t]] > 1
    /\ refs' = [refs EXCEPT ![slot[t]] = @ - 1]
    /\ HeapReturns(t)
    /\ UNCHANGED <<heapState, roomWaiters, token, resource, given, heapClosing, heapWaits>>

-----------------------------------------------------------------------------
(* release, in the task that drops the last reference.                     *)

\* The resource is taken out under the mutex ...
ReleaseSlot(t, s) ==
    /\ \/ heapOp[t] = "none" /\ refs[s] = 1 /\ Users(s) = {}
       \/ heapOp[t] = "uses" /\ slot[t] = s /\ refs[s] = 1
    /\ refs' = [refs EXCEPT ![s] = 0]
    /\ given' = [given EXCEPT ![s] = 0]
    /\ IF inUse[s]
         THEN /\ inUse' = [inUse EXCEPT ![s] = FALSE]
              /\ heapClosing' = [heapClosing EXCEPT ![s] = resource[s]]
              /\ resource' = [resource EXCEPT ![s] = 0]
              /\ HeapAt(t, "closes", s, 0)
         ELSE HeapReturns(t) /\ UNCHANGED <<inUse, heapClosing, resource>>
    /\ UNCHANGED <<free, generations, roomWaiters, token, heapWaits>>

\* ... closed outside it, and only then is the slot free again.
CloseResource(t) ==
    /\ heapOp[t] = "closes"
    /\ heapClosing' = [heapClosing EXCEPT ![slot[t]] = 0]
    /\ HeapAt(t, "frees", slot[t], 0)
    /\ UNCHANGED <<heapState, roomWaiters, token, resource, refs, given, heapWaits>>

FreeReleased(t) ==
    /\ heapOp[t] = "frees"
    /\ FreeHeapSlot(slot[t])
    /\ HeapReturns(t)
    /\ UNCHANGED <<generations, inUse, memory>>

HeapCancel(t) ==
    /\ ~heapCancelled[t]
    /\ heapCancelled' = [heapCancelled EXCEPT ![t] = TRUE]
    /\ inWait' = [inWait EXCEPT ![t] = FALSE]
    /\ heapWoke' = [heapWoke EXCEPT ![t] = IF inWait[t] THEN "Cancelled" ELSE @]
    /\ UNCHANGED <<heapState, roomWaiters, memory, heapCalls>>

\* What a task does next without Roc's choice.
HeapGoes(t) == ReserveWoken(t) \/ FillSlot(t) \/ GetChecks(t) \/ CloseResource(t) \/ FreeReleased(t)

HeapNext ==
    \/ \E t \in HeapTasks : \/ Reserve(t) \/ TryReserve(t) \/ DropReservation(t) \/ MarkLive(t)
                            \/ CallEnds(t) \/ HeapCancel(t) \/ HeapGoes(t)
                            \/ \E s \in Slots : GetToken(t, s) \/ ReleaseSlot(t, s)
    \/ \E s \in Slots : Clone(s) \/ DropRef(s)

HeapSpec == HeapInit /\ [][HeapNext]_heapVars

-----------------------------------------------------------------------------
(* Properties.                                                             *)

Generations == 0..MaxInserts

\* The types of the heap's fields and of the calls; the stack of free slots
\* never outgrows the heap.
HeapTypeOK ==
    /\ free \in Seq(Slots) /\ Len(free) <= Cardinality(Slots)
    /\ generations \in [Slots -> Generations] /\ inUse \in [Slots -> BOOLEAN]
    /\ roomWaiters \in Seq(HeapTasks)
    /\ token \in [Slots -> Generations] /\ resource \in [Slots -> Generations]
    /\ refs \in [Slots -> Nat]
    /\ given \in [Slots -> Generations] /\ heapClosing \in [Slots -> Generations]
    /\ heapOp \in [HeapTasks -> {"none", "reserves", "holds", "inserts", "reads", "uses", "closes", "frees"}]
    /\ slot \in [HeapTasks -> Slots \cup {NoSlot}] /\ seen \in [HeapTasks -> Generations]
    /\ inWait \in [HeapTasks -> BOOLEAN] /\ heapWoke \in [HeapTasks -> {"Ready", "Cancelled"}]
    /\ heapCancelled \in [HeapTasks -> BOOLEAN]

\* A call that owns a reference finds the resource its handle was given out
\* for, whoever reserves, inserts, clones and releases meanwhile; and a slot is
\* in nobody's hands while the resource that was in it is still closing, so the
\* capacity bounds what is open.
LookupsFindTheirOwn ==
    /\ \A t \in HeapTasks : heapOp[t] = "uses" => seen[t] # 0 /\ seen[t] = given[slot[t]]
    /\ \A s \in Slots : heapClosing[s] # 0 =>
         /\ ~Has(free, s) /\ refs[s] = 0
         /\ \A t \in HeapTasks : slot[t] = s => heapOp[t] = "closes"

\* How the claims of the tasks stand, for module Pool.
Reserving == [t \in HeapTasks |-> IF heapOp[t] # "reserves" THEN "none"
                                  ELSE IF inWait[t] THEN "asleep"
                                  ELSE IF heapWoke[t] = "Cancelled" THEN "cancelled" ELSE "woken"]
Unlimited == [t \in HeapTasks |-> "none"]
HeapStopped == {t \in HeapTasks : heapCancelled[t]}
SlotsTaken == Cardinality(Slots) - Len(free)

\* Reserving behaves as module Pool, with deadlines never.
Reserves == INSTANCE Pool WITH
    waiters <- roomWaiters, Tasks <- HeapTasks, Size <- Cardinality(Slots), Cancellable <- TRUE, Limits <- {"none"},
    taken <- SlotsTaken, claim <- Reserving, limit <- Unlimited, cancelled <- HeapStopped
ReservesLikeAPool == Reserves!Spec
=============================================================================
