-------------------------------- MODULE Pool --------------------------------
(***************************************************************************)
(* Claiming one of a few places and waiting for one to be given back: what *)
(* `Lock` and the helper-thread slots of src/src/sched.rs and              *)
(* `ResourceHeap::reserve` of src/src/resource.rs have in common.  A Lock  *)
(* is a pool of one place, without deadlines and not cancellable.          *)
(*                                                                         *)
(* An action is one critical section of the mutex that guards the count    *)
(* and the waiting list.  Who gives a place back is left open: a guard, a  *)
(* reservation or a slot may be moved to another task or thread.           *)
(***************************************************************************)
EXTENDS Waiters, FiniteSets

CONSTANTS
    Tasks,
    Size,           \* the places: 1, MAX_BLOCKING_THREADS, the heap's capacity
    Cancellable,    \* whether cancelling a task ends its wait
    Limits          \* the deadlines a claim may have: none, ahead or passed

\* What the constants must be for the theorems of PoolProofs.
PoolAssumption ==
    /\ IsFiniteSet(Tasks)
    /\ Size \in Nat \ {0}
    /\ Cancellable \in BOOLEAN
    /\ Limits \subseteq {"none", "ahead", "passed"}

VARIABLES
    taken,      \* how many places are taken
    waiters,    \* the waiting list
    claim,      \* none, or how the wait of a claim stands: asleep, woken, cancelled
    limit,      \* the deadline of the claim
    cancelled   \* the tasks that were cancelled

vars == <<taken, waiters, claim, limit, cancelled>>

Init ==
    /\ taken = 0 /\ waiters = <<>>
    /\ claim = [t \in Tasks |-> "none"]
    /\ limit = [t \in Tasks |-> "none"]
    /\ cancelled = {}

\* Whose wake-up would return true: TaskWaker::wake.
Asleep == [t \in Tasks |-> claim[t] = "asleep"]

-----------------------------------------------------------------------------
(* One pass of the loop of `lock`, `claim_blocking_slot` and `reserve`.    *)

Take(t) ==
    /\ taken < Size
    /\ taken' = taken + 1
    /\ waiters' = Remove(waiters, t)
    /\ claim' = [claim EXCEPT ![t] = "none"]
    /\ limit' = [limit EXCEPT ![t] = "none"]
    /\ UNCHANGED cancelled

Fail(t) ==
    /\ waiters' = Remove(waiters, t)
    /\ claim' = [claim EXCEPT ![t] = "none"]
    /\ limit' = [limit EXCEPT ![t] = "none"]
    /\ UNCHANGED <<taken, cancelled>>

Wait(t, l) ==
    /\ taken >= Size /\ l # "passed"
    /\ waiters' = Add(Remove(waiters, t), t)
    /\ claim' = [claim EXCEPT ![t] = IF Cancellable /\ t \in cancelled THEN "cancelled" ELSE "asleep"]
    /\ limit' = [limit EXCEPT ![t] = l]
    /\ UNCHANGED <<taken, cancelled>>

Pass(t, l) == Take(t) \/ (taken >= Size /\ l = "passed" /\ Fail(t)) \/ Wait(t, l)

Claim(t, l) == claim[t] = "none" /\ Pass(t, l)

\* try_lock and try_reserve; without a free place they change nothing.
TryClaim(t) == claim[t] = "none" /\ Take(t)

\* Back from park.
ClaimWoken(t) ==
    \/ claim[t] = "woken" /\ Pass(t, limit[t])
    \/ claim[t] = "cancelled" /\ Fail(t)

\* Drop of LockGuard, BlockingSlot or Reservation, and free_slot.
GiveBack ==
    /\ taken > 0
    /\ taken' = taken - 1
    /\ waiters' = LeftByOne(waiters, Asleep)
    /\ claim' = [t \in Tasks |-> IF t \in WokenByOne(waiters, Asleep) THEN "woken" ELSE claim[t]]
    /\ UNCHANGED <<limit, cancelled>>

Cancel(t) ==
    /\ t \notin cancelled
    /\ cancelled' = cancelled \cup {t}
    /\ claim' = [claim EXCEPT ![t] = IF Cancellable /\ @ = "asleep" THEN "cancelled" ELSE @]
    /\ UNCHANGED <<taken, waiters, limit>>

DeadlinePasses(t) ==
    /\ limit[t] = "ahead"
    /\ limit' = [limit EXCEPT ![t] = "passed"]
    /\ UNCHANGED <<taken, waiters, claim, cancelled>>

FireTimer(t) ==
    /\ claim[t] = "asleep" /\ limit[t] = "passed"
    /\ claim' = [claim EXCEPT ![t] = "woken"]
    /\ UNCHANGED <<taken, waiters, limit, cancelled>>

Next ==
    \/ GiveBack
    \/ \E t \in Tasks : \/ \E l \in Limits : Claim(t, l)
                        \/ TryClaim(t) \/ ClaimWoken(t)
                        \/ Cancel(t) \/ DeadlinePasses(t) \/ FireTimer(t)

Spec == Init /\ [][Next]_vars

-----------------------------------------------------------------------------
(* Properties.                                                             *)

\* The types of the count, the list and the claims; no more places are taken
\* than there are, so a Lock has one holder.
TypeOK ==
    /\ taken \in 0..Size
    /\ waiters \in Seq(Tasks)
    /\ claim \in [Tasks -> {"none", "asleep", "woken", "cancelled"}]
    /\ limit \in [Tasks -> {"none", "ahead", "passed"}]
    /\ cancelled \subseteq Tasks

\* While a task sleeps, every free place has a woken task coming for it: a
\* place given back is not announced to a task that has given up.
NoneStranded ==
    (\E t \in Tasks : claim[t] = "asleep")
        => Size - taken <= Cardinality({t \in Tasks : claim[t] = "woken"})

\* The list holds tasks that are claiming, once each, and every sleeper.
ListIsCurrent ==
    /\ Once(waiters)
    /\ \A t \in Tasks : /\ Has(waiters, t) => claim[t] # "none"
                        /\ claim[t] = "asleep" => Has(waiters, t)
=============================================================================
