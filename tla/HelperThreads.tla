---------------------------- MODULE HelperThreads ----------------------------
(***************************************************************************)
(* Work that blocks, on helper threads: `blocking` of src/src/sched.rs,    *)
(* which name lookups and file operations go through.  A task claims one   *)
(* of MAX_BLOCKING_THREADS slots, starts a thread that owns the slot and   *)
(* waits for its result; a call that gives up leaves the thread to finish. *)
(*                                                                         *)
(* An action is one critical section of a mutex: BLOCKING's or that of a   *)
(* call's result, which a caller and its thread share.  A wake-up is one   *)
(* step (see TaskWake).  A call outside any task runs the work itself and  *)
(* is not modelled.                                                        *)
(***************************************************************************)
EXTENDS Waiters, FiniteSets

CONSTANTS
    Callers,
    Threads,    \* names of threads, used again when a thread is over
    NoThread,
    MaxThreads  \* MAX_BLOCKING_THREADS

ASSUME ThreadsAssumption ==
    /\ IsFiniteSet(Callers) /\ IsFiniteSet(Threads)
    /\ NoThread \notin Threads
    /\ MaxThreads \in Nat \ {0}

VARIABLES
    busy,            \* BLOCKING.0
    waiting,         \* BLOCKING.1
    op,              \* where the call of each task is
    limit,           \* its deadline
    thread,          \* the thread it started
    callerLive,      \* whether the task is in a wait nothing has ended
    callerWoke,      \* how its last wait ended
    callerCancelled, \* Task::cancelled
    run,             \* what each thread is at
    done,            \* whether its result is there: result.0
    watcher          \* the task waiting for it: result.1

call == <<op, limit, thread>>
callerWaits == <<callerLive, callerWoke, callerCancelled>>
helpers == <<run, done, watcher>>
threadVars == <<busy, waiting, call, callerWaits, helpers>>

Limits == {"none", "ahead", "passed"}

ThreadsInit ==
    /\ busy = 0 /\ waiting = <<>>
    /\ op = [t \in Callers |-> "none"]
    /\ limit = [t \in Callers |-> "none"]
    /\ thread = [t \in Callers |-> NoThread]
    /\ callerLive = [t \in Callers |-> FALSE]
    /\ callerWoke = [t \in Callers |-> "Ready"]
    /\ callerCancelled = [t \in Callers |-> FALSE]
    /\ run = [h \in Threads |-> "unused"]
    /\ done = [h \in Threads |-> FALSE]
    /\ watcher = [h \in Threads |-> {}]

At(t, o, l, h) ==
    /\ op' = [op EXCEPT ![t] = o]
    /\ limit' = [limit EXCEPT ![t] = l]
    /\ thread' = [thread EXCEPT ![t] = h]

Return(t) == At(t, "none", "none", NoThread)

Wake(ts, how) ==
    /\ callerLive' = [t \in Callers |-> callerLive[t] /\ t \notin ts]
    /\ callerWoke' = [t \in Callers |-> IF callerLive[t] /\ t \in ts THEN how ELSE callerWoke[t]]
    /\ UNCHANGED callerCancelled

StartWait(t) ==
    /\ callerLive' = [callerLive EXCEPT ![t] = ~callerCancelled[t]]
    /\ callerWoke' = [callerWoke EXCEPT ![t] = IF callerCancelled[t] THEN "Cancelled" ELSE "Ready"]
    /\ UNCHANGED callerCancelled

-----------------------------------------------------------------------------
(* claim_blocking_slot.                                                    *)

TakeSlot(t, l) ==
    /\ busy < MaxThreads
    /\ busy' = busy + 1
    /\ waiting' = Remove(waiting, t)
    /\ At(t, "starts", l, NoThread)
    /\ UNCHANGED <<callerWaits, helpers>>

\* Returns TimedOut or Cancelled.
ClaimFails(t) ==
    /\ waiting' = Remove(waiting, t)
    /\ Return(t)
    /\ UNCHANGED <<busy, callerWaits, helpers>>

WaitForSlot(t, l) ==
    /\ busy >= MaxThreads /\ l # "passed"
    /\ waiting' = Add(Remove(waiting, t), t)
    /\ StartWait(t)
    /\ At(t, "claims", l, NoThread)
    /\ UNCHANGED <<busy, helpers>>

ClaimPass(t, l) ==
    \/ TakeSlot(t, l)
    \/ busy >= MaxThreads /\ l = "passed" /\ ClaimFails(t)
    \/ WaitForSlot(t, l)

Claim(t, l) == op[t] = "none" /\ ClaimPass(t, l)

ClaimWoken(t) ==
    /\ op[t] = "claims" /\ ~callerLive[t]
    /\ IF callerWoke[t] = "Cancelled" THEN ClaimFails(t) ELSE ClaimPass(t, limit[t])

\* Drop for BlockingSlot.  As a mutant, it forgets who waits.
GiveBackSilently ==
    /\ busy' = busy - 1
    /\ UNCHANGED <<waiting, callerWaits>>
GiveBack ==
    /\ busy' = busy - 1
    /\ Wake(WokenByOne(waiting, callerLive), "Ready")
    /\ waiting' = LeftByOne(waiting, callerLive)

-----------------------------------------------------------------------------
(* The thread.                                                             *)

StartThread(t, h) ==
    /\ op[t] = "starts"
    /\ run[h] = "unused" /\ \A u \in Callers : thread[u] # h
    /\ run' = [run EXCEPT ![h] = "works"]
    /\ done' = [done EXCEPT ![h] = FALSE]
    /\ At(t, "looks", limit[t], h)
    /\ UNCHANGED <<busy, waiting, callerWaits, watcher>>

\* The system has no thread: what the thread would own, the slot, is dropped.
\* As a mutant, the slot is not.
StartFailsLeaking(t) ==
    /\ op[t] = "starts"
    /\ Return(t)
    /\ UNCHANGED <<busy, waiting, callerWaits, helpers>>
SpawnFails(t) ==
    /\ op[t] = "starts"
    /\ GiveBack
    /\ Return(t)
    /\ UNCHANGED helpers

\* The work is done; nobody need be waiting for it any more.  As a mutant, the
\* result is there but its caller is not told.
StoreUntold(h) ==
    /\ run[h] = "works"
    /\ run' = [run EXCEPT ![h] = "stored"]
    /\ done' = [done EXCEPT ![h] = TRUE]
    /\ UNCHANGED <<busy, waiting, call, callerWaits, watcher>>
KeepResult(h) ==
    /\ run[h] = "works"
    /\ run' = [run EXCEPT ![h] = "stored"]
    /\ done' = [done EXCEPT ![h] = TRUE]
    /\ Wake(watcher[h], "Ready")
    /\ watcher' = [watcher EXCEPT ![h] = {}]
    /\ UNCHANGED <<busy, waiting, call>>

\* The thread ends and its slot is dropped after the result was stored.
ThreadEnds(h) ==
    /\ run[h] = "stored"
    /\ run' = [run EXCEPT ![h] = "unused"]
    /\ GiveBack
    /\ UNCHANGED <<call, done, watcher>>

-----------------------------------------------------------------------------
(* The caller waits for the result.                                        *)

\* With the value, or without it: out of time or cancelled.
CallReturns(t) ==
    /\ watcher' = [watcher EXCEPT ![thread[t]] = @ \ {t}]
    /\ Return(t)
    /\ UNCHANGED <<busy, waiting, callerWaits, run, done>>

WaitForResult(t) ==
    /\ ~done[thread[t]] /\ limit[t] # "passed"
    /\ watcher' = [watcher EXCEPT ![thread[t]] = {t}]
    /\ StartWait(t)
    /\ At(t, "awaits", limit[t], thread[t])
    /\ UNCHANGED <<busy, waiting, run, done>>

LookPass(t) ==
    \/ (done[thread[t]] \/ limit[t] = "passed") /\ CallReturns(t)
    \/ WaitForResult(t)

Look(t) == op[t] = "looks" /\ LookPass(t)

LookWoken(t) ==
    /\ op[t] = "awaits" /\ ~callerLive[t]
    /\ IF callerWoke[t] = "Cancelled" THEN CallReturns(t) ELSE LookPass(t)

-----------------------------------------------------------------------------

CancelCall(t) ==
    /\ ~callerCancelled[t]
    /\ callerCancelled' = [callerCancelled EXCEPT ![t] = TRUE]
    /\ callerLive' = [callerLive EXCEPT ![t] = FALSE]
    /\ callerWoke' = [callerWoke EXCEPT ![t] = IF callerLive[t] THEN "Cancelled" ELSE @]
    /\ UNCHANGED <<busy, waiting, call, helpers>>

DeadlinePasses(t) ==
    /\ limit[t] = "ahead"
    /\ limit' = [limit EXCEPT ![t] = "passed"]
    /\ UNCHANGED <<busy, waiting, op, thread, callerWaits, helpers>>

FireTimer(t) ==
    /\ callerLive[t] /\ limit[t] = "passed"
    /\ Wake({t}, "TimedOut")
    /\ UNCHANGED <<busy, waiting, call, helpers>>

CallGoes(t) ==
        \/ ClaimWoken(t) \/ SpawnFails(t) \/ Look(t) \/ LookWoken(t)
        \/ \E h \in Threads : StartThread(t, h)

ThreadsNext ==
    \/ \E t \in Callers : \/ \E l \in Limits : Claim(t, l)
                          \/ CallGoes(t) \/ CancelCall(t) \/ DeadlinePasses(t) \/ FireTimer(t)
    \/ \E h \in Threads : KeepResult(h) \/ ThreadEnds(h)

ThreadsSpec == ThreadsInit /\ [][ThreadsNext]_threadVars

\* Tasks and threads run and time passes; the work itself need not end.
ThreadsFairSpec ==
    /\ ThreadsSpec
    /\ \A t \in Callers : WF_threadVars(CallGoes(t)) /\ WF_threadVars(DeadlinePasses(t)) /\ WF_threadVars(FireTimer(t))
    /\ \A h \in Threads : WF_threadVars(ThreadEnds(h))

-----------------------------------------------------------------------------
(* Properties.                                                             *)

\* The types of the count, the calls and the threads.
ThreadsTypeOK ==
    /\ busy \in Nat /\ waiting \in Seq(Callers)
    /\ op \in [Callers -> {"none", "claims", "starts", "looks", "awaits"}]
    /\ limit \in [Callers -> Limits] /\ thread \in [Callers -> Threads \cup {NoThread}]
    /\ callerLive \in [Callers -> BOOLEAN] /\ callerCancelled \in [Callers -> BOOLEAN]
    /\ callerWoke \in [Callers -> {"Ready", "TimedOut", "Cancelled"}]
    /\ run \in [Threads -> {"unused", "works", "stored"}]
    /\ done \in [Threads -> BOOLEAN] /\ watcher \in [Threads -> SUBSET Callers]

\* Every slot in use belongs to a thread, one whose caller has left included,
\* or to a call about to start one: no path loses a slot, and at most
\* MAX_BLOCKING_THREADS run at once.
SlotsHaveOwners ==
    /\ busy = Cardinality({t \in Callers : op[t] = "starts"})
                + Cardinality({h \in Threads : run[h] # "unused"})
    /\ busy <= MaxThreads

\* No caller sleeps beside its result.
ResultIsNoticed ==
    \A t \in Callers : op[t] = "awaits" /\ callerLive[t] => ~done[thread[t]] /\ watcher[thread[t]] = {t}

\* How the wait of a task's claim stands, in the terms of module Pool.
Standing == [t \in Callers |-> IF op[t] # "claims" THEN "none"
                               ELSE IF callerLive[t] THEN "asleep"
                               ELSE IF callerWoke[t] = "Cancelled" THEN "cancelled" ELSE "woken"]
ClaimLimit == [t \in Callers |-> IF op[t] = "claims" THEN limit[t] ELSE "none"]
Stopped == {t \in Callers : callerCancelled[t]}
Claims == INSTANCE Pool WITH
    Tasks <- Callers, Size <- MaxThreads, Cancellable <- TRUE, taken <- busy, waiters <- waiting,
    claim <- Standing, limit <- ClaimLimit, cancelled <- Stopped

\* The claims behave as module Pool, so what holds of it holds of them.
ClaimsLikeAPool == Claims!Spec

\* While a call sleeps for a slot, every free slot has a woken call coming for
\* it, whoever gave up or was cancelled on the way.
NoClaimStranded == Claims!NoneStranded

\* A call whose result is there, or that is cancelled or out of time in a wait,
\* returns or starts its thread, whether or not other work ever ends.
Due(t) ==
    \/ op[t] \in {"looks", "awaits"} /\ done[thread[t]]
    \/ op[t] \in {"claims", "awaits"} /\ (callerCancelled[t] \/ limit[t] = "passed")
CallsEnd == \A t \in Callers : Due(t) ~> op[t] \in {"none", "starts"}
=============================================================================
