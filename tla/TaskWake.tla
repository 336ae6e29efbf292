------------------------------ MODULE TaskWake ------------------------------
(***************************************************************************)
(* How a task of src/src/sched.rs waits, is woken, cancelled, timed out    *)
(* and run again.  One action per atomic access that another thread can    *)
(* observe: the bits of `Task::state`, `Task::wait`, `Task::woke`,         *)
(* `Task::cancelled` and `Task::cancellable`.                              *)
(*                                                                         *)
(* Workers run tasks.  Callers are the other threads that end waits: a     *)
(* worker delivering an event or a timer, a task on another worker, a      *)
(* helper thread.  A run queue appears here only as the number of copies   *)
(* of a task on it; which queue, and who sleeps, is module Workers.        *)
(***************************************************************************)
EXTENDS Naturals, FiniteSets

CONSTANTS
    Tasks,      \* every task ever created
    Workers,    \* threads that run tasks
    Callers,    \* other threads, that spawn, wake and cancel tasks
    NoTask,     \* no task: of an idle worker or caller
    MaxWait     \* bound: waits started in a behaviour

ASSUME TaskWakeAssumption ==
    /\ NoTask \notin Tasks
    /\ MaxWait \in Nat

VARIABLES
    state,       \* Task::state
    wait,        \* Task::wait: the wait a wake-up may still claim, 0 for none
    woke,        \* Task::woke
    cancellable, \* Task::cancellable
    cancelled,   \* Task::cancelled
    nextWait,    \* NEXT_WAIT
    co,          \* where the task's coroutine is
    kind,        \* the kind of wait it is in, or was in last
    mine,        \* the id of that wait
    timer,       \* the wait of the task's entry in a worker's timers, 0 for none
    queued,      \* copies of the task on run queues
    wpc, cur,    \* a worker's place in run_task, and the task it is running
    cpc,         \* a caller's place in spawn, wake or cancel
    ctask, cwait, \* the task its call is about, and the wait a cancel read
    cwoke        \* the outcome its wake-up will store

taskVars   == <<state, wait, woke, cancellable, cancelled, nextWait>>
coVars     == <<co, kind, mine, timer>>
workerVars == <<wpc, cur>>
callVars   == <<cpc, ctask, cwait, cwoke>>
vars == <<taskVars, coVars, queued, workerVars, callVars>>

Woke == {"Ready", "TimedOut", "Cancelled"}

\* The values of Task::state, by the bits set: "BOTH" is RUNNING | NOTIFIED.
States == {"NONE", "RUNNING", "NOTIFIED", "BOTH", "DONE"}
OrNotified(s) == IF s = "NONE" THEN "NOTIFIED" ELSE IF s = "RUNNING" THEN "BOTH" ELSE s

(***************************************************************************)
(* The waits of the program.  "park": cancellable, through `park` (the     *)
(* users of Waiters::add).  "scope": uncancellable, through `park`         *)
(* (Waiters::add_uncancellable: locks, wait_finished(false)).  "io":       *)
(* cancellable, suspends without looking first (wait_io, MultiWait).       *)
(* "sleep": like "io", but only its timer ends it.                         *)
(***************************************************************************)
Kinds == {"park", "scope", "io", "sleep"}
Cancellable(k) == k # "scope"
MayTimeOut(k)  == k # "scope"
MustTimeOut(k) == k = "sleep"

\* The task's coroutine is between two waits, starting one, or suspended.
Starting  == {"begin", "flagged", "started", "armed"}
Suspended == {"waiting", "yielded"}
CoPlaces  == {"unborn", "code", "resumed", "returned"} \cup Starting \cup Suspended

WorkerPlaces == {"idle", "popped", "run", "requeue"}

CallPlaces == {"idle", "push", "flag", "loaded", "cas", "claimed", "stored"}

Init ==
    /\ state       = [t \in Tasks |-> "NONE"]
    /\ wait        = [t \in Tasks |-> 0]
    /\ woke        = [t \in Tasks |-> "Ready"]
    /\ cancellable = [t \in Tasks |-> FALSE]
    /\ cancelled   = [t \in Tasks |-> FALSE]
    /\ nextWait    = 1
    /\ co          = [t \in Tasks |-> "unborn"]
    /\ kind        = [t \in Tasks |-> "park"]
    /\ mine        = [t \in Tasks |-> 0]
    /\ timer       = [t \in Tasks |-> 0]
    /\ queued      = [t \in Tasks |-> 0]
    /\ wpc         = [w \in Workers |-> "idle"]
    /\ cur         = [w \in Workers |-> NoTask]
    /\ cpc         = [c \in Callers |-> "idle"]
    /\ ctask       = [c \in Callers |-> NoTask]
    /\ cwait       = [c \in Callers |-> 0]
    /\ cwoke       = [c \in Callers |-> "Ready"]

-----------------------------------------------------------------------------
(* A worker: pop and run_task *)

OnQueue(t) == queued[t] > 0

Pop(w, t) ==
    /\ wpc[w] = "idle"
    /\ OnQueue(t)
    /\ queued' = [queued EXCEPT ![t] = @ - 1]
    /\ cur' = [cur EXCEPT ![w] = t]
    /\ wpc' = [wpc EXCEPT ![w] = "popped"]
    /\ UNCHANGED <<taskVars, coVars, callVars>>

\* The store of RUNNING, which also forgets NOTIFIED, and the resumption.
RunTask(w) ==
    /\ wpc[w] = "popped"
    /\ state' = [state EXCEPT ![cur[w]] = "RUNNING"]
    /\ co' = [co EXCEPT ![cur[w]] = IF @ = "waiting" THEN "resumed" ELSE "code"]
    /\ wpc' = [wpc EXCEPT ![w] = "run"]
    /\ UNCHANGED <<wait, woke, cancellable, cancelled, nextWait, kind, mine, timer,
                   queued, cur, callVars>>

\* Mutant: the state is stored, not compared, when the task suspends.
MaySleepAlways(s) == s # "DONE"

\* The coroutine suspended to wait: leave it, unless it was woken meanwhile.
MaySleep(s) == s = "RUNNING"

SuspendedToWait(w) ==
    LET t == cur[w] IN
    /\ wpc[w] = "run"
    /\ co[t] = "waiting"
    /\ MaySleep(state[t])
    /\ state' = [state EXCEPT ![t] = "NONE"]
    /\ wpc' = [wpc EXCEPT ![w] = "idle"]
    /\ cur' = [cur EXCEPT ![w] = NoTask]
    /\ UNCHANGED <<wait, woke, cancellable, cancelled, nextWait, coVars, queued, callVars>>

WokenWhileSuspending(w) ==
    LET t == cur[w] IN
    /\ wpc[w] = "run"
    /\ co[t] = "waiting"
    /\ ~MaySleep(state[t])
    /\ state' = [state EXCEPT ![t] = "NOTIFIED"]
    /\ wpc' = [wpc EXCEPT ![w] = "requeue"]
    /\ UNCHANGED <<wait, woke, cancellable, cancelled, nextWait, coVars, queued, cur, callVars>>

SuspendedToYield(w) ==
    LET t == cur[w] IN
    /\ wpc[w] = "run"
    /\ co[t] = "yielded"
    /\ state' = [state EXCEPT ![t] = "NOTIFIED"]
    /\ wpc' = [wpc EXCEPT ![w] = "requeue"]
    /\ UNCHANGED <<wait, woke, cancellable, cancelled, nextWait, coVars, queued, cur, callVars>>

Requeue(w) ==
    /\ wpc[w] = "requeue"
    /\ queued' = [queued EXCEPT ![cur[w]] = @ + 1]
    /\ wpc' = [wpc EXCEPT ![w] = "idle"]
    /\ cur' = [cur EXCEPT ![w] = NoTask]
    /\ UNCHANGED <<taskVars, coVars, callVars>>

Returned(w) ==
    LET t == cur[w] IN
    /\ wpc[w] = "run"
    /\ co[t] = "returned"
    /\ state' = [state EXCEPT ![t] = "DONE"]
    /\ wpc' = [wpc EXCEPT ![w] = "idle"]
    /\ cur' = [cur EXCEPT ![w] = NoTask]
    /\ UNCHANGED <<wait, woke, cancellable, cancelled, nextWait, coVars, queued, callVars>>

-----------------------------------------------------------------------------
(* The task itself, while a worker runs it *)

Running(t) == \E w \in Workers : wpc[w] = "run" /\ cur[w] = t
At(t, place) == Running(t) /\ co[t] = place

\* begin_wait: a fresh id, and the last outcome is forgotten ...
BeginWait(t) ==
    /\ At(t, "code")
    /\ nextWait <= MaxWait
    /\ \E k \in Kinds : kind' = [kind EXCEPT ![t] = k]
    /\ mine' = [mine EXCEPT ![t] = nextWait]
    /\ nextWait' = nextWait + 1
    /\ woke' = [woke EXCEPT ![t] = "Ready"]
    /\ co' = [co EXCEPT ![t] = "begin"]
    /\ UNCHANGED <<state, wait, cancellable, cancelled, timer, queued, workerVars, callVars>>

\* ... whether cancelling may end it ...
StoreCancellable(t) ==
    /\ At(t, "begin")
    /\ cancellable' = [cancellable EXCEPT ![t] = Cancellable(kind[t])]
    /\ co' = [co EXCEPT ![t] = "flagged"]
    /\ UNCHANGED <<state, wait, woke, cancelled, nextWait, kind, mine, timer, queued,
                   workerVars, callVars>>

\* ... its id, from here on a wake-up's to claim ...
StoreWait(t) ==
    /\ At(t, "flagged")
    /\ wait' = [wait EXCEPT ![t] = mine[t]]
    /\ co' = [co EXCEPT ![t] = "started"]
    /\ UNCHANGED <<state, woke, cancellable, cancelled, nextWait, kind, mine, timer, queued,
                   workerVars, callVars>>

\* Mutant: begin_wait does not look whether the task is cancelled.
EndsItselfNever(t) == FALSE

\* ... and a task already cancelled claims its own wait, marking itself to be
\* queued again once it has suspended.
EndsItself(t) == Cancellable(kind[t]) /\ cancelled[t] /\ wait[t] = mine[t]

CheckCancelled(t) ==
    /\ At(t, "started")
    /\ wait'  = [wait EXCEPT ![t] = IF EndsItself(t) THEN 0 ELSE @]
    /\ woke'  = [woke EXCEPT ![t] = IF EndsItself(t) THEN "Cancelled" ELSE @]
    /\ state' = [state EXCEPT ![t] = IF EndsItself(t) THEN OrNotified(@) ELSE @]
    /\ co' = [co EXCEPT ![t] = "armed"]
    /\ UNCHANGED <<cancellable, cancelled, nextWait, kind, mine, timer, queued,
                   workerVars, callVars>>

\* park: woken already, so say how without suspending.
ParkWoken(t) ==
    /\ At(t, "armed")
    /\ kind[t] \in {"park", "scope"}
    /\ wait[t] = 0
    /\ co' = [co EXCEPT ![t] = "resumed"]
    /\ UNCHANGED <<taskVars, kind, mine, timer, queued, workerVars, callVars>>

\* wait_suspended up to the suspension.  (A task that parks reads `wait` first;
\* a wake-up between that read and the suspension finds RUNNING set.)
WaitSuspended(t) ==
    /\ At(t, "armed")
    /\ kind[t] \in {"park", "scope"} => wait[t] # 0
    /\ \E deadline \in BOOLEAN :
        /\ deadline => MayTimeOut(kind[t])
        /\ MustTimeOut(kind[t]) => deadline
        /\ timer' = [timer EXCEPT ![t] = IF deadline THEN mine[t] ELSE 0]
    /\ co' = [co EXCEPT ![t] = "waiting"]
    /\ UNCHANGED <<taskVars, kind, mine, queued, workerVars, callVars>>

\* The rest of wait_suspended: drop the timer, and read how the wait ended.
WaitReturns(t) ==
    /\ At(t, "resumed")
    /\ timer' = [timer EXCEPT ![t] = 0]
    /\ co' = [co EXCEPT ![t] = "code"]
    /\ UNCHANGED <<taskVars, kind, mine, queued, workerVars, callVars>>

\* MultiWait::abandon, and wait_io on a closed socket: end the wait unsuspended.
\* A wait_io that cannot watch its socket returns the error with the wait still on.
Abandon(t) ==
    /\ At(t, "armed")
    /\ kind[t] = "io"
    /\ \/ wait' = [wait EXCEPT ![t] = IF @ = mine[t] THEN 0 ELSE @]
       \/ UNCHANGED wait
    /\ co' = [co EXCEPT ![t] = "code"]
    /\ UNCHANGED <<state, woke, cancellable, cancelled, nextWait, kind, mine, timer, queued,
                   workerVars, callVars>>

\* yield_now, and consume_budget out of budget; and the job's return.
Yield(t) ==
    /\ At(t, "code")
    /\ co' = [co EXCEPT ![t] = "yielded"]
    /\ UNCHANGED <<taskVars, kind, mine, timer, queued, workerVars, callVars>>

Return(t) ==
    /\ At(t, "code")
    /\ co' = [co EXCEPT ![t] = "returned"]
    /\ UNCHANGED <<taskVars, kind, mine, timer, queued, workerVars, callVars>>

-----------------------------------------------------------------------------
(* The other threads *)

Calls(c, place) == cpc[c] = place

Go(c, place, t, id, how) ==
    /\ cpc'   = [cpc EXCEPT ![c] = place]
    /\ ctask' = [ctask EXCEPT ![c] = t]
    /\ cwait' = [cwait EXCEPT ![c] = id]
    /\ cwoke' = [cwoke EXCEPT ![c] = how]

Ends(c) == Go(c, "idle", NoTask, 0, "Ready")

\* spawn (and run_main, for the first task): a new task starts out NOTIFIED,
\* about to be pushed.
Spawn(c, t) ==
    /\ Calls(c, "idle")
    /\ co[t] = "unborn"
    /\ state' = [state EXCEPT ![t] = "NOTIFIED"]
    /\ co' = [co EXCEPT ![t] = "code"]
    /\ Go(c, "push", t, 0, "Ready")
    /\ UNCHANGED <<wait, woke, cancellable, cancelled, nextWait, kind, mine, timer, queued,
                   workerVars>>

\* wake's compare_exchange, when it succeeds: the wait is the caller's to end.
\* (When it fails, wake does nothing more.)
Claim(c, t, how) ==
    /\ wait' = [wait EXCEPT ![t] = 0]
    /\ Go(c, "claimed", t, 0, how)
    /\ UNCHANGED <<state, woke, cancellable, cancelled, nextWait, coVars, queued, workerVars>>

\* TaskWaker::wake, poll_events, IoReg::close: what the task waits for happened.
\* The waker is handed out once begin_wait has returned.
WakeReady(c, t) ==
    /\ Calls(c, "idle")
    /\ wait[t] # 0
    /\ wait[t] = mine[t] => co[t] # "started" /\ ~MustTimeOut(kind[t])
    /\ Claim(c, t, "Ready")

\* fire_timers, on the worker the task suspended on, so not before it has.
FireTimer(c, t) ==
    /\ Calls(c, "idle")
    /\ timer[t] # 0
    /\ wait[t] = timer[t]
    /\ ~At(t, "waiting")
    /\ Claim(c, t, "TimedOut")

\* TaskRef::cancel: the flag, then the wait, then whether it may be ended.
CancelFlag(c, t) ==
    /\ Calls(c, "idle")
    /\ co[t] # "unborn"
    /\ cancelled' = [cancelled EXCEPT ![t] = TRUE]
    /\ Go(c, "flag", t, 0, "Ready")
    /\ UNCHANGED <<state, wait, woke, cancellable, nextWait, coVars, queued, workerVars>>

CancelLoadWait(c) ==
    LET t == ctask[c] IN
    /\ Calls(c, "flag")
    /\ IF wait[t] = 0 THEN Ends(c) ELSE Go(c, "loaded", t, wait[t], "Ready")
    /\ UNCHANGED <<taskVars, coVars, queued, workerVars>>

\* Mutant: cancel takes no wait for cancellable.
CancelEndsNone(t) == FALSE

CancelMayEnd(t) == cancellable[t]

CancelLoadCancellable(c) ==
    LET t == ctask[c] IN
    /\ Calls(c, "loaded")
    /\ IF CancelMayEnd(t) THEN Go(c, "cas", t, cwait[c], "Ready") ELSE Ends(c)
    /\ UNCHANGED <<taskVars, coVars, queued, workerVars>>

CancelWake(c) ==
    /\ Calls(c, "cas")
    /\ wait[ctask[c]] = cwait[c]
    /\ Claim(c, ctask[c], "Cancelled")

CancelTooLate(c) ==
    /\ Calls(c, "cas")
    /\ wait[ctask[c]] # cwait[c]
    /\ Ends(c)
    /\ UNCHANGED <<taskVars, coVars, queued, workerVars>>

\* The rest of wake: store the outcome, then schedule.
StoreWoke(c) ==
    LET t == ctask[c] IN
    /\ Calls(c, "claimed")
    /\ woke' = [woke EXCEPT ![t] = cwoke[c]]
    /\ Go(c, "stored", t, 0, "Ready")
    /\ UNCHANGED <<state, wait, cancellable, cancelled, nextWait, coVars, queued, workerVars>>

\* Mutants: schedule also pushes a running task, or leaves a sleeping one.
PushRunning(s) == s \in {"NONE", "RUNNING"}
PushNever(s) == FALSE

\* schedule's loop ends on the state it last read: queued or done already,
\* running (its worker will queue it), or this caller's to push.
PushNow(s) == s = "NONE"

Schedule(c) ==
    LET t == ctask[c] IN
    /\ Calls(c, "stored")
    /\ state' = [state EXCEPT ![t] = OrNotified(@)]
    /\ IF PushNow(state[t]) THEN Go(c, "push", t, 0, "Ready") ELSE Ends(c)
    /\ UNCHANGED <<wait, woke, cancellable, cancelled, nextWait, coVars, queued, workerVars>>

Push(c) ==
    /\ Calls(c, "push")
    /\ queued' = [queued EXCEPT ![ctask[c]] = @ + 1]
    /\ Ends(c)
    /\ UNCHANGED <<taskVars, coVars, workerVars>>

-----------------------------------------------------------------------------
WorkerStep(w) ==
    \/ RunTask(w) \/ SuspendedToWait(w) \/ WokenWhileSuspending(w)
    \/ SuspendedToYield(w) \/ Requeue(w) \/ Returned(w)

\* A step inside a wait: the scheduler's own code, which always goes on.
WaitStep(t) ==
    \/ StoreCancellable(t) \/ StoreWait(t) \/ CheckCancelled(t)
    \/ ParkWoken(t) \/ WaitSuspended(t) \/ WaitReturns(t) \/ Abandon(t)

\* A step of the program's code.
CodeStep(t) == BeginWait(t) \/ Yield(t) \/ Return(t)

\* A call made by a caller's own code, and what is left of one it made.
CallStart(c) ==
    \E t \in Tasks : Spawn(c, t) \/ WakeReady(c, t) \/ FireTimer(c, t) \/ CancelFlag(c, t)
CallRest(c) ==
    \/ CancelLoadWait(c) \/ CancelLoadCancellable(c) \/ CancelWake(c) \/ CancelTooLate(c)
    \/ StoreWoke(c) \/ Schedule(c) \/ Push(c)

Next ==
    \/ \E w \in Workers : WorkerStep(w) \/ \E t \in Tasks : Pop(w, t)
    \/ \E t \in Tasks : WaitStep(t) \/ CodeStep(t)
    \/ \E c \in Callers : CallStart(c) \/ CallRest(c)

Spec == Init /\ [][Next]_vars

(***************************************************************************)
(* Workers and the scheduler's own code keep running; a program's code may *)
(* stay between two waits for ever, except that it does not keep its       *)
(* worker (the scheduler is cooperative, and its documents ask for that).  *)
(* Queues are first in, first out, so a queued task is popped in the end   *)
(* even if others keep coming back: strong fairness.                       *)
(***************************************************************************)
Fairness ==
    /\ \A w \in Workers : WF_vars(WorkerStep(w))
    /\ \A t \in Tasks : /\ SF_vars(\E w \in Workers : Pop(w, t))
                        /\ WF_vars(WaitStep(t))
                        /\ WF_vars(CodeStep(t))
    /\ \A c \in Callers : WF_vars(CallRest(c))

FairSpec == Spec /\ Fairness

-----------------------------------------------------------------------------
\* The types of every task's fields and of every caller's locals.
TypeOK ==
    /\ state \in [Tasks -> States]
    /\ wait \in [Tasks -> Nat]
    /\ woke \in [Tasks -> Woke]
    /\ cancellable \in [Tasks -> BOOLEAN]
    /\ cancelled \in [Tasks -> BOOLEAN]
    /\ nextWait \in Nat \ {0}
    /\ co \in [Tasks -> CoPlaces]
    /\ kind \in [Tasks -> Kinds]
    /\ mine \in [Tasks -> Nat]
    /\ timer \in [Tasks -> Nat]
    /\ queued \in [Tasks -> Nat]
    /\ wpc \in [Workers -> WorkerPlaces]
    /\ cur \in [Workers -> Tasks \cup {NoTask}]
    /\ \A w \in Workers : wpc[w] = "idle" <=> cur[w] = NoTask
    /\ cpc \in [Callers -> CallPlaces]
    /\ ctask \in [Callers -> Tasks \cup {NoTask}]
    /\ cwait \in [Callers -> Nat]
    /\ cwoke \in [Callers -> Woke]
    /\ \A c \in Callers : Calls(c, "idle") <=> ctask[c] = NoTask

\* Some thread is bringing t to a queue, holds it, or it is on one.
WorkerHas(w, t) == cur[w] = t
Pushing(c, t)   == Calls(c, "push") /\ ctask[c] = t

(***************************************************************************)
(* A task is in one place.  It is on at most one run queue, at most one    *)
(* worker has it (the only one that may resume its coroutine), at most one *)
(* thread is pushing it, and these exclude each other: whatever wake-ups,  *)
(* cancellations and timers race with its suspension, no two workers ever  *)
(* run one coroutine (sched.rs:126, 153).                                  *)
(***************************************************************************)
OnePlace ==
    \A t \in Tasks :
        /\ queued[t] \in {0, 1}
        /\ \A w, x \in Workers : WorkerHas(w, t) /\ WorkerHas(x, t) => w = x
        /\ \A c, d \in Callers : Pushing(c, t) /\ Pushing(d, t) => c = d
        /\ ~ \E w \in Workers, c \in Callers : WorkerHas(w, t) /\ Pushing(c, t)
        /\ queued[t] = 1 => /\ \A w \in Workers : ~WorkerHas(w, t)
                            /\ \A c \in Callers : ~Pushing(c, t)

\* A thread claimed the task's wait and has yet to schedule it.
Waking(c, t) == cpc[c] \in {"claimed", "stored"} /\ ctask[c] = t

\* The task is suspended and nothing will run it unless a wake-up comes.
Asleep(t) == co[t] = "waiting" /\ state[t] = "NONE"

(***************************************************************************)
(* No wake-up is lost: a task asleep whose wait was claimed has a thread   *)
(* on its way to schedule it (wake, schedule and the end of run_task).     *)
(***************************************************************************)
NoLostWake ==
    \A t \in Tasks : Asleep(t) /\ wait[t] = 0 => \E c \in Callers : Waking(c, t)

\* A cancel call for t that has set the flag and not yet dealt with the wait.
Cancelling(c, t) == cpc[c] \in {"flag", "loaded", "cas"} /\ ctask[c] = t

(***************************************************************************)
(* No cancellation is lost: a cancelled task is never asleep in a wait     *)
(* cancelling may end with neither a cancel call nor a wake-up under way   *)
(* (begin_wait and TaskRef::cancel each write before they read).           *)
(***************************************************************************)
NoLostCancel ==
    \A t \in Tasks :
        Asleep(t) /\ cancelled[t] /\ Cancellable(kind[t]) =>
            \E c \in Callers : Cancelling(c, t) \/ Waking(c, t)

(***************************************************************************)
(* A cancel call never claims a wait that cancelling must not end, however *)
(* stale the `wait` and `cancellable` it read (sched.rs:808-816).          *)
(***************************************************************************)
CancelSparesScopes ==
    [][\A c \in Callers :
        /\ Calls(c, "cas") /\ cpc'[c] = "claimed"
        /\ mine[ctask[c]] = cwait[c]
        => Cancellable(kind[ctask[c]])]_vars

\* A suspended task whose wait was claimed runs again (wake, schedule, run_task).
WokenRuns ==
    \A t \in Tasks : co[t] = "waiting" /\ wait[t] = 0 ~> co[t] # "waiting"

\* So does a task cancelled in, or before, a wait that cancelling may end.
CancelledRuns ==
    \A t \in Tasks :
        co[t] = "waiting" /\ cancelled[t] /\ Cancellable(kind[t]) ~> co[t] # "waiting"

(***************************************************************************)
(* "a wait cancelling mustn't end" (sched.rs:1259): wait_finished(false)   *)
(* and Lock::lock never see their wait end as cancelled.                   *)
(***************************************************************************)
ScopeWaitNeverCancelled ==
    [][\A t \in Tasks :
        co[t] = "resumed" /\ co'[t] = "code" /\ ~Cancellable(kind[t])
        => woke[t] # "Cancelled"]_vars
=============================================================================
