------------------------------- MODULE Scopes -------------------------------
(***************************************************************************)
(* Tasks, their handles and one scope: src/src/tasks.rs, Task.spawn!,      *)
(* Task.scope! and Scope.spawn! of platform/Task.roc, and TaskRef of       *)
(* src/src/sched.rs.                                                       *)
(*                                                                         *)
(* Which running task calls what is left open: handles and the scope are   *)
(* values that a Roc program may pass to any task.  A wake-up is one step, *)
(* as module TaskWake shows it may be taken to be but for the race of its  *)
(* run scope_wait.                                                         *)
(***************************************************************************)
EXTENDS Naturals, FiniteSets

CONSTANTS
    Tasks,
    Main,       \* the task that runs main!
    NoTask,
    MaxTasks    \* limits::max_tasks

ASSUME ScopesAssumption ==
    /\ IsFiniteSet(Tasks) /\ Main \in Tasks /\ NoTask \notin Tasks
    /\ MaxTasks \in Nat

VARIABLES
    pc,         \* what each task is at
    scoped,     \* whether the spawn a task is in is the scope's
    target,     \* the task it starts, joins or waits for
    cancelled,  \* Task::cancelled
    handle,     \* whether a handle of the task is left: Task::handles > 0
    result,     \* Task::result
    waiters,    \* who is on the list of Task::finished
    live,       \* whether the task is in a wait nothing has ended
    woke,       \* how its last wait ended
    liveTasks,  \* LIVE_TASKS
    group,      \* the scope: none, open (its body runs), closing, closed
    owner,      \* the task that runs scope!
    members,    \* TaskObj::Group: the list of the group
    closing,    \* what group_close still has to wait for
    started,    \* the tasks Scope.spawn! has returned (history)
    early       \* those added to the group before it was closed (history)

task == <<pc, scoped, target>>
waits == <<waiters, live, woke>>
scope == <<group, owner, members, closing, started, early>>
vars == <<task, cancelled, handle, result, waits, liveTasks, scope>>

Init ==
    /\ pc = [t \in Tasks |-> IF t = Main THEN "runs" ELSE "unborn"]
    /\ scoped = [t \in Tasks |-> FALSE]
    /\ target = [t \in Tasks |-> NoTask]
    /\ cancelled = [t \in Tasks |-> FALSE]
    /\ handle = [t \in Tasks |-> FALSE]
    /\ result = [t \in Tasks |-> FALSE]
    /\ waiters = [t \in Tasks |-> {}]
    /\ live = [t \in Tasks |-> FALSE]
    /\ woke = [t \in Tasks |-> "Ready"]
    /\ liveTasks = 0
    /\ group = "none" /\ owner = NoTask /\ members = {} /\ closing = {}
    /\ started = {} /\ early = {}

Finished(t) == pc[t] = "finished"

Goes(t, p, s, u) ==
    /\ pc' = [pc EXCEPT ![t] = p]
    /\ scoped' = [scoped EXCEPT ![t] = s]
    /\ target' = [target EXCEPT ![t] = u]

-----------------------------------------------------------------------------
(* Waiting for a task: TaskRef::wait_finished.                             *)

\* The mutex of `finished` is held from the look to the new entry.  Only a wait
\* that may be cancelled ends at once in a cancelled task.
Waits(t, u, cancellable) ==
    /\ waiters' = [waiters EXCEPT ![u] = @ \cup {t}]
    /\ live' = [live EXCEPT ![t] = ~(cancellable /\ cancelled[t])]
    /\ woke' = [woke EXCEPT ![t] = IF cancellable /\ cancelled[t] THEN "Cancelled" ELSE "Ready"]

\* Back from park: the entry is removed.
Leaves(t, u) ==
    /\ waiters' = [waiters EXCEPT ![u] = @ \ {t}]
    /\ UNCHANGED <<live, woke>>

-----------------------------------------------------------------------------
(* Starting and ending a task.                                             *)

\* roc_task_spawn claims a slot, as a mutant one too many ...
ClaimOneTooMany(t, s) ==
    /\ pc[t] = "runs"
    /\ s => group # "none"
    /\ liveTasks <= MaxTasks
    /\ liveTasks' = liveTasks + 1
    /\ Goes(t, "spawns", s, NoTask)
    /\ UNCHANGED <<cancelled, handle, result, waits, scope>>
ClaimSlot(t, s) ==
    /\ pc[t] = "runs"
    /\ s => group # "none"
    /\ liveTasks < MaxTasks
    /\ liveTasks' = liveTasks + 1
    /\ Goes(t, "spawns", s, NoTask)
    /\ UNCHANGED <<cancelled, handle, result, waits, scope>>

\* ... then starts a new task, and for Scope.spawn! goes on to roc_group_add ...
StartTask(t, u) ==
    /\ pc[t] = "spawns" /\ pc[u] = "unborn"
    /\ pc' = [pc EXCEPT ![t] = IF scoped[t] THEN "adds" ELSE "runs", ![u] = "runs"]
    /\ target' = [target EXCEPT ![t] = IF scoped[t] THEN u ELSE NoTask]
    /\ scoped' = [scoped EXCEPT ![t] = FALSE]
    /\ handle' = [handle EXCEPT ![u] = TRUE]
    /\ UNCHANGED <<cancelled, result, waits, liveTasks, scope>>

\* ... or finds no room for a handle or no stack, and gives the slot back.
StartFails(t) ==
    /\ pc[t] = "spawns"
    /\ liveTasks' = liveTasks - 1
    /\ Goes(t, "runs", FALSE, NoTask)
    /\ UNCHANGED <<cancelled, handle, result, waits, scope>>

\* roc_group_add's list: it forgets finished tasks.
KeepsUnfinished(u) == {v \in members : ~Finished(v)} \cup {u}

AddToGroup(t) ==
    /\ pc[t] = "adds"
    /\ members' = KeepsUnfinished(target[t])
    /\ early' = IF group = "open" THEN early \cup {target[t]} ELSE early
    /\ started' = IF group # "closed" THEN started \cup {target[t]} ELSE started
    /\ Goes(t, "runs", FALSE, NoTask)
    /\ UNCHANGED <<cancelled, handle, result, waits, liveTasks, group, owner, closing>>

\* The last reference to a handle goes; a call under way holds one.
DropHandle(u) ==
    /\ handle[u]
    /\ \A t \in Tasks : pc[t] \in {"adds", "joins"} => target[t] # u
    /\ handle' = [handle EXCEPT ![u] = FALSE]
    /\ UNCHANGED <<task, cancelled, result, waits, liveTasks, scope>>

\* The task's closure returns: roc_task_finish stores its result.  A task that
\* runs scope! has to leave it first.
StoreResult(t) ==
    /\ pc[t] = "runs" /\ t # Main
    /\ owner = t => group = "closed"
    /\ result' = [result EXCEPT ![t] = TRUE]
    /\ Goes(t, "stored", FALSE, NoTask)
    /\ UNCHANGED <<cancelled, handle, waits, liveTasks, scope>>

\* The job of roc_task_spawn ends and gives the slot back.
FreeSlot(t) ==
    /\ pc[t] = "stored"
    /\ liveTasks' = liveTasks - 1
    /\ Goes(t, "freed", FALSE, NoTask)
    /\ UNCHANGED <<cancelled, handle, result, waits, scope>>

\* run_task: the coroutine has returned.  As a mutant, it wakes nobody.
FinishSilently(t) ==
    /\ pc[t] = "freed"
    /\ Goes(t, "finished", FALSE, NoTask)
    /\ UNCHANGED <<cancelled, handle, result, waits, liveTasks, scope>>
Finish(t) ==
    /\ pc[t] = "freed"
    /\ live' = [u \in Tasks |-> live[u] /\ u \notin waiters[t]]
    /\ woke' = [u \in Tasks |-> IF live[u] /\ u \in waiters[t] THEN "Ready" ELSE woke[u]]
    /\ waiters' = [waiters EXCEPT ![t] = {}]
    /\ Goes(t, "finished", FALSE, NoTask)
    /\ UNCHANGED <<cancelled, handle, result, liveTasks, scope>>

-----------------------------------------------------------------------------
(* Joining and cancelling.                                                 *)

\* roc_task_join returns at once, which changes nothing, or waits.
Join(t, u) ==
    /\ pc[t] = "runs" /\ handle[u] /\ ~Finished(u)
    /\ Waits(t, u, TRUE)
    /\ Goes(t, "joins", FALSE, u)
    /\ UNCHANGED <<cancelled, handle, result, liveTasks, scope>>

\* Woken, it returns Cancelled or the result, or waits again.
JoinWoken(t) ==
    /\ pc[t] = "joins" /\ ~live[t]
    /\ IF woke[t] = "Cancelled" \/ Finished(target[t])
         THEN Leaves(t, target[t]) /\ Goes(t, "runs", FALSE, NoTask)
         ELSE Waits(t, target[t], TRUE) /\ UNCHANGED task
    /\ UNCHANGED <<cancelled, handle, result, liveTasks, scope>>

\* TaskRef::cancel of several tasks: a wait of group_close is spared.  Each
\* cancel is a step of its own in the code; nothing but flags lies between.
Cancels(us) ==
    LET hit == {u \in us : live[u] /\ pc[u] = "joins"} IN
    /\ cancelled' = [u \in Tasks |-> cancelled[u] \/ u \in us]
    /\ live' = [u \in Tasks |-> live[u] /\ u \notin hit]
    /\ woke' = [u \in Tasks |-> IF u \in hit THEN "Cancelled" ELSE woke[u]]
    /\ UNCHANGED waiters

\* roc_task_cancel.
Cancel(t, u) ==
    /\ pc[t] = "runs" /\ handle[u] /\ ~cancelled[u]
    /\ Cancels({u})
    /\ UNCHANGED <<task, handle, result, liveTasks, scope>>

\* roc_group_cancel.
CancelAll(t) ==
    /\ pc[t] = "runs" /\ group # "none"
    /\ Cancels({u \in members : ~Finished(u)})
    /\ UNCHANGED <<task, handle, result, liveTasks, scope>>

-----------------------------------------------------------------------------
(* Task.scope!                                                             *)

OpenScope(t) ==
    /\ pc[t] = "runs" /\ group = "none"
    /\ group' = "open" /\ owner' = t
    /\ UNCHANGED <<task, cancelled, handle, result, waits, liveTasks, members, closing, started, early>>

\* roc_group_close takes the list and, if the body failed, cancels the tasks ...
CloseScope(t, failed) ==
    /\ pc[t] = "runs" /\ owner = t /\ group = "open"
    /\ group' = "closing"
    /\ closing' = members /\ members' = {}
    /\ Cancels(IF failed THEN members ELSE {})
    /\ Goes(t, "closes", FALSE, NoTask)
    /\ UNCHANGED <<handle, result, liveTasks, owner, started, early>>

\* ... waits for one after the other, in a wait that cancelling does not end ...
CloseNextCancellably(t, u) ==
    /\ pc[t] = "closes" /\ target[t] = NoTask /\ u \in closing
    /\ IF Finished(u)
         THEN closing' = closing \ {u} /\ UNCHANGED <<task, waits>>
         ELSE Waits(t, u, TRUE) /\ Goes(t, "closes", FALSE, u) /\ UNCHANGED closing
    /\ UNCHANGED <<cancelled, handle, result, liveTasks, group, owner, members, started, early>>
CloseNext(t, u) ==
    /\ pc[t] = "closes" /\ target[t] = NoTask /\ u \in closing
    /\ IF Finished(u)
         THEN closing' = closing \ {u} /\ UNCHANGED <<task, waits>>
         ELSE Waits(t, u, FALSE) /\ Goes(t, "closes", FALSE, u) /\ UNCHANGED closing
    /\ UNCHANGED <<cancelled, handle, result, liveTasks, group, owner, members, started, early>>

CloseWoken(t) ==
    /\ pc[t] = "closes" /\ target[t] # NoTask /\ ~live[t]
    /\ IF woke[t] = "Cancelled" \/ Finished(target[t])
         THEN /\ Leaves(t, target[t])
              /\ closing' = closing \ {target[t]}
              /\ Goes(t, "closes", FALSE, NoTask)
         ELSE Waits(t, target[t], FALSE) /\ UNCHANGED <<task, closing>>
    /\ UNCHANGED <<cancelled, handle, result, liveTasks, group, owner, members, started, early>>

\* ... and returns when there is none left.
CloseReturns(t) ==
    /\ pc[t] = "closes" /\ target[t] = NoTask /\ closing = {}
    /\ group' = "closed"
    /\ Goes(t, "runs", FALSE, NoTask)
    /\ UNCHANGED <<cancelled, handle, result, waits, liveTasks, owner, members, closing, started, early>>

-----------------------------------------------------------------------------
\* What the Roc program chooses to do.
Chooses(t) ==
    \/ \E s \in BOOLEAN : ClaimSlot(t, s)
    \/ \E u \in Tasks : Join(t, u) \/ Cancel(t, u)
    \/ CancelAll(t) \/ OpenScope(t) \/ StoreResult(t)
    \/ \E failed \in BOOLEAN : CloseScope(t, failed)

\* What the host does next with a task.
Proceeds(t) ==
    \/ \E u \in Tasks : StartTask(t, u) \/ CloseNext(t, u)
    \/ StartFails(t) \/ AddToGroup(t) \/ FreeSlot(t) \/ Finish(t)
    \/ JoinWoken(t) \/ CloseWoken(t) \/ CloseReturns(t)

Next == \E t \in Tasks : Chooses(t) \/ Proceeds(t) \/ DropHandle(t)

Spec == Init /\ [][Next]_vars

\* Tasks in the host's hands get on; what the Roc program does is its choice.
FairSpec == Spec /\ \A t \in Tasks : WF_vars(Proceeds(t))

-----------------------------------------------------------------------------
(* Properties.                                                             *)

Pcs == {"unborn", "runs", "spawns", "adds", "joins", "closes", "stored", "freed", "finished"}

\* The types of every task's fields and of the group.
TypeOK ==
    /\ pc \in [Tasks -> Pcs] /\ scoped \in [Tasks -> BOOLEAN] /\ target \in [Tasks -> Tasks \cup {NoTask}]
    /\ cancelled \in [Tasks -> BOOLEAN] /\ handle \in [Tasks -> BOOLEAN] /\ result \in [Tasks -> BOOLEAN]
    /\ waiters \in [Tasks -> SUBSET Tasks]
    /\ live \in [Tasks -> BOOLEAN] /\ woke \in [Tasks -> {"Ready", "Cancelled"}]
    /\ liveTasks \in Nat
    /\ group \in {"none", "open", "closing", "closed"} /\ owner \in Tasks \cup {NoTask}
    /\ members \subseteq Tasks /\ closing \subseteq Tasks
    /\ started \subseteq Tasks /\ early \subseteq Tasks

\* LIVE_TASKS is exact on every path of a spawn and of a task's end, and never
\* above the limit: no slot leaks, none is given back twice.
Spawning == {t \in Tasks : pc[t] = "spawns"}
Slotted == {t \in Tasks \ {Main} : pc[t] \notin {"unborn", "freed", "finished"}}
SlotsCounted ==
    liveTasks = Cardinality(Spawning) + Cardinality(Slotted) /\ liveTasks <= MaxTasks

\* Nobody sleeps waiting for a task that has finished: wait_finished looks and
\* registers under the mutex under which run_task sets the flag.
NoVainWait ==
    \A t \in Tasks : live[t] => ~Finished(target[t]) /\ t \in waiters[target[t]]

\* A task that was in its scope's group when the body ended has finished when
\* scope! returns, even if the task that runs scope! is cancelled meanwhile.
\* Here a wait ends for its own reasons only.  In the code a Select abandoned
\* before it can leave a late cancellation behind that ends this wait early
\* (TaskWake's ScopeWaitNeverCancelled, which is violated): then this fails too.
ScopeHolds == group = "closed" => \A u \in early : Finished(u)

\* "Either way, no task started in the scope is still running when `scope!`
\* returns" (platform/Task.roc): also the tasks its tasks started in it.
NoneOutlivesScope == group = "closed" => \A u \in started : Finished(u)

\* A join whose task has finished, or whose own task was cancelled, returns,
\* and so does scope! once the tasks it waits for have finished.
Overdue(t) ==
    \/ pc[t] = "joins" /\ (cancelled[t] \/ Finished(target[t]))
    \/ pc[t] = "closes" /\ \A u \in closing : Finished(u)
WaitsEnd == \A t \in Tasks : Overdue(t) ~> pc[t] \notin {"joins", "closes"}
=============================================================================
