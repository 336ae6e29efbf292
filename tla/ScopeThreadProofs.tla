-------------------------- MODULE ScopeThreadProofs --------------------------
(***************************************************************************)
(* The two limits on what a task may start: tasks and helper threads.      *)
(*                                                                         *)
(* Module Scopes, for any tasks and any limit: types, that every slot of   *)
(* LIVE_TASKS is accounted for, that nobody waits in vain, and that a      *)
(* scope waits for its group.  Module HelperThreads, for any tasks,        *)
(* threads and number of slots: slots are never lost, no caller sleeps     *)
(* beside its result, and the claims of slots implement module Pool.       *)
(***************************************************************************)
EXTENDS Scopes, HelperThreads, WaitersProofs, FiniteSetTheorems, TLAPS

-----------------------------------------------------------------------------
(* Scopes.                                                                 *)

\* A wait that nothing has ended is registered with a task that has not
\* finished.  The wait of group_close, which only its owner is in, is not
\* cancelled.
WaitsRightly(t) ==
    /\ live[t] => /\ pc[t] \in {"joins", "closes"} /\ target[t] \in Tasks
                  /\ ~Finished(target[t]) /\ t \in waiters[target[t]]
    /\ pc[t] \in {"joins", "adds"} => target[t] \in Tasks
    /\ pc[t] = "closes" /\ target[t] \in Tasks => woke[t] = "Ready"
    /\ pc[t] = "closes" => group = "closing" /\ owner = t

\* main! runs as long as the program does.
MainRuns == pc[Main] \notin {"unborn", "stored", "freed", "finished"}

TaskInv == TypeOK /\ MainRuns /\ \A t \in Tasks : WaitsRightly(t)

\* The group, and then group_close, knows every early task that is not finished.
GroupKnows ==
    /\ group = "none" => early = {}
    /\ group = "open" => \A u \in early : Finished(u) \/ u \in members
    /\ group = "closing" => \A u \in early : Finished(u) \/ u \in closing
    /\ ScopeHolds

-----------------------------------------------------------------------------
(* What the parts of a step do.                                            *)

\* What happens to the task that moves on, and to the others.
LEMMA GoesFacts ==
    ASSUME TypeOK, NEW t \in Tasks, NEW p \in Pcs, NEW s \in BOOLEAN, NEW u \in Tasks \cup {NoTask},
           Goes(t, p, s, u)
    PROVE  /\ pc' \in [Tasks -> Pcs] /\ scoped' \in [Tasks -> BOOLEAN]
           /\ target' \in [Tasks -> Tasks \cup {NoTask}]
           /\ pc'[t] = p /\ target'[t] = u
           /\ \A v \in Tasks \ {t} : pc'[v] = pc[v] /\ target'[v] = target[v]
BY ZenonT(60) DEF Goes, TypeOK

\* Waiting for u concerns only the task that waits and the list of u.
LEMMA WaitsFacts ==
    ASSUME TypeOK, NEW t \in Tasks, NEW u \in Tasks, NEW c \in BOOLEAN, Waits(t, u, c)
    PROVE  /\ waiters' \in [Tasks -> SUBSET Tasks]
           /\ live' \in [Tasks -> BOOLEAN] /\ woke' \in [Tasks -> {"Ready", "Cancelled"}]
           /\ t \in waiters'[u] /\ (~c => woke'[t] = "Ready")
           /\ \A v \in Tasks : waiters[v] \subseteq waiters'[v]
           /\ \A v \in Tasks \ {t} : live'[v] = live[v] /\ woke'[v] = woke[v]
BY ZenonT(60) DEF Waits, TypeOK

\* So does leaving it.
LEMMA LeavesFacts ==
    ASSUME TypeOK, NEW t \in Tasks, NEW u \in Tasks, Leaves(t, u)
    PROVE  /\ waiters' \in [Tasks -> SUBSET Tasks] /\ UNCHANGED <<live, woke>>
           /\ \A v \in Tasks, w \in Tasks \ {t} : w \in waiters[v] => w \in waiters'[v]
BY ZenonT(60) DEF Leaves, TypeOK

\* Cancelling ends no wait of group_close.
LEMMA CancelsFacts ==
    ASSUME TypeOK, NEW us \in SUBSET Tasks, Cancels(us)
    PROVE  /\ cancelled' \in [Tasks -> BOOLEAN] /\ waiters' = waiters
           /\ live' \in [Tasks -> BOOLEAN] /\ woke' \in [Tasks -> {"Ready", "Cancelled"}]
           /\ \A v \in Tasks : (live'[v] => live[v]) /\ (pc[v] # "joins" => woke'[v] = woke[v])
BY ZenonT(60) DEF Cancels, TypeOK

\* The next task group_close waits for, or the one it need not wait for.
LEMMA CloseNextFacts ==
    ASSUME TaskInv, NEW t \in Tasks, NEW u \in Tasks, CloseNext(t, u)
    PROVE  \/ Finished(u) /\ closing' = closing \ {u} /\ UNCHANGED <<task, waits>>
           \/ ~Finished(u) /\ Waits(t, u, FALSE) /\ Goes(t, "closes", FALSE, u) /\ UNCHANGED closing
BY Zenon DEF CloseNext

\* group_close and join come back from a wait.
LEMMA WokenFacts ==
    ASSUME TaskInv, NEW t \in Tasks
    PROVE  /\ JoinWoken(t) => /\ pc[t] = "joins" /\ ~live[t] /\ target[t] \in Tasks
                              /\ \/ Leaves(t, target[t]) /\ Goes(t, "runs", FALSE, NoTask)
                                 \/ ~Finished(target[t]) /\ Waits(t, target[t], TRUE) /\ UNCHANGED task
           /\ CloseWoken(t) => /\ pc[t] = "closes" /\ ~live[t] /\ target[t] \in Tasks
                               /\ \/ /\ Finished(target[t]) /\ Leaves(t, target[t])
                                     /\ closing' = closing \ {target[t]}
                                     /\ Goes(t, "closes", FALSE, NoTask)
                                  \/ /\ ~Finished(target[t]) /\ Waits(t, target[t], FALSE)
                                     /\ UNCHANGED <<task, closing>>
<1>1. WaitsRightly(t) /\ target[t] \in Tasks \cup {NoTask}
  BY ZenonT(60) DEF TaskInv, TypeOK
<1> QED BY Zenon, <1>1 DEF WaitsRightly, JoinWoken, CloseWoken

-----------------------------------------------------------------------------
(* Types.                                                                  *)

\* A task that spawns, or runs, has a slot to give back.
LEMMA SlotIsThere ==
    ASSUME TypeOK, SlotsCounted, NEW t \in Tasks
    PROVE  /\ pc[t] = "spawns" => liveTasks - 1 \in Nat
           /\ pc[t] = "stored" /\ t # Main => liveTasks - 1 \in Nat
<1>1. IsFiniteSet(Spawning) /\ IsFiniteSet(Slotted)
  <2>1. Spawning \subseteq Tasks /\ Slotted \subseteq Tasks
    BY ZenonT(60) DEF Spawning, Slotted
  <2> QED BY ZenonT(60), <2>1, ScopesAssumption, FS_Subset
<1>2. /\ Cardinality(Spawning) \in Nat /\ Cardinality(Slotted) \in Nat
      /\ Spawning # {} => Cardinality(Spawning) # 0
      /\ Slotted # {} => Cardinality(Slotted) # 0
  BY ZenonT(60), <1>1, FS_CardinalityType, FS_EmptySet
<1>3. /\ pc[t] = "spawns" => t \in Spawning
      /\ pc[t] = "stored" /\ t # Main => t \in Slotted
  BY ZenonT(60) DEF Spawning, Slotted
<1>4. liveTasks = Cardinality(Spawning) + Cardinality(Slotted)
  BY ZenonT(60) DEF SlotsCounted
<1>5. ASSUME Spawning # {} \/ Slotted # {} PROVE liveTasks - 1 \in Nat
  BY SMTT(40), <1>2, <1>4, <1>5
<1> QED BY ZenonT(60), <1>3, <1>5

\* Every step keeps the types.
LEMMA ScopeTypesInductive ==
    ASSUME TaskInv, SlotsCounted, [Next]_vars
    PROVE  TypeOK'
<1> TypeOK /\ NoTask \notin Tasks
  BY ZenonT(60), ScopesAssumption DEF TaskInv
<1>1. ASSUME NEW t \in Tasks, NEW s \in BOOLEAN, ClaimSlot(t, s) PROVE TypeOK'
  BY SMTT(40), <1>1, GoesFacts DEF ClaimSlot, TypeOK, Pcs, task, waits, scope
<1>2. ASSUME NEW t \in Tasks, NEW u \in Tasks, StartTask(t, u) PROVE TypeOK'
  BY ZenonT(60), <1>2 DEF StartTask, TypeOK, Pcs, task, waits, scope
<1>3. ASSUME NEW t \in Tasks, StartFails(t) PROVE TypeOK'
  <2>1. liveTasks' \in Nat
    BY ZenonT(60), <1>3, SlotIsThere DEF StartFails, TaskInv, MainRuns
  <2> QED BY Zenon, <1>3, <2>1, GoesFacts DEF StartFails, TypeOK, Pcs, task, waits, scope
<1>4. ASSUME NEW t \in Tasks, AddToGroup(t) PROVE TypeOK'
  <2>1. target[t] \in Tasks
    BY ZenonT(60), <1>4 DEF AddToGroup, TaskInv, WaitsRightly
  <2>2. members' \subseteq Tasks /\ early' \subseteq Tasks /\ started' \subseteq Tasks
    BY ZenonT(60), <1>4, <2>1 DEF AddToGroup, KeepsUnfinished, TypeOK
  <2> QED BY Zenon, <1>4, <2>2, GoesFacts DEF AddToGroup, TypeOK, Pcs, waits
<1>5. ASSUME NEW t \in Tasks, DropHandle(t) PROVE TypeOK'
  BY ZenonT(60), <1>5 DEF DropHandle, TypeOK, Pcs, task, waits, scope
<1>6. ASSUME NEW t \in Tasks, StoreResult(t) PROVE TypeOK'
  BY Zenon, <1>6, GoesFacts DEF StoreResult, TypeOK, Pcs, task, waits, scope
<1>7. ASSUME NEW t \in Tasks, FreeSlot(t) PROVE TypeOK'
  <2>1. liveTasks' \in Nat
    BY ZenonT(60), <1>7, SlotIsThere DEF FreeSlot, TaskInv, MainRuns
  <2> QED BY Zenon, <1>7, <2>1, GoesFacts DEF FreeSlot, TypeOK, Pcs, task, waits, scope
<1>8. ASSUME NEW t \in Tasks, Finish(t) PROVE TypeOK'
  <2>1. /\ live' \in [Tasks -> BOOLEAN] /\ woke' \in [Tasks -> {"Ready", "Cancelled"}]
        /\ waiters' \in [Tasks -> SUBSET Tasks]
    BY ZenonT(60), <1>8 DEF Finish, TypeOK
  <2> QED BY Zenon, <1>8, <2>1, GoesFacts DEF Finish, TypeOK, Pcs, task, waits, scope
<1>9. ASSUME NEW t \in Tasks, NEW u \in Tasks, Join(t, u) PROVE TypeOK'
  BY Zenon, <1>9, GoesFacts, WaitsFacts DEF Join, TypeOK, Pcs, task, waits, scope
<1>10. ASSUME NEW t \in Tasks, JoinWoken(t) PROVE TypeOK'
  <2>4. /\ target[t] \in Tasks
        /\ Leaves(t, target[t]) \/ Waits(t, target[t], TRUE)
        /\ Goes(t, "runs", FALSE, NoTask) \/ UNCHANGED task
    BY Zenon, <1>10, WokenFacts
  <2>1. /\ live' \in [Tasks -> BOOLEAN] /\ woke' \in [Tasks -> {"Ready", "Cancelled"}]
        /\ waiters' \in [Tasks -> SUBSET Tasks]
    BY Zenon, <2>4, WaitsFacts, LeavesFacts DEF TypeOK
  <2>2. /\ pc' \in [Tasks -> Pcs] /\ scoped' \in [Tasks -> BOOLEAN]
        /\ target' \in [Tasks -> Tasks \cup {NoTask}]
    <3>1. CASE Goes(t, "runs", FALSE, NoTask)
      BY Zenon, <3>1, GoesFacts DEF Pcs
    <3>2. CASE UNCHANGED task
      BY ZenonT(60), <3>2 DEF task, TypeOK
    <3> QED BY Zenon, <2>4, <3>1, <3>2
  <2> QED BY ZenonT(60), <1>10, <2>1, <2>2 DEF JoinWoken, TypeOK, scope
<1>11. ASSUME NEW t \in Tasks, NEW u \in Tasks, Cancel(t, u) PROVE TypeOK'
  BY ZenonT(60), <1>11, CancelsFacts DEF Cancel, TypeOK, Pcs, task, waits, scope
<1>12. ASSUME NEW t \in Tasks, CancelAll(t) PROVE TypeOK'
  BY ZenonT(60), <1>12, CancelsFacts DEF CancelAll, TypeOK, Pcs, task, waits, scope
<1>13. ASSUME NEW t \in Tasks, OpenScope(t) PROVE TypeOK'
  BY ZenonT(60), <1>13 DEF OpenScope, TypeOK, Pcs, task, waits, scope
<1>14. ASSUME NEW t \in Tasks, NEW f \in BOOLEAN, CloseScope(t, f) PROVE TypeOK'
  <2>1. (IF f THEN members ELSE {}) \in SUBSET Tasks
    BY ZenonT(60) DEF TypeOK
  <2> QED BY Zenon, <1>14, <2>1, CancelsFacts, GoesFacts DEF CloseScope, TypeOK, Pcs, task, waits, scope
<1>15. ASSUME NEW t \in Tasks, NEW u \in Tasks, CloseNext(t, u) PROVE TypeOK'
  <2>1. /\ live' \in [Tasks -> BOOLEAN] /\ woke' \in [Tasks -> {"Ready", "Cancelled"}]
        /\ waiters' \in [Tasks -> SUBSET Tasks]
    BY ZenonT(60), <1>15, CloseNextFacts, WaitsFacts, LeavesFacts DEF TypeOK, waits
  <2>2. /\ pc' \in [Tasks -> Pcs] /\ scoped' \in [Tasks -> BOOLEAN]
        /\ target' \in [Tasks -> Tasks \cup {NoTask}]
    <3>1. CASE Goes(t, "closes", FALSE, u)
      BY Zenon, <3>1, GoesFacts DEF Pcs
    <3>2. CASE UNCHANGED task
      BY ZenonT(60), <3>2 DEF task, TypeOK
    <3> QED BY Zenon, <1>15, <3>1, <3>2, CloseNextFacts
  <2>3. closing' \subseteq Tasks
    BY Zenon, <1>15, CloseNextFacts DEF TypeOK
  <2> QED BY ZenonT(60), <1>15, <2>1, <2>2, <2>3 DEF CloseNext, TypeOK
<1>16. ASSUME NEW t \in Tasks, CloseWoken(t) PROVE TypeOK'
  <2>4. /\ target[t] \in Tasks
        /\ Leaves(t, target[t]) \/ Waits(t, target[t], FALSE)
        /\ Goes(t, "closes", FALSE, NoTask) \/ UNCHANGED task
    BY Zenon, <1>16, WokenFacts
  <2>1. /\ live' \in [Tasks -> BOOLEAN] /\ woke' \in [Tasks -> {"Ready", "Cancelled"}]
        /\ waiters' \in [Tasks -> SUBSET Tasks]
    BY Zenon, <2>4, WaitsFacts, LeavesFacts DEF TypeOK
  <2>2. /\ pc' \in [Tasks -> Pcs] /\ scoped' \in [Tasks -> BOOLEAN]
        /\ target' \in [Tasks -> Tasks \cup {NoTask}]
    <3>1. CASE Goes(t, "closes", FALSE, NoTask)
      BY Zenon, <3>1, GoesFacts DEF Pcs
    <3>2. CASE UNCHANGED task
      BY ZenonT(60), <3>2 DEF task, TypeOK
    <3> QED BY Zenon, <2>4, <3>1, <3>2
  <2>3. closing' \subseteq Tasks
    BY Zenon, <1>16, WokenFacts DEF TypeOK
  <2> QED BY ZenonT(60), <1>16, <2>1, <2>2, <2>3 DEF CloseWoken, TypeOK
<1>17. ASSUME NEW t \in Tasks, CloseReturns(t) PROVE TypeOK'
  BY Zenon, <1>17, GoesFacts DEF CloseReturns, TypeOK, Pcs, task, waits, scope
<1>18. CASE UNCHANGED vars
  BY ZenonT(60), <1>18 DEF vars, TypeOK, task, waits, scope
<1> QED BY ZenonT(60), <1>1, <1>2, <1>3, <1>4, <1>5, <1>6, <1>7, <1>8, <1>9, <1>10, <1>11, <1>12, <1>13, <1>14, <1>15,
           <1>16, <1>17, <1>18
   DEF Next, Chooses, Proceeds

-----------------------------------------------------------------------------
(* Waits.                                                                  *)

\* A step of t that leaves the other tasks as they are, starts one or wakes some.
LEMMA OthersKeep ==
    ASSUME TaskInv, NEW t \in Tasks,
           \A v \in Tasks \ {t} : /\ target'[v] = target[v]
                                  /\ pc'[v] = pc[v] \/ (pc[v] = "unborn" /\ pc'[v] = "runs"),
           \A v \in Tasks \ {t} : live'[v] => live[v] /\ v \in waiters'[target[v]],
           \A v \in Tasks \ {t} : woke'[v] = woke[v] \/ woke'[v] = "Ready" \/ pc[v] = "joins",
           UNCHANGED <<group, owner>> \/ \A v \in Tasks \ {t} : pc[v] # "closes",
           pc'[t] = "finished" => pc[t] = "finished" \/ \A v \in Tasks \ {t} : live'[v] => target[v] # t,
           WaitsRightly(t)'
    PROVE  \A v \in Tasks : WaitsRightly(v)'
<1> SUFFICES ASSUME NEW v \in Tasks \ {t} PROVE WaitsRightly(v)'
  OBVIOUS
<1>1. WaitsRightly(v)
  BY ZenonT(60) DEF TaskInv
<1>2. target'[v] = target[v] /\ (pc'[v] = pc[v] \/ (pc[v] = "unborn" /\ pc'[v] = "runs"))
  OBVIOUS
<1>3. ASSUME live'[v] PROVE ~Finished(target[v])'
  <2>1. live[v] /\ target[v] \in Tasks /\ ~Finished(target[v])
    BY ZenonT(60), <1>1, <1>3 DEF WaitsRightly
  <2>2. CASE target[v] = t
    BY ZenonT(60), <1>3, <1>2, <2>1, <2>2 DEF Finished
  <2>3. CASE target[v] # t
    BY SMTT(40), <1>2, <2>1, <2>3 DEF Finished
  <2> QED BY ZenonT(60), <2>2, <2>3
<1>4. live'[v] => /\ pc'[v] \in {"joins", "closes"} /\ target'[v] \in Tasks
                  /\ v \in waiters'[target'[v]]
  BY ZenonT(60), <1>1, <1>2 DEF WaitsRightly
<1>5. /\ pc'[v] \in {"joins", "adds"} => target'[v] \in Tasks
      /\ pc'[v] = "closes" => group' = "closing" /\ owner' = v
      /\ pc'[v] = "closes" /\ target'[v] \in Tasks => woke'[v] = "Ready"
  BY ZenonT(60), <1>1, <1>2 DEF WaitsRightly
<1> QED BY ZenonT(60), <1>2, <1>3, <1>4, <1>5 DEF WaitsRightly, Finished

\* A step that moves one task on, which is not in a wait, and ends no task.
LEMMA PlainStep ==
    ASSUME TaskInv, NEW t \in Tasks, NEW p \in {"runs", "spawns", "stored", "freed"},
           NEW s \in BOOLEAN, Goes(t, p, s, NoTask), ~live[t], UNCHANGED waits,
           UNCHANGED <<group, owner>> \/ \A v \in Tasks \ {t} : pc[v] # "closes"
    PROVE  \A v \in Tasks : WaitsRightly(v)'
<1>1. /\ pc'[t] = p /\ target'[t] = NoTask
      /\ \A v \in Tasks \ {t} : pc'[v] = pc[v] /\ target'[v] = target[v]
  BY GoesFacts DEF TaskInv, Pcs
<1>2. \A v \in Tasks \ {t} : live'[v] => live[v] /\ v \in waiters'[target[v]]
  BY ZenonT(60) DEF waits, TaskInv, WaitsRightly
<1>3. WaitsRightly(t)'
  BY ZenonT(60), <1>1, ScopesAssumption DEF WaitsRightly, waits
<1>4. woke' = woke
  BY ZenonT(60) DEF waits
<1> QED BY ZenonT(60), <1>1, <1>2, <1>3, <1>4, OthersKeep

\* Every step keeps the waits in order.
LEMMA WaitsInductive ==
    ASSUME TaskInv, [Next]_vars
    PROVE  \A v \in Tasks : WaitsRightly(v)'
<1>1. ASSUME NEW t \in Tasks, NEW s \in BOOLEAN, ClaimSlot(t, s) PROVE \A v \in Tasks : WaitsRightly(v)'
  <2>1. ~live[t]
    BY ZenonT(60), <1>1 DEF ClaimSlot, TaskInv, WaitsRightly
  <2> QED BY ZenonT(60), <1>1, <2>1, PlainStep DEF ClaimSlot, scope
<1>2. ASSUME NEW t \in Tasks, NEW u \in Tasks, StartTask(t, u) PROVE \A v \in Tasks : WaitsRightly(v)'
  <2>1. /\ pc \in [Tasks -> Pcs] /\ target \in [Tasks -> Tasks \cup {NoTask}]
        /\ pc[t] = "spawns" /\ pc[u] = "unborn" /\ WaitsRightly(t) /\ WaitsRightly(u)
    BY ZenonT(60), <1>2 DEF StartTask, TaskInv, TypeOK
  <2>2. /\ pc'[t] \in {"adds", "runs"} /\ (pc'[t] = "adds" => target'[t] = u)
        /\ \A v \in Tasks \ {t} : /\ target'[v] = target[v]
                                  /\ pc'[v] = pc[v] \/ (pc[v] = "unborn" /\ pc'[v] = "runs")
    BY ZenonT(60), <1>2, <2>1 DEF StartTask
  <2>3. WaitsRightly(t)'
    BY ZenonT(60), <1>2, <2>1, <2>2 DEF StartTask, WaitsRightly, waits
  <2>4. \A v \in Tasks \ {t} : live'[v] => live[v] /\ v \in waiters'[target[v]]
    BY ZenonT(60), <1>2 DEF StartTask, waits, TaskInv, WaitsRightly
  <2>5. woke' = woke /\ UNCHANGED <<group, owner>>
    BY ZenonT(60), <1>2 DEF StartTask, waits, scope
  <2> QED BY ZenonT(60), <2>2, <2>3, <2>4, <2>5, OthersKeep
<1>3. ASSUME NEW t \in Tasks, StartFails(t) PROVE \A v \in Tasks : WaitsRightly(v)'
  <2>1. ~live[t]
    BY ZenonT(60), <1>3 DEF StartFails, TaskInv, WaitsRightly
  <2> QED BY Zenon, <1>3, <2>1, PlainStep DEF StartFails, scope
<1>4. ASSUME NEW t \in Tasks, AddToGroup(t) PROVE \A v \in Tasks : WaitsRightly(v)'
  <2>1. ~live[t]
    BY ZenonT(60), <1>4 DEF AddToGroup, TaskInv, WaitsRightly
  <2> QED BY Zenon, <1>4, <2>1, PlainStep DEF AddToGroup, scope
<1>5. ASSUME NEW t \in Tasks, DropHandle(t) PROVE \A v \in Tasks : WaitsRightly(v)'
  BY ZenonT(60), <1>5 DEF DropHandle, task, waits, scope, TaskInv, WaitsRightly, Finished
<1>6. ASSUME NEW t \in Tasks, StoreResult(t) PROVE \A v \in Tasks : WaitsRightly(v)'
  <2>1. ~live[t]
    BY ZenonT(60), <1>6 DEF StoreResult, TaskInv, WaitsRightly
  <2> QED BY Zenon, <1>6, <2>1, PlainStep DEF StoreResult, scope
<1>7. ASSUME NEW t \in Tasks, FreeSlot(t) PROVE \A v \in Tasks : WaitsRightly(v)'
  <2>1. ~live[t]
    BY ZenonT(60), <1>7 DEF FreeSlot, TaskInv, WaitsRightly
  <2> QED BY Zenon, <1>7, <2>1, PlainStep DEF FreeSlot, scope
<1>8. ASSUME NEW t \in Tasks, Finish(t) PROVE \A v \in Tasks : WaitsRightly(v)'
  <2>1. /\ pc'[t] = "finished" /\ target'[t] = NoTask
        /\ \A v \in Tasks \ {t} : pc'[v] = pc[v] /\ target'[v] = target[v]
    BY Zenon, <1>8, GoesFacts DEF Finish, TaskInv, Pcs
  <2>2. waiters \in [Tasks -> SUBSET Tasks]
    BY ZenonT(60) DEF TaskInv, TypeOK
  <2>3. \A v \in Tasks : live'[v] => live[v] /\ v \notin waiters[t]
    BY Zenon, <1>8 DEF Finish
  <2>4. \A v \in Tasks : live'[v] => target[v] # t /\ target[v] \in Tasks /\ v \in waiters[target[v]]
    BY ZenonT(60), <2>3 DEF TaskInv, WaitsRightly
  <2>5. \A v \in Tasks \ {t} : live'[v] => live[v] /\ v \in waiters'[target[v]]
    BY ZenonT(60), <1>8, <2>2, <2>3, <2>4 DEF Finish
  <2>6. \A v \in Tasks : woke'[v] = woke[v] \/ woke'[v] = "Ready"
    BY ZenonT(60), <1>8 DEF Finish
  <2>7. ~live'[t]
    BY ZenonT(60), <1>8, <2>3 DEF Finish, TaskInv, WaitsRightly
  <2>8. WaitsRightly(t)'
    BY ZenonT(60), <2>1, <2>7 DEF WaitsRightly
  <2> QED BY ZenonT(60), <1>8, <2>1, <2>4, <2>5, <2>6, <2>8, OthersKeep DEF Finish, scope
<1>9. ASSUME NEW t \in Tasks, NEW u \in Tasks, Join(t, u) PROVE \A v \in Tasks : WaitsRightly(v)'
  <2>1. /\ pc'[t] = "joins" /\ target'[t] = u
        /\ \A v \in Tasks \ {t} : pc'[v] = pc[v] /\ target'[v] = target[v]
    BY Zenon, <1>9, GoesFacts DEF Join, TaskInv, Pcs
  <2>2. /\ t \in waiters'[u]
        /\ \A v \in Tasks : waiters[v] \subseteq waiters'[v]
        /\ \A v \in Tasks \ {t} : live'[v] = live[v] /\ woke'[v] = woke[v]
    BY Zenon, <1>9, WaitsFacts DEF Join, TaskInv
  <2>3. ~Finished(u)'
    BY ZenonT(60), <1>9, <2>1 DEF Join, Finished
  <2>4. WaitsRightly(t)'
    BY ZenonT(60), <2>1, <2>2, <2>3 DEF WaitsRightly, Finished
  <2>5. \A v \in Tasks \ {t} : live'[v] => live[v] /\ v \in waiters'[target[v]]
    BY ZenonT(60), <2>2 DEF TaskInv, WaitsRightly
  <2> QED BY ZenonT(60), <1>9, <2>1, <2>2, <2>4, <2>5, OthersKeep DEF Join, scope
<1>10. ASSUME NEW t \in Tasks, JoinWoken(t) PROVE \A v \in Tasks : WaitsRightly(v)'
  <2>1. /\ pc[t] = "joins" /\ ~live[t] /\ target[t] \in Tasks /\ UNCHANGED <<group, owner>>
        /\ WaitsRightly(t) /\ pc \in [Tasks -> Pcs] /\ target \in [Tasks -> Tasks \cup {NoTask}]
    BY Zenon, <1>10, WokenFacts DEF JoinWoken, scope, TaskInv, TypeOK
  <2>2. CASE Leaves(t, target[t]) /\ Goes(t, "runs", FALSE, NoTask)
    <3>1. /\ pc'[t] = "runs" /\ target'[t] = NoTask
          /\ \A v \in Tasks \ {t} : pc'[v] = pc[v] /\ target'[v] = target[v]
      BY Zenon, <2>2, GoesFacts DEF TaskInv, Pcs
    <3>2. /\ UNCHANGED <<live, woke>>
          /\ \A v \in Tasks, w \in Tasks \ {t} : w \in waiters[v] => w \in waiters'[v]
      BY ZenonT(60), <2>1, <2>2, LeavesFacts DEF TaskInv
    <3>3. WaitsRightly(t)'
      BY ZenonT(60), <2>1, <3>1, <3>2, ScopesAssumption DEF WaitsRightly
    <3>4. \A v \in Tasks \ {t} : live'[v] => live[v] /\ v \in waiters'[target[v]]
      BY ZenonT(60), <3>2 DEF TaskInv, WaitsRightly
    <3> QED BY ZenonT(60), <2>1, <3>1, <3>2, <3>3, <3>4, OthersKeep
  <2>3. CASE ~Finished(target[t]) /\ Waits(t, target[t], TRUE) /\ UNCHANGED task
    <3>1. pc' = pc /\ target' = target
      BY ZenonT(60), <2>3 DEF task
    <3>2. /\ t \in waiters'[target[t]] /\ (TRUE \/ woke'[t] = "Ready")
          /\ \A v \in Tasks : waiters[v] \subseteq waiters'[v]
          /\ \A v \in Tasks \ {t} : live'[v] = live[v] /\ woke'[v] = woke[v]
      BY Zenon, <2>1, <2>3, WaitsFacts DEF TaskInv
    <3>3. WaitsRightly(t)'
      BY ZenonT(60), <2>1, <2>3, <3>1, <3>2 DEF WaitsRightly, Finished
    <3>4. \A v \in Tasks \ {t} : live'[v] => live[v] /\ v \in waiters'[target[v]]
      BY ZenonT(60), <3>2 DEF TaskInv, WaitsRightly
    <3> QED BY ZenonT(60), <2>1, <3>1, <3>2, <3>3, <3>4, OthersKeep
  <2> QED BY Zenon, <1>10, <2>2, <2>3, WokenFacts
<1>11. ASSUME NEW t \in Tasks, NEW u \in Tasks, Cancel(t, u) PROVE \A v \in Tasks : WaitsRightly(v)'
  <2>1. {u} \in SUBSET Tasks /\ Cancels({u}) /\ UNCHANGED <<pc, target, group, owner>>
    BY ZenonT(60), <1>11 DEF Cancel, TaskInv, TypeOK, task, scope
  <2>2. waiters' = waiters /\ \A v \in Tasks : (live'[v] => live[v]) /\ (pc[v] # "joins" => woke'[v] = woke[v])
    BY ZenonT(60), <2>1, CancelsFacts DEF TaskInv
  <2> QED BY ZenonT(60), <2>1, <2>2 DEF TaskInv, WaitsRightly, Finished
<1>12. ASSUME NEW t \in Tasks, CancelAll(t) PROVE \A v \in Tasks : WaitsRightly(v)'
  <2>1. {v \in members : ~Finished(v)} \in SUBSET Tasks /\ Cancels({v \in members : ~Finished(v)}) /\ UNCHANGED <<pc, target, group, owner>>
    BY ZenonT(60), <1>12 DEF CancelAll, TaskInv, TypeOK, task, scope
  <2>2. waiters' = waiters /\ \A v \in Tasks : (live'[v] => live[v]) /\ (pc[v] # "joins" => woke'[v] = woke[v])
    BY ZenonT(60), <2>1, CancelsFacts DEF TaskInv
  <2> QED BY ZenonT(60), <2>1, <2>2 DEF TaskInv, WaitsRightly, Finished
<1>13. ASSUME NEW t \in Tasks, OpenScope(t) PROVE \A v \in Tasks : WaitsRightly(v)'
  <2>1. \A v \in Tasks : pc[v] # "closes"
    BY ZenonT(60), <1>13 DEF OpenScope, TaskInv, WaitsRightly
  <2> QED BY ZenonT(60), <1>13, <2>1 DEF OpenScope, task, waits, scope, TaskInv, WaitsRightly, Finished
<1>14. ASSUME NEW t \in Tasks, NEW f \in BOOLEAN, CloseScope(t, f) PROVE \A v \in Tasks : WaitsRightly(v)'
  <2>1. (IF f THEN members ELSE {}) \in SUBSET Tasks
    BY ZenonT(60) DEF TaskInv, TypeOK
  <2>2. /\ waiters' = waiters
        /\ \A v \in Tasks : (live'[v] => live[v]) /\ (pc[v] # "joins" => woke'[v] = woke[v])
    BY ZenonT(60), <1>14, <2>1, CancelsFacts DEF CloseScope, TaskInv
  <2>3. /\ pc'[t] = "closes" /\ target'[t] = NoTask
        /\ \A v \in Tasks \ {t} : pc'[v] = pc[v] /\ target'[v] = target[v]
    BY Zenon, <1>14, GoesFacts DEF CloseScope, TaskInv, Pcs
  <2>4. ~live[t] /\ owner' = t /\ group' = "closing" /\ \A v \in Tasks : pc[v] # "closes"
    BY ZenonT(60), <1>14 DEF CloseScope, TaskInv, WaitsRightly
  <2>5. WaitsRightly(t)'
    BY ZenonT(60), <2>2, <2>3, <2>4, ScopesAssumption DEF WaitsRightly
  <2>6. \A v \in Tasks \ {t} : live'[v] => live[v] /\ v \in waiters'[target[v]]
    BY ZenonT(60), <2>2 DEF TaskInv, WaitsRightly
  <2> QED BY ZenonT(60), <2>2, <2>3, <2>4, <2>5, <2>6, OthersKeep
<1>15. ASSUME NEW t \in Tasks, NEW u \in Tasks, CloseNext(t, u) PROVE \A v \in Tasks : WaitsRightly(v)'
  <2>1. pc[t] = "closes" /\ UNCHANGED <<group, owner>> /\ WaitsRightly(t)
    BY ZenonT(60), <1>15 DEF CloseNext, TaskInv
  <2>2. CASE UNCHANGED <<task, waits>>
    BY ZenonT(60), <2>1, <2>2 DEF task, waits, TaskInv, WaitsRightly, Finished
  <2>3. CASE ~Finished(u) /\ Waits(t, u, FALSE) /\ Goes(t, "closes", FALSE, u)
    <3>1. /\ pc'[t] = "closes" /\ target'[t] = u
          /\ \A v \in Tasks \ {t} : pc'[v] = pc[v] /\ target'[v] = target[v]
      BY Zenon, <2>3, GoesFacts DEF TaskInv, Pcs
    <3>2. /\ t \in waiters'[u] /\ woke'[t] = "Ready"
          /\ \A v \in Tasks : waiters[v] \subseteq waiters'[v]
          /\ \A v \in Tasks \ {t} : live'[v] = live[v] /\ woke'[v] = woke[v]
      BY Zenon, <2>3, WaitsFacts DEF TaskInv
    <3>3. ~Finished(u)'
      BY ZenonT(60), <2>3, <3>1 DEF Finished
    <3>4. WaitsRightly(t)'
      BY ZenonT(60), <2>1, <3>1, <3>2, <3>3 DEF WaitsRightly, Finished
    <3>5. \A v \in Tasks \ {t} : live'[v] => live[v] /\ v \in waiters'[target[v]]
      BY ZenonT(60), <3>2 DEF TaskInv, WaitsRightly
    <3> QED BY ZenonT(60), <2>1, <3>1, <3>2, <3>4, <3>5, OthersKeep
  <2> QED BY Zenon, <1>15, <2>2, <2>3, CloseNextFacts
<1>16. ASSUME NEW t \in Tasks, CloseWoken(t) PROVE \A v \in Tasks : WaitsRightly(v)'
  <2>1. /\ pc[t] = "closes" /\ ~live[t] /\ target[t] \in Tasks /\ UNCHANGED <<group, owner>>
        /\ WaitsRightly(t) /\ pc \in [Tasks -> Pcs] /\ target \in [Tasks -> Tasks \cup {NoTask}]
    BY ZenonT(60), <1>16, WokenFacts DEF CloseWoken, scope, TaskInv, TypeOK
  <2>2. CASE Leaves(t, target[t]) /\ Goes(t, "closes", FALSE, NoTask)
    <3>1. /\ pc'[t] = "closes" /\ target'[t] = NoTask
          /\ \A v \in Tasks \ {t} : pc'[v] = pc[v] /\ target'[v] = target[v]
      BY ZenonT(60), <2>2, GoesFacts DEF TaskInv, Pcs
    <3>2. /\ UNCHANGED <<live, woke>>
          /\ \A v \in Tasks, w \in Tasks \ {t} : w \in waiters[v] => w \in waiters'[v]
      BY ZenonT(60), <2>1, <2>2, LeavesFacts DEF TaskInv
    <3>3. WaitsRightly(t)'
      BY ZenonT(60), <2>1, <3>1, <3>2, ScopesAssumption DEF WaitsRightly
    <3>4. \A v \in Tasks \ {t} : live'[v] => live[v] /\ v \in waiters'[target[v]]
      BY ZenonT(60), <3>2 DEF TaskInv, WaitsRightly
    <3> QED BY ZenonT(60), <2>1, <3>1, <3>2, <3>3, <3>4, OthersKeep
  <2>3. CASE ~Finished(target[t]) /\ Waits(t, target[t], FALSE) /\ UNCHANGED task
    <3>1. pc' = pc /\ target' = target
      BY ZenonT(60), <2>3 DEF task
    <3>2. /\ t \in waiters'[target[t]] /\ (FALSE \/ woke'[t] = "Ready")
          /\ \A v \in Tasks : waiters[v] \subseteq waiters'[v]
          /\ \A v \in Tasks \ {t} : live'[v] = live[v] /\ woke'[v] = woke[v]
      BY ZenonT(60), <2>1, <2>3, WaitsFacts DEF TaskInv
    <3>3. WaitsRightly(t)'
      BY ZenonT(60), <2>1, <2>3, <3>1, <3>2 DEF WaitsRightly, Finished
    <3>4. \A v \in Tasks \ {t} : live'[v] => live[v] /\ v \in waiters'[target[v]]
      BY ZenonT(60), <3>2 DEF TaskInv, WaitsRightly
    <3> QED BY ZenonT(60), <2>1, <3>1, <3>2, <3>3, <3>4, OthersKeep
  <2> QED BY Zenon, <1>16, <2>2, <2>3, WokenFacts
<1>17. ASSUME NEW t \in Tasks, CloseReturns(t) PROVE \A v \in Tasks : WaitsRightly(v)'
  <2>1. ~live[t]
    BY ZenonT(60), <1>17, ScopesAssumption DEF CloseReturns, TaskInv, WaitsRightly
  <2>2. \A v \in Tasks \ {t} : pc[v] # "closes"
    BY ZenonT(60), <1>17 DEF CloseReturns, TaskInv, WaitsRightly
  <2> QED BY Zenon, <1>17, <2>1, <2>2, PlainStep DEF CloseReturns
<1>18. CASE UNCHANGED vars
  BY ZenonT(60), <1>18 DEF vars, task, waits, scope, WaitsRightly, Finished, TaskInv
<1> QED BY ZenonT(60), <1>1, <1>2, <1>3, <1>4, <1>5, <1>6, <1>7, <1>8, <1>9, <1>10, <1>11, <1>12, <1>13, <1>14, <1>15,
           <1>16, <1>17, <1>18
   DEF Next, Chooses, Proceeds

-----------------------------------------------------------------------------
(* Where tasks can go.                                                     *)

\* A finished task stays finished, and main! does not end.
LEMMA FinishedStays ==
    ASSUME TaskInv, [Next]_vars
    PROVE  MainRuns' /\ \A v \in Tasks : Finished(v) => Finished(v)'
<1> TypeOK /\ MainRuns /\ Main \in Tasks /\ NoTask \in Tasks \cup {NoTask}
  BY ZenonT(60), ScopesAssumption DEF TaskInv
<1>1. ASSUME NEW t \in Tasks, NEW s \in BOOLEAN, ClaimSlot(t, s) PROVE MainRuns' /\ \A v \in Tasks : Finished(v) => Finished(v)'
  <2>1. pc'[t] = "spawns" /\ \A v \in Tasks \ {t} : pc'[v] = pc[v]
    BY ZenonT(60), <1>1, GoesFacts DEF ClaimSlot, Pcs
  <2> QED BY ZenonT(60), <1>1, <2>1 DEF ClaimSlot, MainRuns, Finished
<1>2. ASSUME NEW t \in Tasks, NEW u \in Tasks, StartTask(t, u) PROVE MainRuns' /\ \A v \in Tasks : Finished(v) => Finished(v)'
  BY ZenonT(60), <1>2 DEF StartTask, TypeOK, MainRuns, Finished
<1>3. ASSUME NEW t \in Tasks, StartFails(t) PROVE MainRuns' /\ \A v \in Tasks : Finished(v) => Finished(v)'
  <2>1. pc'[t] = "runs" /\ \A v \in Tasks \ {t} : pc'[v] = pc[v]
    BY ZenonT(60), <1>3, GoesFacts DEF StartFails, Pcs
  <2> QED BY ZenonT(60), <1>3, <2>1 DEF StartFails, MainRuns, Finished
<1>4. ASSUME NEW t \in Tasks, AddToGroup(t) PROVE MainRuns' /\ \A v \in Tasks : Finished(v) => Finished(v)'
  <2>1. pc'[t] = "runs" /\ \A v \in Tasks \ {t} : pc'[v] = pc[v]
    BY Zenon, <1>4, GoesFacts DEF AddToGroup, Pcs
  <2> QED BY ZenonT(60), <1>4, <2>1 DEF AddToGroup, MainRuns, Finished
<1>5. ASSUME NEW t \in Tasks, DropHandle(t) PROVE MainRuns' /\ \A v \in Tasks : Finished(v) => Finished(v)'
  BY ZenonT(60), <1>5 DEF DropHandle, task, MainRuns, Finished
<1>6. ASSUME NEW t \in Tasks, StoreResult(t) PROVE MainRuns' /\ \A v \in Tasks : Finished(v) => Finished(v)'
  <2>1. pc'[t] = "stored" /\ \A v \in Tasks \ {t} : pc'[v] = pc[v]
    BY Zenon, <1>6, GoesFacts DEF StoreResult, Pcs
  <2> QED BY ZenonT(60), <1>6, <2>1 DEF StoreResult, MainRuns, Finished
<1>7. ASSUME NEW t \in Tasks, FreeSlot(t) PROVE MainRuns' /\ \A v \in Tasks : Finished(v) => Finished(v)'
  <2>1. pc'[t] = "freed" /\ \A v \in Tasks \ {t} : pc'[v] = pc[v]
    BY Zenon, <1>7, GoesFacts DEF FreeSlot, Pcs
  <2> QED BY ZenonT(60), <1>7, <2>1 DEF FreeSlot, MainRuns, Finished
<1>8. ASSUME NEW t \in Tasks, Finish(t) PROVE MainRuns' /\ \A v \in Tasks : Finished(v) => Finished(v)'
  <2>1. pc'[t] = "finished" /\ \A v \in Tasks \ {t} : pc'[v] = pc[v]
    BY Zenon, <1>8, GoesFacts DEF Finish, Pcs
  <2> QED BY ZenonT(60), <1>8, <2>1 DEF Finish, MainRuns, Finished
<1>9. ASSUME NEW t \in Tasks, NEW u \in Tasks, Join(t, u) PROVE MainRuns' /\ \A v \in Tasks : Finished(v) => Finished(v)'
  <2>1. pc'[t] = "joins" /\ \A v \in Tasks \ {t} : pc'[v] = pc[v]
    BY Zenon, <1>9, GoesFacts DEF Join, Pcs
  <2> QED BY ZenonT(60), <1>9, <2>1 DEF Join, MainRuns, Finished
<1>10. ASSUME NEW t \in Tasks, JoinWoken(t) PROVE MainRuns' /\ \A v \in Tasks : Finished(v) => Finished(v)'
  <2>1. pc[t] \notin {"finished"} /\ (Goes(t, "runs", FALSE, NoTask) \/ UNCHANGED task)
    BY Zenon, <1>10, WokenFacts DEF JoinWoken
  <2> QED BY Zenon, <2>1, GoesFacts DEF Pcs, task, MainRuns, Finished
<1>11. ASSUME NEW t \in Tasks, NEW u \in Tasks, Cancel(t, u) PROVE MainRuns' /\ \A v \in Tasks : Finished(v) => Finished(v)'
  BY ZenonT(60), <1>11 DEF Cancel, task, MainRuns, Finished
<1>12. ASSUME NEW t \in Tasks, CancelAll(t) PROVE MainRuns' /\ \A v \in Tasks : Finished(v) => Finished(v)'
  BY ZenonT(60), <1>12 DEF CancelAll, task, MainRuns, Finished
<1>13. ASSUME NEW t \in Tasks, OpenScope(t) PROVE MainRuns' /\ \A v \in Tasks : Finished(v) => Finished(v)'
  BY ZenonT(60), <1>13 DEF OpenScope, task, MainRuns, Finished
<1>14. ASSUME NEW t \in Tasks, NEW f \in BOOLEAN, CloseScope(t, f) PROVE MainRuns' /\ \A v \in Tasks : Finished(v) => Finished(v)'
  <2>1. pc'[t] = "closes" /\ \A v \in Tasks \ {t} : pc'[v] = pc[v]
    BY Zenon, <1>14, GoesFacts DEF CloseScope, Pcs
  <2> QED BY ZenonT(60), <1>14, <2>1 DEF CloseScope, MainRuns, Finished
<1>15. ASSUME NEW t \in Tasks, NEW u \in Tasks, CloseNext(t, u) PROVE MainRuns' /\ \A v \in Tasks : Finished(v) => Finished(v)'
  <2>1. pc[t] = "closes" /\ (Goes(t, "closes", FALSE, u) \/ UNCHANGED task)
    BY Zenon, <1>15 DEF CloseNext
  <2> QED BY Zenon, <2>1, GoesFacts DEF Pcs, task, MainRuns, Finished
<1>16. ASSUME NEW t \in Tasks, CloseWoken(t) PROVE MainRuns' /\ \A v \in Tasks : Finished(v) => Finished(v)'
  <2>1. pc[t] \notin {"finished"} /\ (Goes(t, "closes", FALSE, NoTask) \/ UNCHANGED task)
    BY Zenon, <1>16, WokenFacts DEF CloseWoken
  <2> QED BY Zenon, <2>1, GoesFacts DEF Pcs, task, MainRuns, Finished
<1>17. ASSUME NEW t \in Tasks, CloseReturns(t) PROVE MainRuns' /\ \A v \in Tasks : Finished(v) => Finished(v)'
  <2>1. pc'[t] = "runs" /\ \A v \in Tasks \ {t} : pc'[v] = pc[v]
    BY ZenonT(60), <1>17, GoesFacts DEF CloseReturns, Pcs
  <2> QED BY ZenonT(60), <1>17, <2>1 DEF CloseReturns, MainRuns, Finished
<1>18. CASE UNCHANGED vars
  BY ZenonT(60), <1>18 DEF vars, task, MainRuns, Finished
<1> QED BY ZenonT(60), <1>1, <1>2, <1>3, <1>4, <1>5, <1>6, <1>7, <1>8, <1>9, <1>10, <1>11, <1>12, <1>13, <1>14, <1>15,
           <1>16, <1>17, <1>18
   DEF Next, Chooses, Proceeds

-----------------------------------------------------------------------------
(* The scope.                                                              *)

\* group_close takes over what the group knows, and drops finished tasks only.
LEMMA GroupInductive ==
    ASSUME TaskInv, GroupKnows, [Next]_vars
    PROVE  GroupKnows'
<1> TypeOK
  BY ZenonT(60) DEF TaskInv
<1>0. \A v \in Tasks : Finished(v) => Finished(v)'
  BY ZenonT(60), FinishedStays
<1>1. ASSUME NEW t \in Tasks, NEW s \in BOOLEAN, ClaimSlot(t, s) PROVE GroupKnows'
  BY ZenonT(60), <1>1, <1>0 DEF ClaimSlot, scope, GroupKnows, ScopeHolds, TypeOK
<1>2. ASSUME NEW t \in Tasks, NEW u \in Tasks, StartTask(t, u) PROVE GroupKnows'
  BY ZenonT(60), <1>2, <1>0 DEF StartTask, scope, GroupKnows, ScopeHolds, TypeOK
<1>3. ASSUME NEW t \in Tasks, StartFails(t) PROVE GroupKnows'
  BY ZenonT(60), <1>3, <1>0 DEF StartFails, scope, GroupKnows, ScopeHolds, TypeOK
<1>4. ASSUME NEW t \in Tasks, AddToGroup(t) PROVE GroupKnows'
  <2>1. members' = {v \in members : ~Finished(v)} \cup {target[t]} /\ UNCHANGED <<group, closing>>
    BY ZenonT(60), <1>4 DEF AddToGroup, KeepsUnfinished
  <2>2. CASE group = "open"
    BY ZenonT(60), <1>4, <1>0, <2>1, <2>2 DEF AddToGroup, GroupKnows, ScopeHolds, TypeOK
  <2>3. CASE group # "open"
    BY ZenonT(60), <1>4, <1>0, <2>1, <2>3 DEF AddToGroup, GroupKnows, ScopeHolds, TypeOK
  <2> QED BY ZenonT(60), <2>2, <2>3
<1>5. ASSUME NEW t \in Tasks, DropHandle(t) PROVE GroupKnows'
  BY ZenonT(60), <1>5, <1>0 DEF DropHandle, scope, GroupKnows, ScopeHolds, TypeOK
<1>6. ASSUME NEW t \in Tasks, StoreResult(t) PROVE GroupKnows'
  BY ZenonT(60), <1>6, <1>0 DEF StoreResult, scope, GroupKnows, ScopeHolds, TypeOK
<1>7. ASSUME NEW t \in Tasks, FreeSlot(t) PROVE GroupKnows'
  BY ZenonT(60), <1>7, <1>0 DEF FreeSlot, scope, GroupKnows, ScopeHolds, TypeOK
<1>8. ASSUME NEW t \in Tasks, Finish(t) PROVE GroupKnows'
  BY ZenonT(60), <1>8, <1>0 DEF Finish, scope, GroupKnows, ScopeHolds, TypeOK
<1>9. ASSUME NEW t \in Tasks, NEW u \in Tasks, Join(t, u) PROVE GroupKnows'
  BY ZenonT(60), <1>9, <1>0 DEF Join, scope, GroupKnows, ScopeHolds, TypeOK
<1>10. ASSUME NEW t \in Tasks, JoinWoken(t) PROVE GroupKnows'
  BY ZenonT(60), <1>10, <1>0 DEF JoinWoken, scope, GroupKnows, ScopeHolds, TypeOK
<1>11. ASSUME NEW t \in Tasks, NEW u \in Tasks, Cancel(t, u) PROVE GroupKnows'
  BY ZenonT(60), <1>11, <1>0 DEF Cancel, scope, GroupKnows, ScopeHolds, TypeOK
<1>12. ASSUME NEW t \in Tasks, CancelAll(t) PROVE GroupKnows'
  BY ZenonT(60), <1>12, <1>0 DEF CancelAll, scope, GroupKnows, ScopeHolds, TypeOK
<1>13. ASSUME NEW t \in Tasks, OpenScope(t) PROVE GroupKnows'
  BY ZenonT(60), <1>13, <1>0 DEF OpenScope, GroupKnows, ScopeHolds, TypeOK
<1>14. ASSUME NEW t \in Tasks, NEW f \in BOOLEAN, CloseScope(t, f) PROVE GroupKnows'
  BY ZenonT(60), <1>14, <1>0 DEF CloseScope, GroupKnows, ScopeHolds, TypeOK
<1>15. ASSUME NEW t \in Tasks, NEW u \in Tasks, CloseNext(t, u) PROVE GroupKnows'
  <2>1. closing' = closing \/ (Finished(u) /\ closing' = closing \ {u})
    BY Zenon, <1>15, CloseNextFacts
  <2> QED BY ZenonT(60), <1>15, <1>0, <2>1 DEF CloseNext, GroupKnows, ScopeHolds, TypeOK
<1>16. ASSUME NEW t \in Tasks, CloseWoken(t) PROVE GroupKnows'
  <2>1. closing' = closing \/ (Finished(target[t]) /\ closing' = closing \ {target[t]})
    BY Zenon, <1>16, WokenFacts
  <2> QED BY ZenonT(60), <1>16, <1>0, <2>1 DEF CloseWoken, GroupKnows, ScopeHolds, TypeOK
<1>17. ASSUME NEW t \in Tasks, CloseReturns(t) PROVE GroupKnows'
  <2>1. group = "closing" /\ closing = {}
    BY ZenonT(60), <1>17 DEF CloseReturns, TaskInv, WaitsRightly
  <2> QED BY ZenonT(60), <1>17, <1>0, <2>1 DEF CloseReturns, GroupKnows, ScopeHolds, TypeOK
<1>18. CASE UNCHANGED vars
  BY ZenonT(60), <1>18, <1>0 DEF vars, scope, GroupKnows, ScopeHolds, TypeOK
<1> QED BY ZenonT(60), <1>1, <1>2, <1>3, <1>4, <1>5, <1>6, <1>7, <1>8, <1>9, <1>10, <1>11, <1>12, <1>13, <1>14, <1>15,
           <1>16, <1>17, <1>18
   DEF Next, Chooses, Proceeds

-----------------------------------------------------------------------------
(* LIVE_TASKS.                                                             *)

\* Adding one to a finite set of tasks, or taking one away, counts one.
LEMMA CountOne ==
    ASSUME NEW A \in SUBSET Tasks, NEW t \in Tasks
    PROVE  /\ Cardinality(A) \in Nat
           /\ t \notin A => Cardinality(A \cup {t}) = Cardinality(A) + 1
           /\ t \in A => Cardinality(A \ {t}) = Cardinality(A) - 1
<1>1. IsFiniteSet(A)
  BY ZenonT(60), ScopesAssumption, FS_Subset
<1> QED BY ZenonT(60), <1>1, FS_CardinalityType, FS_AddElement, FS_RemoveElement

\* A step that claims no slot and gives none back.
LEMMA SlotsSame ==
    ASSUME TaskInv, SlotsCounted, UNCHANGED liveTasks,
           \A v \in Tasks : \/ pc'[v] = pc[v]
                            \/ /\ pc[v] \in {"runs", "adds", "joins", "closes"}
                               /\ pc'[v] \in {"runs", "adds", "joins", "closes", "stored"}
                            \/ pc[v] = "freed" /\ pc'[v] = "finished"
    PROVE  SlotsCounted'
<1>1. Spawning' = Spawning /\ Slotted' = Slotted
  BY ZenonT(60) DEF Spawning, Slotted
<1> QED BY ZenonT(60), <1>1 DEF SlotsCounted

\* Every step keeps the count.
LEMMA ScopeSlotsInductive ==
    ASSUME TaskInv, SlotsCounted, [Next]_vars
    PROVE  SlotsCounted'
<1> TypeOK /\ MainRuns /\ Main \in Tasks /\ NoTask \in Tasks \cup {NoTask}
  BY ZenonT(60), ScopesAssumption DEF TaskInv
<1>0. Spawning \in SUBSET Tasks /\ Slotted \in SUBSET Tasks
  BY ZenonT(60) DEF Spawning, Slotted
<1>1. ASSUME NEW t \in Tasks, NEW s \in BOOLEAN, ClaimSlot(t, s) PROVE SlotsCounted'
  <2>1. pc'[t] = "spawns" /\ \A v \in Tasks \ {t} : pc'[v] = pc[v]
    BY ZenonT(60), <1>1, GoesFacts DEF ClaimSlot, Pcs
  <2>2. t \notin Spawning /\ Spawning' = Spawning \cup {t} /\ Slotted' = Slotted
    BY ZenonT(60), <1>1, <2>1 DEF ClaimSlot, Spawning, Slotted
  <2>3. Cardinality(Spawning') = Cardinality(Spawning) + 1 /\ Cardinality(Slotted') = Cardinality(Slotted)
    BY ZenonT(60), <1>0, <2>2, CountOne
  <2>4. liveTasks < MaxTasks /\ liveTasks' = liveTasks + 1
    BY ZenonT(60), <1>1 DEF ClaimSlot
  <2>7. Cardinality(Spawning) \in Nat /\ Cardinality(Slotted) \in Nat /\ liveTasks = Cardinality(Spawning) + Cardinality(Slotted)
        /\ liveTasks <= MaxTasks /\ MaxTasks \in Nat
    BY Zenon, <1>0, CountOne, ScopesAssumption DEF SlotsCounted
  <2> QED BY SMTT(40), <2>3, <2>4, <2>7 DEF SlotsCounted
<1>2. ASSUME NEW t \in Tasks, NEW u \in Tasks, StartTask(t, u) PROVE SlotsCounted'
  <2>1. /\ pc[t] = "spawns" /\ pc[u] = "unborn" /\ pc'[t] \in {"adds", "runs"} /\ pc'[u] = "runs"
        /\ \A v \in Tasks \ {t, u} : pc'[v] = pc[v]
    BY ZenonT(60), <1>2 DEF StartTask, TypeOK
  <2>2. t \in Spawning /\ Spawning' = Spawning \ {t}
    BY ZenonT(60), <2>1 DEF Spawning
  <2>3. u \notin Slotted /\ Slotted' = Slotted \cup {u}
    BY ZenonT(60), <2>1 DEF Slotted, MainRuns
  <2>4. Cardinality(Spawning') = Cardinality(Spawning) - 1 /\ Cardinality(Slotted') = Cardinality(Slotted) + 1
    BY ZenonT(60), <1>0, <2>2, <2>3, CountOne
  <2>5. liveTasks' = liveTasks
    BY ZenonT(60), <1>2 DEF StartTask
  <2>7. Cardinality(Spawning) \in Nat /\ Cardinality(Slotted) \in Nat /\ liveTasks = Cardinality(Spawning) + Cardinality(Slotted)
        /\ liveTasks <= MaxTasks /\ MaxTasks \in Nat
    BY Zenon, <1>0, CountOne, ScopesAssumption DEF SlotsCounted
  <2> QED BY SMTT(40), <2>4, <2>5, <2>7 DEF SlotsCounted
<1>3. ASSUME NEW t \in Tasks, StartFails(t) PROVE SlotsCounted'
  <2>1. pc'[t] = "runs" /\ \A v \in Tasks \ {t} : pc'[v] = pc[v]
    BY Zenon, <1>3, GoesFacts DEF StartFails, Pcs
  <2>2. t \in Spawning /\ Spawning' = Spawning \ {t} /\ Slotted' = Slotted
    BY ZenonT(60), <1>3, <2>1 DEF StartFails, Spawning, Slotted
  <2>3. Cardinality(Spawning') = Cardinality(Spawning) - 1 /\ Cardinality(Slotted') = Cardinality(Slotted)
    BY ZenonT(60), <1>0, <2>2, CountOne
  <2>4. liveTasks' = liveTasks - 1
    BY ZenonT(60), <1>3 DEF StartFails
  <2>7. Cardinality(Spawning) \in Nat /\ Cardinality(Slotted) \in Nat /\ liveTasks = Cardinality(Spawning) + Cardinality(Slotted)
        /\ liveTasks <= MaxTasks /\ MaxTasks \in Nat
    BY ZenonT(60), <1>0, CountOne, ScopesAssumption DEF SlotsCounted
  <2> QED BY SMTT(40), <2>3, <2>4, <2>7 DEF SlotsCounted
<1>4. ASSUME NEW t \in Tasks, AddToGroup(t) PROVE SlotsCounted'
  <2>1. pc'[t] = "runs" /\ \A v \in Tasks \ {t} : pc'[v] = pc[v]
    BY Zenon, <1>4, GoesFacts DEF AddToGroup, Pcs
  <2> QED BY ZenonT(60), <1>4, <2>1, SlotsSame DEF AddToGroup
<1>5. ASSUME NEW t \in Tasks, DropHandle(t) PROVE SlotsCounted'
  BY ZenonT(60), <1>5, SlotsSame DEF DropHandle, task
<1>6. ASSUME NEW t \in Tasks, StoreResult(t) PROVE SlotsCounted'
  <2>1. pc'[t] = "stored" /\ \A v \in Tasks \ {t} : pc'[v] = pc[v]
    BY Zenon, <1>6, GoesFacts DEF StoreResult, Pcs
  <2> QED BY ZenonT(60), <1>6, <2>1, SlotsSame DEF StoreResult
<1>7. ASSUME NEW t \in Tasks, FreeSlot(t) PROVE SlotsCounted'
  <2>1. pc'[t] = "freed" /\ \A v \in Tasks \ {t} : pc'[v] = pc[v]
    BY Zenon, <1>7, GoesFacts DEF FreeSlot, Pcs
  <2>2. t \in Slotted /\ Slotted' = Slotted \ {t} /\ Spawning' = Spawning
    BY ZenonT(60), <1>7, <2>1 DEF FreeSlot, Spawning, Slotted, MainRuns
  <2>3. Cardinality(Slotted') = Cardinality(Slotted) - 1 /\ Cardinality(Spawning') = Cardinality(Spawning)
    BY ZenonT(60), <1>0, <2>2, CountOne
  <2>4. liveTasks' = liveTasks - 1
    BY ZenonT(60), <1>7 DEF FreeSlot
  <2>7. Cardinality(Spawning) \in Nat /\ Cardinality(Slotted) \in Nat /\ liveTasks = Cardinality(Spawning) + Cardinality(Slotted)
        /\ liveTasks <= MaxTasks /\ MaxTasks \in Nat
    BY Zenon, <1>0, CountOne, ScopesAssumption DEF SlotsCounted
  <2> QED BY SMTT(40), <2>3, <2>4, <2>7 DEF SlotsCounted
<1>8. ASSUME NEW t \in Tasks, Finish(t) PROVE SlotsCounted'
  <2>1. pc'[t] = "finished" /\ \A v \in Tasks \ {t} : pc'[v] = pc[v]
    BY ZenonT(60), <1>8, GoesFacts DEF Finish, Pcs
  <2> QED BY ZenonT(60), <1>8, <2>1, SlotsSame DEF Finish
<1>9. ASSUME NEW t \in Tasks, NEW u \in Tasks, Join(t, u) PROVE SlotsCounted'
  <2>1. pc'[t] = "joins" /\ \A v \in Tasks \ {t} : pc'[v] = pc[v]
    BY ZenonT(60), <1>9, GoesFacts DEF Join, Pcs
  <2> QED BY ZenonT(60), <1>9, <2>1, SlotsSame DEF Join
<1>10. ASSUME NEW t \in Tasks, JoinWoken(t) PROVE SlotsCounted'
  <2>1. pc[t] = "joins" /\ UNCHANGED liveTasks /\ (Goes(t, "runs", FALSE, NoTask) \/ UNCHANGED task)
    BY Zenon, <1>10, WokenFacts DEF JoinWoken
  <2>2. (pc'[t] = pc[t] \/ pc'[t] = "runs") /\ \A v \in Tasks \ {t} : pc'[v] = pc[v]
    BY ZenonT(60), <2>1, GoesFacts DEF Pcs, task
  <2> QED BY ZenonT(60), <2>1, <2>2, SlotsSame
<1>11. ASSUME NEW t \in Tasks, NEW u \in Tasks, Cancel(t, u) PROVE SlotsCounted'
  BY ZenonT(60), <1>11, SlotsSame DEF Cancel, task
<1>12. ASSUME NEW t \in Tasks, CancelAll(t) PROVE SlotsCounted'
  BY ZenonT(60), <1>12, SlotsSame DEF CancelAll, task
<1>13. ASSUME NEW t \in Tasks, OpenScope(t) PROVE SlotsCounted'
  BY ZenonT(60), <1>13, SlotsSame DEF OpenScope, task
<1>14. ASSUME NEW t \in Tasks, NEW f \in BOOLEAN, CloseScope(t, f) PROVE SlotsCounted'
  <2>1. pc'[t] = "closes" /\ \A v \in Tasks \ {t} : pc'[v] = pc[v]
    BY Zenon, <1>14, GoesFacts DEF CloseScope, Pcs
  <2> QED BY ZenonT(60), <1>14, <2>1, SlotsSame DEF CloseScope
<1>15. ASSUME NEW t \in Tasks, NEW u \in Tasks, CloseNext(t, u) PROVE SlotsCounted'
  <2>1. pc[t] = "closes" /\ UNCHANGED liveTasks /\ (Goes(t, "closes", FALSE, u) \/ UNCHANGED task)
    BY Zenon, <1>15, CloseNextFacts DEF CloseNext
  <2>2. (pc'[t] = pc[t] \/ pc'[t] = "closes") /\ \A v \in Tasks \ {t} : pc'[v] = pc[v]
    BY Zenon, <2>1, GoesFacts DEF Pcs, task
  <2> QED BY ZenonT(60), <2>1, <2>2, SlotsSame
<1>16. ASSUME NEW t \in Tasks, CloseWoken(t) PROVE SlotsCounted'
  <2>1. pc[t] = "closes" /\ UNCHANGED liveTasks /\ (Goes(t, "closes", FALSE, NoTask) \/ UNCHANGED task)
    BY Zenon, <1>16, WokenFacts DEF CloseWoken
  <2>2. (pc'[t] = pc[t] \/ pc'[t] = "closes") /\ \A v \in Tasks \ {t} : pc'[v] = pc[v]
    BY Zenon, <2>1, GoesFacts DEF Pcs, task
  <2> QED BY Zenon, <2>1, <2>2, SlotsSame
<1>17. ASSUME NEW t \in Tasks, CloseReturns(t) PROVE SlotsCounted'
  <2>1. pc'[t] = "runs" /\ \A v \in Tasks \ {t} : pc'[v] = pc[v]
    BY ZenonT(60), <1>17, GoesFacts DEF CloseReturns, Pcs
  <2> QED BY ZenonT(60), <1>17, <2>1, SlotsSame DEF CloseReturns
<1>18. CASE UNCHANGED vars
  <2>1. pc' = pc /\ liveTasks' = liveTasks
    BY ZenonT(60), <1>18 DEF vars, task
  <2> QED BY ZenonT(60), <2>1, SlotsSame
<1> QED BY ZenonT(60), <1>1, <1>2, <1>3, <1>4, <1>5, <1>6, <1>7, <1>8, <1>9, <1>10, <1>11, <1>12, <1>13, <1>14, <1>15,
           <1>16, <1>17, <1>18
   DEF Next, Chooses, Proceeds

-----------------------------------------------------------------------------
(* The theorems.                                                           *)

ScopesInv == TaskInv /\ SlotsCounted /\ GroupKnows

\* Only main! runs at first.
LEMMA ScopesInitially == Init => ScopesInv
<1> SUFFICES ASSUME Init PROVE ScopesInv
  OBVIOUS
<1>1. TypeOK /\ MainRuns
  BY ZenonT(60), ScopesAssumption DEF Init, TypeOK, Pcs, MainRuns
<1>2. ASSUME NEW t \in Tasks PROVE WaitsRightly(t)
  BY ZenonT(60) DEF Init, WaitsRightly
<1>3. Spawning = {} /\ Slotted = {}
  BY ZenonT(60) DEF Init, Spawning, Slotted
<1>4. Cardinality(Spawning) = 0 /\ Cardinality(Slotted) = 0
  BY ZenonT(60), <1>3, FS_EmptySet
<1>5. liveTasks = 0 /\ MaxTasks \in Nat
  BY ZenonT(60), ScopesAssumption DEF Init
<1>6. SlotsCounted
  BY SMTT(40), <1>4, <1>5 DEF SlotsCounted
<1>7. GroupKnows
  BY ZenonT(60) DEF Init, GroupKnows, ScopeHolds
<1> QED BY ZenonT(60), <1>1, <1>2, <1>6, <1>7 DEF ScopesInv, TaskInv

\* ScopesInv always holds.
LEMMA ScopesInvariant == Spec => []ScopesInv
<1>1. ScopesInv /\ [Next]_vars => ScopesInv'
  BY ZenonT(60), ScopeTypesInductive, WaitsInductive, FinishedStays, GroupInductive,
     ScopeSlotsInductive DEF ScopesInv, TaskInv
<1> QED BY ScopesInitially, <1>1, PTL DEF Spec

\* The types of every task's fields and of the group, for any tasks.
THEOREM ScopesTypeSafe == Spec => []TypeOK
<1>1. ScopesInv => TypeOK
  BY ZenonT(60) DEF ScopesInv, TaskInv
<1> QED BY <1>1, ScopesInvariant, PTL

\* LIVE_TASKS counts the slots claimed and not given back, on every path of
\* roc_task_spawn and of a task's end, and never exceeds the limit.
THEOREM SlotsStayCounted == Spec => []SlotsCounted
<1>1. ScopesInv => SlotsCounted
  BY ZenonT(60) DEF ScopesInv
<1> QED BY <1>1, ScopesInvariant, PTL

\* Nobody sleeps in wait_finished for a task that has finished.
THEOREM NobodyWaitsInVain == Spec => []NoVainWait
<1>1. ScopesInv => NoVainWait
  BY ZenonT(60) DEF ScopesInv, TaskInv, WaitsRightly, NoVainWait
<1> QED BY <1>1, ScopesInvariant, PTL

\* scope! returns only after every task that was in its group when its body
\* ended has finished.
THEOREM ScopeWaitsForItsGroup == Spec => []ScopeHolds
<1>1. ScopesInv => ScopeHolds
  BY ZenonT(60) DEF ScopesInv, GroupKnows
<1> QED BY <1>1, ScopesInvariant, PTL

-----------------------------------------------------------------------------
(* Helper threads.                                                         *)

\* The list and the watchers hold calls that are where they say, and a thread
\* has one caller at most.
CallsFit ==
    /\ Once(waiting)
    /\ \A t \in Callers : Has(waiting, t) => op[t] = "claims"
    /\ \A t \in Callers : IF op[t] \in {"looks", "awaits"} THEN thread[t] \in Threads ELSE thread[t] = NoThread
    /\ \A h \in Threads : \A t \in watcher[h] : op[t] = "awaits" /\ thread[t] = h
    /\ \A t, u \in Callers : thread[t] = thread[u] /\ thread[t] \in Threads => t = u

\* The inductive invariant of calls and their threads.
CallInv == ThreadsTypeOK /\ CallsFit /\ ResultIsNoticed

\* The callers and the threads that a slot in use belongs to.
Starting == {t \in Callers : op[t] = "starts"}
Running == {h \in Threads : run[h] # "unused"}

-----------------------------------------------------------------------------
(* What the parts of actions do.                                           *)

\* A call goes on to another place,
LEMMA AtFacts ==
    ASSUME ThreadsTypeOK, NEW t \in Callers, NEW o, NEW l, NEW h, At(t, o, l, h),
           o \in {"none", "claims", "starts", "looks", "awaits"}, l \in Limits, h \in Threads \cup {NoThread}
    PROVE  /\ op' \in [Callers -> {"none", "claims", "starts", "looks", "awaits"}]
           /\ limit' \in [Callers -> Limits] /\ thread' \in [Callers -> Threads \cup {NoThread}]
           /\ op'[t] = o /\ limit'[t] = l /\ thread'[t] = h
           /\ \A u \in Callers \ {t} : op'[u] = op[u] /\ limit'[u] = limit[u] /\ thread'[u] = thread[u]
BY ZenonT(60) DEF At, ThreadsTypeOK

\* is woken,
LEMMA WakeFacts ==
    ASSUME ThreadsTypeOK, NEW ts, NEW how \in {"Ready", "TimedOut", "Cancelled"}, Wake(ts, how)
    PROVE  /\ callerLive' \in [Callers -> BOOLEAN] /\ callerWoke' \in [Callers -> {"Ready", "TimedOut", "Cancelled"}]
           /\ callerCancelled' = callerCancelled
           /\ \A u \in Callers : callerLive'[u] <=> callerLive[u] /\ u \notin ts
           /\ \A u \in Callers : callerWoke'[u] = IF callerLive[u] /\ u \in ts THEN how ELSE callerWoke[u]
BY Zenon DEF Wake, ThreadsTypeOK

\* or begins to wait.
LEMMA StartWaitFacts ==
    ASSUME ThreadsTypeOK, NEW t \in Callers, StartWait(t)
    PROVE  /\ callerLive' \in [Callers -> BOOLEAN] /\ callerWoke' \in [Callers -> {"Ready", "TimedOut", "Cancelled"}]
           /\ callerCancelled' = callerCancelled
           /\ callerLive'[t] <=> ~callerCancelled[t]
           /\ callerWoke'[t] = IF callerCancelled[t] THEN "Cancelled" ELSE "Ready"
           /\ \A u \in Callers \ {t} : (callerLive'[u] <=> callerLive[u]) /\ callerWoke'[u] = callerWoke[u]
BY Zenon DEF StartWait, ThreadsTypeOK

\* The slot's drop wakes the first call that still waits, if there is one.
LEMMA GiveBackFacts ==
    ASSUME CallInv, GiveBack
    PROVE  /\ busy' = busy - 1 /\ waiting' \in Seq(Callers) /\ waiting' = LeftByOne(waiting, callerLive)
           /\ callerLive' \in [Callers -> BOOLEAN] /\ callerWoke' \in [Callers -> {"Ready", "TimedOut", "Cancelled"}]
           /\ callerCancelled' = callerCancelled
           /\ Once(waiting') /\ \A u \in Callers : Has(waiting', u) => Has(waiting, u)
           /\ \A u \in Callers : callerLive'[u] <=> callerLive[u] /\ u \notin WokenByOne(waiting, callerLive)
           /\ \A u \in Callers : callerWoke'[u] = IF u \in WokenByOne(waiting, callerLive) THEN "Ready" ELSE callerWoke[u]
           /\ \A u \in WokenByOne(waiting, callerLive) : u \in Callers /\ op[u] = "claims" /\ callerLive[u]
<1>1. waiting \in Seq(Callers) /\ callerLive \in [Callers -> BOOLEAN] /\ Once(waiting) /\ ThreadsTypeOK
  BY ZenonT(60) DEF CallInv, ThreadsTypeOK, CallsFit
<1>2. /\ LeftByOne(waiting, callerLive) \in Seq(Callers) /\ Once(LeftByOne(waiting, callerLive))
      /\ \A u \in Callers : Has(LeftByOne(waiting, callerLive), u) => Has(waiting, u)
      /\ \A u \in WokenByOne(waiting, callerLive) : u \in Callers /\ callerLive[u] /\ Has(waiting, u)
  BY ZenonT(60), <1>1, WakeOneFacts
<1>3. Wake(WokenByOne(waiting, callerLive), "Ready") /\ busy' = busy - 1 /\ waiting' = LeftByOne(waiting, callerLive)
  BY ZenonT(60) DEF GiveBack
<1>4. \A u \in WokenByOne(waiting, callerLive) : op[u] = "claims"
  BY ZenonT(60), <1>2 DEF CallInv, CallsFit
<1>5. /\ callerLive' \in [Callers -> BOOLEAN] /\ callerWoke' \in [Callers -> {"Ready", "TimedOut", "Cancelled"}]
      /\ callerCancelled' = callerCancelled
      /\ \A u \in Callers : callerLive'[u] <=> callerLive[u] /\ u \notin WokenByOne(waiting, callerLive)
      /\ \A u \in Callers : callerWoke'[u] = IF callerLive[u] /\ u \in WokenByOne(waiting, callerLive) THEN "Ready" ELSE callerWoke[u]
  BY ZenonT(60), <1>1, <1>3, WakeFacts
<1> QED BY ZenonT(60), <1>2, <1>3, <1>4, <1>5

\* What `remove` and `add` do to the list of claims.
LEMMA ListFacts ==
    ASSUME CallInv, NEW t \in Callers
    PROVE  /\ Remove(waiting, t) \in Seq(Callers) /\ Once(Remove(waiting, t))
           /\ ~Has(Remove(waiting, t), t)
           /\ \A u \in Callers : Has(Remove(waiting, t), u) => Has(waiting, u)
           /\ Add(Remove(waiting, t), t) \in Seq(Callers) /\ Once(Add(Remove(waiting, t), t))
           /\ \A u \in Callers : Has(Add(Remove(waiting, t), t), u) => Has(waiting, u) \/ u = t
<1>1. waiting \in Seq(Callers) /\ Once(waiting)
  BY ZenonT(60) DEF CallInv, ThreadsTypeOK, CallsFit
<1>2. /\ Remove(waiting, t) \in Seq(Callers) /\ Once(Remove(waiting, t))
      /\ ~Has(Remove(waiting, t), t)
      /\ \A u \in Callers : Has(Remove(waiting, t), u) => Has(waiting, u)
  BY ZenonT(60), <1>1, RemoveFacts
<1> QED BY ZenonT(60), <1>2, AddFacts

-----------------------------------------------------------------------------
(* The count of slots in use.                                              *)

\* Both sets can be counted.
LEMMA CountsAreNat ==
    ASSUME ThreadsAssumption
    PROVE  /\ IsFiniteSet(Starting) /\ IsFiniteSet(Running)
           /\ IsFiniteSet(Starting') /\ IsFiniteSet(Running')
           /\ Cardinality(Starting) \in Nat /\ Cardinality(Running) \in Nat
           /\ Cardinality(Starting') \in Nat /\ Cardinality(Running') \in Nat
<1>1. /\ Starting \subseteq Callers /\ Running \subseteq Threads
      /\ Starting' \subseteq Callers /\ Running' \subseteq Threads
  BY ZenonT(60) DEF Starting, Running
<1>2. /\ IsFiniteSet(Starting) /\ IsFiniteSet(Running)
      /\ IsFiniteSet(Starting') /\ IsFiniteSet(Running')
  BY ZenonT(60), <1>1, FS_Subset DEF ThreadsAssumption
<1> QED BY ZenonT(60), <1>2, FS_CardinalityType

\* A slot that somebody owns is counted.
LEMMA BusyCovers ==
    ASSUME ThreadsAssumption, SlotsHaveOwners
    PROVE  /\ \A t \in Callers : op[t] = "starts" => busy > 0
           /\ \A h \in Threads : run[h] # "unused" => busy > 0
<1>1. busy = Cardinality(Starting) + Cardinality(Running)
  BY ZenonT(60) DEF SlotsHaveOwners, Starting, Running
<1>2. ASSUME Starting # {} \/ Running # {} PROVE busy > 0
  <2>1. Cardinality(Starting) # 0 \/ Cardinality(Running) # 0
    BY ZenonT(60), <1>2, CountsAreNat, FS_EmptySet
  <2> QED BY SMTT(40), <1>1, <2>1, CountsAreNat
<1>3. \A t \in Callers : op[t] = "starts" => Starting # {}
  BY ZenonT(60) DEF Starting
<1>4. \A h \in Threads : run[h] # "unused" => Running # {}
  BY ZenonT(60) DEF Running
<1> QED BY ZenonT(60), <1>2, <1>3, <1>4

-----------------------------------------------------------------------------
(* Every step, by what it changes.                                         *)

\* A pass of claim_blocking_slot.
LEMMA ClaimPassType ==
    ASSUME ThreadsAssumption, CallInv, NEW t \in Callers, NEW l \in Limits, ClaimPass(t, l)
    PROVE  ThreadsTypeOK'
<1>1. ThreadsTypeOK /\ Remove(waiting, t) \in Seq(Callers) /\ Add(Remove(waiting, t), t) \in Seq(Callers)
  BY ZenonT(60), ListFacts DEF CallInv
<1>2. CASE TakeSlot(t, l)
  BY SMTT(40), <1>1, <1>2 DEF TakeSlot, At, ThreadsTypeOK, callerWaits, helpers, ThreadsAssumption
<1>3. CASE busy >= MaxThreads /\ l = "passed" /\ ClaimFails(t)
  BY ZenonT(60), <1>1, <1>3 DEF ClaimFails, Return, At, ThreadsTypeOK, callerWaits, helpers, Limits
<1>4. CASE WaitForSlot(t, l)
  BY ZenonT(60), <1>1, <1>4, StartWaitFacts DEF WaitForSlot, At, ThreadsTypeOK, helpers
<1> QED BY ZenonT(60), <1>2, <1>3, <1>4 DEF ClaimPass

\* The types after a claim that is given up,
LEMMA ClaimFailsType ==
    ASSUME CallInv, NEW t \in Callers, ClaimFails(t)
    PROVE  ThreadsTypeOK'
<1>1. ThreadsTypeOK /\ Remove(waiting, t) \in Seq(Callers)
  BY ZenonT(60), ListFacts DEF CallInv
<1> QED BY ZenonT(60), <1>1 DEF ClaimFails, Return, At, ThreadsTypeOK, callerWaits, helpers, Limits

\* after a call that returns,
LEMMA CallReturnsType ==
    ASSUME CallInv, NEW t \in Callers, thread[t] \in Threads, CallReturns(t)
    PROVE  ThreadsTypeOK'
BY ZenonT(60) DEF CallInv, CallReturns, Return, At, ThreadsTypeOK, callerWaits, Limits

\* after a look at the result,
LEMMA LookPassType ==
    ASSUME CallInv, NEW t \in Callers, thread[t] \in Threads, LookPass(t)
    PROVE  ThreadsTypeOK'
<1>1. CASE WaitForResult(t)
  BY SMTT(40), <1>1, StartWaitFacts DEF WaitForResult, At, ThreadsTypeOK, CallInv
<1> QED BY ZenonT(60), <1>1, CallReturnsType DEF LookPass

\* and so after every step.
LEMMA TypeInductive ==
    ASSUME ThreadsAssumption, CallInv, SlotsHaveOwners, [ThreadsNext]_threadVars
    PROVE  ThreadsTypeOK'
<1>0. ThreadsTypeOK /\ CallsFit
  BY ZenonT(60) DEF CallInv
<1>1. ASSUME NEW t \in Callers, NEW l \in Limits, Claim(t, l) PROVE ThreadsTypeOK'
  BY ZenonT(60), <1>1, ClaimPassType DEF Claim
<1>2. ASSUME NEW t \in Callers, ClaimWoken(t) PROVE ThreadsTypeOK'
  BY ZenonT(60), <1>0, <1>2, ClaimPassType, ClaimFailsType DEF ClaimWoken, ThreadsTypeOK
<1>3. ASSUME GiveBack, busy > 0 PROVE busy' \in Nat
  BY SMTT(40), <1>0, <1>3 DEF GiveBack, ThreadsTypeOK
<1>4. ASSUME NEW t \in Callers, SpawnFails(t) PROVE ThreadsTypeOK'
  <2>1. busy > 0
    BY ZenonT(60), <1>0, <1>4, BusyCovers DEF SpawnFails
  <2>2. GiveBack /\ Return(t) /\ UNCHANGED helpers
    BY ZenonT(60), <1>4 DEF SpawnFails
  <2>3. busy' \in Nat
    BY ZenonT(60), <1>3, <2>1, <2>2
  <2> QED BY ZenonT(60), <1>0, <2>2, <2>3, GiveBackFacts DEF Return, At, ThreadsTypeOK, helpers, Limits
<1>5. ASSUME NEW t \in Callers, Look(t) PROVE ThreadsTypeOK'
  BY ZenonT(60), <1>0, <1>5, LookPassType DEF Look, CallsFit
<1>6. ASSUME NEW t \in Callers, LookWoken(t) PROVE ThreadsTypeOK'
  BY ZenonT(60), <1>0, <1>6, LookPassType, CallReturnsType DEF LookWoken, CallsFit
<1>7. ASSUME NEW t \in Callers, NEW h \in Threads, StartThread(t, h) PROVE ThreadsTypeOK'
  BY ZenonT(60), <1>0, <1>7 DEF StartThread, At, ThreadsTypeOK, callerWaits
<1>8. ASSUME NEW t \in Callers, CancelCall(t) PROVE ThreadsTypeOK'
  BY ZenonT(60), <1>0, <1>8 DEF CancelCall, ThreadsTypeOK, call, helpers
<1>9. ASSUME NEW t \in Callers, DeadlinePasses(t) PROVE ThreadsTypeOK'
  BY ZenonT(60), <1>0, <1>9 DEF DeadlinePasses, ThreadsTypeOK, callerWaits, helpers, Limits
<1>10. ASSUME NEW t \in Callers, FireTimer(t) PROVE ThreadsTypeOK'
  BY ZenonT(60), <1>0, <1>10, WakeFacts DEF FireTimer, ThreadsTypeOK, call, helpers
<1>11. ASSUME NEW h \in Threads, KeepResult(h) PROVE ThreadsTypeOK'
  BY ZenonT(60), <1>0, <1>11, WakeFacts DEF KeepResult, ThreadsTypeOK, call
<1>12. ASSUME NEW h \in Threads, ThreadEnds(h) PROVE ThreadsTypeOK'
  <2>1. busy > 0
    BY ZenonT(60), <1>0, <1>12, BusyCovers DEF ThreadEnds
  <2>2. GiveBack /\ run' = [run EXCEPT ![h] = "unused"] /\ UNCHANGED <<call, done, watcher>>
    BY ZenonT(60), <1>12 DEF ThreadEnds
  <2>3. busy' \in Nat
    BY ZenonT(60), <1>3, <2>1, <2>2
  <2> QED BY ZenonT(60), <1>0, <2>2, <2>3, GiveBackFacts DEF ThreadsTypeOK, call
<1>13. CASE UNCHANGED threadVars
  BY ZenonT(60), <1>0, <1>13 DEF ThreadsTypeOK, threadVars, call, callerWaits, helpers
<1> QED BY ZenonT(60), <1>1, <1>2, <1>4, <1>5, <1>6, <1>7, <1>8, <1>9, <1>10, <1>11, <1>12, <1>13 DEF ThreadsNext, CallGoes

-----------------------------------------------------------------------------
(* No slot is lost.                                                        *)

\* A slot is taken, passed on to a thread, or given back.
LEMMA SlotsMove ==
    ASSUME ThreadsAssumption, SlotsHaveOwners,
           NEW t, NEW h,
           \/ /\ busy < MaxThreads /\ busy' = busy + 1
              /\ t \notin Starting /\ Starting' = Starting \cup {t} /\ Running' = Running
           \/ /\ busy' = busy
              /\ t \in Starting /\ Starting' = Starting \ {t}
              /\ h \notin Running /\ Running' = Running \cup {h}
           \/ /\ busy' = busy - 1
              /\ t \in Starting /\ Starting' = Starting \ {t} /\ Running' = Running
           \/ /\ busy' = busy - 1
              /\ h \in Running /\ Running' = Running \ {h} /\ Starting' = Starting
           \/ busy' = busy /\ Starting' = Starting /\ Running' = Running
    PROVE  SlotsHaveOwners'
<1> DEFINE s == Cardinality(Starting)
           r == Cardinality(Running)
           s2 == Cardinality(Starting')
           r2 == Cardinality(Running')
<1>1. busy = s + r /\ busy <= MaxThreads
  BY ZenonT(60) DEF SlotsHaveOwners, Starting, Running
<1>2. s \in Nat /\ r \in Nat /\ MaxThreads \in Nat
  BY ZenonT(60), CountsAreNat DEF ThreadsAssumption
<1>3. /\ t \notin Starting /\ Starting' = Starting \cup {t} => s2 = s + 1
      /\ t \in Starting /\ Starting' = Starting \ {t} => s2 = s - 1
      /\ Starting' = Starting => s2 = s
  BY ZenonT(60), CountsAreNat, FS_AddElement, FS_RemoveElement
<1>4. /\ h \notin Running /\ Running' = Running \cup {h} => r2 = r + 1
      /\ h \in Running /\ Running' = Running \ {h} => r2 = r - 1
      /\ Running' = Running => r2 = r
  BY ZenonT(60), CountsAreNat, FS_AddElement, FS_RemoveElement
<1> HIDE DEF s, r, s2, r2
<1>5. busy' = s2 + r2 /\ busy' <= MaxThreads
  BY SMTT(40), <1>1, <1>2, <1>3, <1>4
<1> QED BY ZenonT(60), <1>5 DEF SlotsHaveOwners, Starting, Running, s2, r2

\* Every step keeps each slot in use owned by one call or thread.
LEMMA SlotsInductive ==
    ASSUME ThreadsAssumption, CallInv, SlotsHaveOwners, [ThreadsNext]_threadVars
    PROVE  SlotsHaveOwners'
<1>0. ThreadsTypeOK /\ CallsFit
  BY ZenonT(60) DEF CallInv
<1>1. ASSUME NEW t \in Callers, NEW l \in Limits, op[t] \in {"none", "claims"}, ClaimPass(t, l)
      PROVE  SlotsHaveOwners'
  <2>1. CASE TakeSlot(t, l)
    <3>1. /\ busy < MaxThreads /\ busy' = busy + 1
          /\ t \notin Starting /\ Starting' = Starting \cup {t} /\ Running' = Running
      BY SMTT(40), <1>0, <1>1, <2>1 DEF TakeSlot, At, ThreadsTypeOK, Starting, Running, helpers
    <3> QED BY ZenonT(60), <3>1, SlotsMove
  <2>2. CASE ClaimFails(t) \/ WaitForSlot(t, l)
    <3>1. busy' = busy /\ Starting' = Starting /\ Running' = Running
      BY SMTT(40), <1>0, <1>1, <2>2 DEF ClaimFails, WaitForSlot, Return, At, ThreadsTypeOK, Starting, Running, helpers
    <3> QED BY ZenonT(60), <3>1, SlotsMove
  <2> QED BY ZenonT(60), <1>1, <2>1, <2>2 DEF ClaimPass
<1>2. ASSUME NEW t \in Callers, op[t] = "claims", ClaimFails(t) PROVE SlotsHaveOwners'
  <2>1. busy' = busy /\ Starting' = Starting /\ Running' = Running
    BY ZenonT(60), <1>0, <1>2 DEF ClaimFails, Return, At, ThreadsTypeOK, Starting, Running, helpers
  <2> QED BY ZenonT(60), <2>1, SlotsMove
<1>3. ASSUME NEW t \in Callers, ClaimWoken(t) PROVE SlotsHaveOwners'
  BY ZenonT(60), <1>0, <1>1, <1>2, <1>3 DEF ClaimWoken, ThreadsTypeOK
<1>4. ASSUME NEW t \in Callers, SpawnFails(t) PROVE SlotsHaveOwners'
  <2>1. busy' = busy - 1 /\ t \in Starting /\ Starting' = Starting \ {t} /\ Running' = Running
    BY ZenonT(60), <1>0, <1>4 DEF SpawnFails, GiveBack, Return, At, ThreadsTypeOK, Starting, Running, helpers
  <2> QED BY ZenonT(60), <2>1, SlotsMove
<1>5. ASSUME NEW t \in Callers, op[t] \in {"looks", "awaits"}, LookPass(t) \/ CallReturns(t)
      PROVE  SlotsHaveOwners'
  <2>1. busy' = busy /\ Starting' = Starting /\ Running' = Running
    BY SMTT(40), <1>0, <1>5 DEF LookPass, CallReturns, WaitForResult, Return, At, ThreadsTypeOK, Starting, Running
  <2> QED BY ZenonT(60), <2>1, SlotsMove
<1>6. ASSUME NEW t \in Callers, NEW h \in Threads, StartThread(t, h) PROVE SlotsHaveOwners'
  <2>1. /\ busy' = busy
        /\ t \in Starting /\ Starting' = Starting \ {t}
        /\ h \notin Running /\ Running' = Running \cup {h}
    BY SMTT(40), <1>0, <1>6 DEF StartThread, At, ThreadsTypeOK, Starting, Running
  <2> QED BY ZenonT(60), <2>1, SlotsMove
<1>7. ASSUME NEW t \in Callers, CancelCall(t) \/ DeadlinePasses(t) \/ FireTimer(t) PROVE SlotsHaveOwners'
  <2>1. busy' = busy /\ Starting' = Starting /\ Running' = Running
    BY ZenonT(60), <1>7 DEF CancelCall, DeadlinePasses, FireTimer, call, helpers, Starting, Running
  <2> QED BY ZenonT(60), <2>1, SlotsMove
<1>8. ASSUME NEW h \in Threads, KeepResult(h) PROVE SlotsHaveOwners'
  <2>1. busy' = busy /\ Starting' = Starting /\ Running' = Running
    BY ZenonT(60), <1>0, <1>8 DEF KeepResult, call, ThreadsTypeOK, Starting, Running
  <2> QED BY ZenonT(60), <2>1, SlotsMove
<1>9. ASSUME NEW h \in Threads, ThreadEnds(h) PROVE SlotsHaveOwners'
  <2>1. busy' = busy - 1 /\ h \in Running /\ Running' = Running \ {h} /\ Starting' = Starting
    BY ZenonT(60), <1>0, <1>9 DEF ThreadEnds, GiveBack, call, ThreadsTypeOK, Starting, Running
  <2> QED BY ZenonT(60), <2>1, SlotsMove
<1>10. CASE UNCHANGED threadVars
  <2>1. busy' = busy /\ Starting' = Starting /\ Running' = Running
    BY ZenonT(60), <1>10 DEF threadVars, call, helpers, Starting, Running
  <2> QED BY ZenonT(60), <2>1, SlotsMove
<1> QED BY ZenonT(60), <1>1, <1>3, <1>4, <1>5, <1>6, <1>7, <1>8, <1>9, <1>10 DEF ThreadsNext, CallGoes, Claim, Look,
           LookWoken

-----------------------------------------------------------------------------
(* The calls, the list and the watchers fit, and no result goes unnoticed. *)

\* A claiming call moves on without a thread.
LEMMA ClaimFits ==
    ASSUME ThreadsAssumption, CallInv, NEW t \in Callers, NEW l \in Limits, op[t] \in {"none", "claims"},
           ClaimPass(t, l) \/ ClaimFails(t)
    PROVE  CallsFit' /\ ResultIsNoticed'
<1>0. ThreadsTypeOK /\ CallsFit /\ ResultIsNoticed
  BY ZenonT(60) DEF CallInv
<1>1. UNCHANGED helpers
  BY ZenonT(60) DEF ClaimPass, ClaimFails, TakeSlot, WaitForSlot
<1>2. PICK o \in {"none", "claims", "starts"}, l2 \in Limits : At(t, o, l2, NoThread)
                /\ (waiting' = Remove(waiting, t) \/ (o = "claims" /\ waiting' = Add(Remove(waiting, t), t)))
  BY ZenonT(60) DEF ClaimPass, ClaimFails, TakeSlot, WaitForSlot, Return, Limits
<1>3. /\ op'[t] = o /\ thread'[t] = NoThread
      /\ \A u \in Callers \ {t} : op'[u] = op[u] /\ thread'[u] = thread[u]
  BY ZenonT(60), <1>0, <1>2, AtFacts
<1>4. \A u \in Callers \ {t} : callerLive'[u] <=> callerLive[u]
  BY ZenonT(60), <1>0, StartWaitFacts DEF ClaimPass, ClaimFails, TakeSlot, WaitForSlot, callerWaits, ThreadsTypeOK
<1>5. Once(waiting') /\ \A u \in Callers : Has(waiting', u) => op'[u] = "claims"
  <2>1. Once(waiting) /\ \A u \in Callers : Has(waiting, u) => op[u] = "claims"
    BY ZenonT(60), <1>0 DEF CallsFit
  <2>2. CASE waiting' = Remove(waiting, t)
    <3>1. Once(waiting') /\ ~Has(waiting', t) /\ \A u \in Callers : Has(waiting', u) => Has(waiting, u)
      BY ZenonT(60), <2>2, ListFacts
    <3> QED BY ZenonT(60), <1>3, <2>1, <3>1
  <2>3. CASE o = "claims" /\ waiting' = Add(Remove(waiting, t), t)
    <3>1. Once(waiting') /\ \A u \in Callers : Has(waiting', u) => Has(waiting, u) \/ u = t
      BY ZenonT(60), <2>3, ListFacts
    <3> QED BY ZenonT(60), <1>3, <2>1, <2>3, <3>1
  <2> QED BY ZenonT(60), <1>2, <2>2, <2>3
<1>6. \A h \in Threads : \A u \in watcher'[h] : u # t /\ u \in Callers /\ op'[u] = "awaits" /\ thread'[u] = h
  BY ZenonT(60), <1>0, <1>1, <1>3 DEF CallsFit, ThreadsTypeOK, helpers
<1>7. CallsFit'
  BY SMTT(40), <1>0, <1>3, <1>5, <1>6 DEF CallsFit, ThreadsAssumption
<1>8. ResultIsNoticed'
  BY ZenonT(60), <1>0, <1>1, <1>2, <1>3, <1>4 DEF ResultIsNoticed, helpers
<1> QED BY ZenonT(60), <1>7, <1>8

\* A call that looks for its result: it is there, or the call is the watcher.
LEMMA LookFits ==
    ASSUME ThreadsAssumption, CallInv, NEW t \in Callers, op[t] \in {"looks", "awaits"},
           LookPass(t) \/ CallReturns(t)
    PROVE  CallsFit' /\ ResultIsNoticed'
<1>0. ThreadsTypeOK /\ CallsFit /\ ResultIsNoticed /\ thread[t] \in Threads
  BY ZenonT(60) DEF CallInv, CallsFit
<1> DEFINE k == thread[t]
<1>1. CASE CallReturns(t)
  <2>1. /\ op'[t] = "none" /\ thread'[t] = NoThread
        /\ \A u \in Callers \ {t} : op'[u] = op[u] /\ thread'[u] = thread[u]
    BY ZenonT(60), <1>0, <1>1, AtFacts DEF CallReturns, Return, Limits
  <2>2. /\ waiting' = waiting /\ callerLive' = callerLive /\ done' = done
        /\ \A h \in Threads : watcher'[h] = IF h = k THEN watcher[h] \ {t} ELSE watcher[h]
    BY Zenon, <1>0, <1>1 DEF CallReturns, callerWaits, ThreadsTypeOK
  <2>3. \A h \in Threads : \A u \in watcher'[h] : u # t /\ u \in Callers /\ op[u] = "awaits" /\ thread[u] = h
    <3> SUFFICES ASSUME NEW h \in Threads, NEW u \in watcher'[h]
                 PROVE  u # t /\ u \in Callers /\ op[u] = "awaits" /\ thread[u] = h
      OBVIOUS
    <3>1. u \in watcher[h] /\ (h = k => u # t)
      BY Zenon, <2>2
    <3>2. u \in Callers /\ op[u] = "awaits" /\ thread[u] = h
      BY ZenonT(60), <1>0, <3>1 DEF CallsFit, ThreadsTypeOK
    <3> QED BY ZenonT(60), <3>1, <3>2
  <2>4. CallsFit'
    <3>1. \A h \in Threads : \A u \in watcher'[h] : op'[u] = "awaits" /\ thread'[u] = h
      BY ZenonT(60), <2>1, <2>3
    <3>2. \A u \in Callers : Has(waiting, u) => u # t
      BY ZenonT(60), <1>0 DEF CallsFit
    <3> QED BY SMTT(40), <1>0, <2>1, <2>2, <3>1, <3>2 DEF CallsFit, ThreadsAssumption
  <2>5. \A u \in Callers \ {t} : op[u] = "awaits" => thread[u] \in Threads /\ thread[u] # k
    BY ZenonT(60), <1>0 DEF CallsFit
  <2>6. ResultIsNoticed'
    BY SMTT(40), <1>0, <2>1, <2>2, <2>5 DEF ResultIsNoticed
  <2> QED BY ZenonT(60), <2>4, <2>6
<1>2. CASE WaitForResult(t)
  <2>1. /\ op'[t] = "awaits" /\ thread'[t] = k
        /\ \A u \in Callers \ {t} : op'[u] = op[u] /\ thread'[u] = thread[u]
    BY ZenonT(60), <1>0, <1>2, AtFacts DEF WaitForResult, ThreadsTypeOK
  <2>2. /\ waiting' = waiting /\ done' = done /\ ~done[k]
        /\ \A h \in Threads : watcher'[h] = IF h = k THEN {t} ELSE watcher[h]
    BY ZenonT(60), <1>0, <1>2 DEF WaitForResult, ThreadsTypeOK
  <2>3. \A u \in Callers \ {t} : callerLive'[u] <=> callerLive[u]
    BY ZenonT(60), <1>0, <1>2, StartWaitFacts DEF WaitForResult
  <2>4. \A h \in Threads : \A u \in watcher'[h] : op'[u] = "awaits" /\ thread'[u] = h
    <3> SUFFICES ASSUME NEW h \in Threads, NEW u \in watcher'[h]
                 PROVE  op'[u] = "awaits" /\ thread'[u] = h
      OBVIOUS
    <3>1. CASE h = k
      BY ZenonT(60), <2>1, <2>2, <3>1
    <3>2. CASE h # k
      <4>1. u \in watcher[h] /\ u \in Callers /\ op[u] = "awaits" /\ thread[u] = h
        BY ZenonT(60), <1>0, <2>2, <3>2 DEF CallsFit, ThreadsTypeOK
      <4> QED BY ZenonT(60), <2>1, <3>2, <4>1
    <3> QED BY ZenonT(60), <3>1, <3>2
  <2>5. \A u \in Callers : Has(waiting, u) => u # t
    BY ZenonT(60), <1>0 DEF CallsFit
  <2>6. CallsFit'
    BY SMTT(40), <1>0, <2>1, <2>2, <2>4, <2>5 DEF CallsFit
  <2>7. \A u \in Callers \ {t} : op[u] = "awaits" => thread[u] \in Threads /\ thread[u] # k
    BY ZenonT(60), <1>0 DEF CallsFit
  <2>8. ResultIsNoticed'
    BY SMTT(40), <1>0, <2>1, <2>2, <2>3, <2>7 DEF ResultIsNoticed
  <2> QED BY ZenonT(60), <2>6, <2>8
<1> QED BY ZenonT(60), <1>1, <1>2 DEF LookPass

\* A slot given back touches claims only.
LEMMA GiveBackFits ==
    ASSUME ThreadsAssumption, CallInv, GiveBack, done' = done, watcher' = watcher, NEW t,
           \/ t \in Callers /\ op[t] = "starts" /\ Return(t)
           \/ UNCHANGED call
    PROVE  CallsFit' /\ ResultIsNoticed'
<1>0. ThreadsTypeOK /\ CallsFit /\ ResultIsNoticed
  BY ZenonT(60) DEF CallInv
<1>1. /\ Once(waiting') /\ \A u \in Callers : Has(waiting', u) => Has(waiting, u)
      /\ \A u \in Callers : callerLive'[u] => callerLive[u]
  BY ZenonT(60), GiveBackFacts
<1>2. \A u \in Callers : (op'[u] = op[u] /\ thread'[u] = thread[u])
                            \/ (op[u] = "starts" /\ op'[u] = "none" /\ thread'[u] = NoThread)
  <2>1. CASE UNCHANGED call
    BY ZenonT(60), <2>1 DEF call
  <2>2. CASE t \in Callers /\ op[t] = "starts" /\ Return(t)
    BY ZenonT(60), <1>0, <2>2, AtFacts DEF Return, Limits
  <2> QED BY ZenonT(60), <2>1, <2>2
<1>3. \A h \in Threads : \A u \in watcher[h] : u \in Callers
  BY ZenonT(60), <1>0 DEF ThreadsTypeOK
<1>4. CallsFit'
  BY SMTT(40), <1>0, <1>1, <1>2, <1>3 DEF CallsFit, ThreadsAssumption
<1>5. ResultIsNoticed'
  BY ZenonT(60), <1>0, <1>1, <1>2 DEF ResultIsNoticed
<1> QED BY ZenonT(60), <1>4, <1>5

\* Every step keeps calls and threads together, and results noticed.
LEMMA FitsInductive ==
    ASSUME ThreadsAssumption, CallInv, [ThreadsNext]_threadVars
    PROVE  CallsFit' /\ ResultIsNoticed'
<1>0. ThreadsTypeOK /\ CallsFit /\ ResultIsNoticed
  BY ZenonT(60) DEF CallInv
<1> DEFINE Fits2 == CallsFit' /\ ResultIsNoticed'
<1>1. ASSUME NEW t \in Callers, NEW l \in Limits, Claim(t, l) PROVE Fits2
  BY ZenonT(60), <1>1, ClaimFits DEF Claim
<1>2. ASSUME NEW t \in Callers, ClaimWoken(t) PROVE Fits2
  BY ZenonT(60), <1>0, <1>2, ClaimFits DEF ClaimWoken, ThreadsTypeOK
<1>3. ASSUME NEW t \in Callers, SpawnFails(t) PROVE Fits2
  BY ZenonT(60), <1>3, GiveBackFits DEF SpawnFails, helpers
<1>4. ASSUME NEW t \in Callers, Look(t) \/ LookWoken(t) PROVE Fits2
  BY ZenonT(60), <1>4, LookFits DEF Look, LookWoken
<1>5. ASSUME NEW t \in Callers, NEW h \in Threads, StartThread(t, h) PROVE Fits2
  <2>1. /\ op'[t] = "looks" /\ thread'[t] = h
        /\ \A u \in Callers \ {t} : op'[u] = op[u] /\ thread'[u] = thread[u]
    BY ZenonT(60), <1>0, <1>5, AtFacts DEF StartThread, ThreadsTypeOK
  <2>2. /\ op[t] = "starts" /\ \A u \in Callers : thread[u] # h
        /\ waiting' = waiting /\ callerLive' = callerLive /\ watcher' = watcher
        /\ \A k \in Threads \ {h} : done'[k] = done[k]
    BY ZenonT(60), <1>0, <1>5 DEF StartThread, callerWaits, ThreadsTypeOK
  <2>3. \A k \in Threads : \A u \in watcher[k] : u \in Callers /\ u # t
    BY ZenonT(60), <1>0, <2>2 DEF ThreadsTypeOK, CallsFit
  <2>4. CallsFit'
    BY <1>0, <2>1, <2>2, <2>3 DEF CallsFit
  <2>5. \A u \in Callers : op[u] = "awaits" => thread[u] \in Threads \ {h}
    BY ZenonT(60), <1>0, <2>2 DEF CallsFit
  <2>6. ResultIsNoticed'
    BY ZenonT(60), <1>0, <2>1, <2>2, <2>5 DEF ResultIsNoticed
  <2> QED BY ZenonT(60), <2>4, <2>6
<1>6. ASSUME waiting' = waiting, op' = op, thread' = thread, done' = done, watcher' = watcher,
             \A u \in Callers : callerLive'[u] => callerLive[u]
      PROVE  Fits2
  BY ZenonT(60), <1>0, <1>6 DEF CallsFit, ResultIsNoticed
<1>7. ASSUME NEW t \in Callers, CancelCall(t) \/ DeadlinePasses(t) \/ FireTimer(t) PROVE Fits2
  <2>1. \A u \in Callers : callerLive'[u] => callerLive[u]
    BY ZenonT(60), <1>0, <1>7, WakeFacts DEF CancelCall, DeadlinePasses, FireTimer, callerWaits, ThreadsTypeOK
  <2> QED BY ZenonT(60), <1>6, <1>7, <2>1 DEF CancelCall, DeadlinePasses, FireTimer, call, helpers
<1>8. ASSUME NEW h \in Threads, KeepResult(h) PROVE Fits2
  <2>1. /\ waiting' = waiting /\ op' = op /\ thread' = thread
        /\ \A k \in Threads : watcher'[k] = IF k = h THEN {} ELSE watcher[k]
        /\ \A k \in Threads \ {h} : done'[k] = done[k]
    BY ZenonT(60), <1>0, <1>8 DEF KeepResult, call, ThreadsTypeOK
  <2>2. \A u \in Callers : callerLive'[u] <=> callerLive[u] /\ u \notin watcher[h]
    BY ZenonT(60), <1>0, <1>8, WakeFacts DEF KeepResult
  <2>3. CallsFit'
    BY ZenonT(60), <1>0, <2>1 DEF CallsFit
  <2>4. \A u \in Callers : op[u] = "awaits" /\ callerLive'[u] => thread[u] \in Threads \ {h}
    BY SMTT(40), <1>0, <2>2 DEF CallsFit, ResultIsNoticed
  <2>5. ResultIsNoticed'
    BY ZenonT(60), <1>0, <2>1, <2>2, <2>4 DEF ResultIsNoticed
  <2> QED BY ZenonT(60), <2>3, <2>5
<1>9. ASSUME NEW h \in Threads, ThreadEnds(h) PROVE Fits2
  BY ZenonT(60), <1>9, GiveBackFits DEF ThreadEnds
<1>10. CASE UNCHANGED threadVars
  BY ZenonT(60), <1>6, <1>10 DEF threadVars, call, callerWaits, helpers
<1> QED BY ZenonT(60), <1>1, <1>2, <1>3, <1>4, <1>5, <1>7, <1>8, <1>9, <1>10 DEF ThreadsNext, CallGoes

-----------------------------------------------------------------------------
(* The claims take the steps of a pool.                                    *)

\* The pool's operators on lists are the module's own.
LEMMA SameOperators ==
    ASSUME NEW t, NEW a
    PROVE  /\ Claims!Remove(waiting, t) = Remove(waiting, t)
           /\ Claims!Add(Remove(waiting, t), t) = Add(Remove(waiting, t), t)
           /\ Claims!LeftByOne(waiting, a) = LeftByOne(waiting, a)
           /\ Claims!WokenByOne(waiting, a) = WokenByOne(waiting, a)
<1>1. Claims!Remove(waiting, t) = Remove(waiting, t)
  BY ZenonT(60) DEF Claims!Remove, Claims!Has, Remove, Has
<1>2. Claims!Waiting(waiting, a) = Waiting(waiting, a)
  BY ZenonT(60) DEF Claims!Waiting, Waiting
<1>3. Claims!Popped(waiting, a) = Popped(waiting, a)
  BY SMTT(40), <1>2 DEF Claims!Popped, Popped
<1> QED BY ZenonT(60), <1>1, <1>2, <1>3 DEF Claims!Add, Add, Claims!LeftByOne, LeftByOne, Claims!WokenByOne, WokenByOne

\* A step that concerns no claim.
LEMMA NoClaimMoves ==
    ASSUME ThreadsTypeOK, ThreadsTypeOK', busy' = busy, waiting' = waiting, callerCancelled' = callerCancelled,
           \A u \in Callers : /\ op'[u] = "claims" <=> op[u] = "claims"
                              /\ op[u] = "claims" => limit'[u] = limit[u] /\ (callerLive'[u] <=> callerLive[u]) /\ callerWoke'[u] = callerWoke[u]
    PROVE  UNCHANGED Claims!vars
<1>1. Standing' = Standing
  BY ZenonT(60) DEF Standing
<1>2. ClaimLimit' = ClaimLimit /\ Stopped' = Stopped
  BY ZenonT(60) DEF ClaimLimit, Stopped
<1> QED BY ZenonT(60), <1>1, <1>2 DEF Claims!vars

\* A claim that is given up fails in the pool,
LEMMA ClaimFailsMoves ==
    ASSUME ThreadsTypeOK, ThreadsTypeOK', NEW t \in Callers, ClaimFails(t)
    PROVE  Claims!Fail(t)
<1>1. /\ op'[t] = "none" /\ limit'[t] = "none"
      /\ \A u \in Callers \ {t} : op'[u] = op[u] /\ limit'[u] = limit[u]
      /\ UNCHANGED <<busy, callerLive, callerWoke, callerCancelled>> /\ waiting' = Remove(waiting, t)
  BY SMTT(40), AtFacts DEF ClaimFails, Return, callerWaits, Limits
<1>2. Standing' = [Standing EXCEPT ![t] = "none"]
  BY Zenon, <1>1 DEF Standing
<1>3. ClaimLimit' = [ClaimLimit EXCEPT ![t] = "none"] /\ Stopped' = Stopped
  BY Zenon, <1>1 DEF ClaimLimit, Stopped
<1> QED BY ZenonT(60), <1>1, <1>2, <1>3, SameOperators DEF Claims!Fail

\* and one that takes a slot or waits passes.
LEMMA ClaimPassMoves ==
    ASSUME ThreadsTypeOK, ThreadsTypeOK', NEW t \in Callers, NEW l \in Limits, ClaimPass(t, l)
    PROVE  Claims!Pass(t, l)
<1>1. CASE TakeSlot(t, l)
  <2>1. /\ op'[t] = "starts"
        /\ \A u \in Callers \ {t} : op'[u] = op[u] /\ limit'[u] = limit[u]
        /\ UNCHANGED <<callerLive, callerWoke, callerCancelled>> /\ waiting' = Remove(waiting, t)
        /\ busy < MaxThreads /\ busy' = busy + 1
    BY ZenonT(60), <1>1, AtFacts DEF TakeSlot, callerWaits
  <2>2. Standing' = [Standing EXCEPT ![t] = "none"]
    BY Zenon, <2>1 DEF Standing
  <2>3. ClaimLimit' = [ClaimLimit EXCEPT ![t] = "none"] /\ Stopped' = Stopped
    BY Zenon, <2>1 DEF ClaimLimit, Stopped
  <2> QED BY ZenonT(60), <2>1, <2>2, <2>3, SameOperators DEF Claims!Pass, Claims!Take
<1>2. CASE busy >= MaxThreads /\ l = "passed" /\ ClaimFails(t)
  BY ZenonT(60), <1>2, ClaimFailsMoves DEF Claims!Pass
<1>3. CASE WaitForSlot(t, l)
  <2>1. /\ op'[t] = "claims" /\ limit'[t] = l
        /\ \A u \in Callers \ {t} : op'[u] = op[u] /\ limit'[u] = limit[u]
        /\ waiting' = Add(Remove(waiting, t), t)
        /\ busy >= MaxThreads /\ l # "passed" /\ busy' = busy
    BY ZenonT(60), <1>3, AtFacts DEF WaitForSlot
  <2>2. /\ callerLive'[t] <=> ~callerCancelled[t]
        /\ callerWoke'[t] = IF callerCancelled[t] THEN "Cancelled" ELSE "Ready"
        /\ \A u \in Callers \ {t} : (callerLive'[u] <=> callerLive[u]) /\ callerWoke'[u] = callerWoke[u]
        /\ callerCancelled' = callerCancelled
    BY ZenonT(60), <1>3, StartWaitFacts DEF WaitForSlot
  <2>3. Standing' = [Standing EXCEPT ![t] = IF TRUE /\ t \in Stopped THEN "cancelled" ELSE "asleep"]
    <3>1. t \in Stopped <=> callerCancelled[t]
      BY ZenonT(60) DEF Stopped
    <3> QED BY ZenonT(60), <2>1, <2>2, <3>1 DEF Standing
  <2>4. ClaimLimit' = [ClaimLimit EXCEPT ![t] = l] /\ Stopped' = Stopped
    BY ZenonT(60), <2>1, <2>2 DEF ClaimLimit, Stopped
  <2> QED BY ZenonT(60), <2>1, <2>3, <2>4, SameOperators DEF Claims!Pass, Claims!Wait
<1> QED BY ZenonT(60), <1>1, <1>2, <1>3 DEF ClaimPass

\* Only claims are on the list, so the pool finds the same task to wake.
LEMMA GiveBackMoves ==
    ASSUME CallInv, ThreadsTypeOK', GiveBack, busy > 0,
           \A u \in Callers : /\ op'[u] = "claims" <=> op[u] = "claims"
                              /\ op[u] = "claims" => limit'[u] = limit[u]
    PROVE  Claims!GiveBack
<1>0. ThreadsTypeOK /\ CallsFit
  BY ZenonT(60) DEF CallInv
<1> DEFINE A == Claims!Asleep
           W == WokenByOne(waiting, callerLive)
<1>1. Waiting(waiting, A) = Waiting(waiting, callerLive)
  <2>1. \A i \in DOMAIN waiting : waiting[i] \in Callers /\ op[waiting[i]] = "claims"
    BY <1>0 DEF ThreadsTypeOK, CallsFit, Has
  <2>2. \A u \in Callers : op[u] = "claims" => (A[u] <=> callerLive[u])
    BY ZenonT(60), <1>0 DEF Claims!Asleep, Standing, ThreadsTypeOK
  <2> QED BY ZenonT(60), <2>1, <2>2 DEF Waiting
<1> HIDE DEF A
<1>2. Popped(waiting, A) = Popped(waiting, callerLive)
  BY <1>1 DEF Popped
<1>3. LeftByOne(waiting, A) = LeftByOne(waiting, callerLive) /\ WokenByOne(waiting, A) = W
  BY ZenonT(60), <1>1, <1>2 DEF LeftByOne, WokenByOne
<1> HIDE DEF W
<1>4. /\ busy' = busy - 1 /\ waiting' = LeftByOne(waiting, callerLive) /\ callerCancelled' = callerCancelled
      /\ \A u \in Callers : callerLive'[u] <=> callerLive[u] /\ u \notin W
      /\ \A u \in Callers : callerWoke'[u] = IF u \in W THEN "Ready" ELSE callerWoke[u]
      /\ \A u \in W : u \in Callers /\ op[u] = "claims" /\ callerLive[u]
  BY ZenonT(60), GiveBackFacts DEF W
<1>5. Standing' = [u \in Callers |-> IF u \in W THEN "woken" ELSE Standing[u]]
  BY ZenonT(60), <1>4 DEF Standing
<1>6. ClaimLimit' = ClaimLimit /\ Stopped' = Stopped
  BY ZenonT(60), <1>4 DEF ClaimLimit, Stopped
<1>7. Claims!LeftByOne(waiting, A) = LeftByOne(waiting, callerLive) /\ Claims!WokenByOne(waiting, A) = W
  BY ZenonT(60), <1>3, SameOperators
<1> QED BY ZenonT(60), <1>4, <1>5, <1>6, <1>7 DEF Claims!GiveBack, A

\* Every step of a call is a step of the pool, or none.
LEMMA ClaimsStep ==
    ASSUME ThreadsAssumption, CallInv, SlotsHaveOwners, [ThreadsNext]_threadVars
    PROVE  [Claims!Next]_(Claims!vars)
<1>0. ThreadsTypeOK /\ CallsFit /\ ThreadsTypeOK'
  BY ZenonT(60), TypeInductive DEF CallInv
<1> DEFINE Moves == Claims!Next \/ UNCHANGED Claims!vars
<1>1. ASSUME NEW t \in Callers, NEW l \in Limits, Claim(t, l) PROVE Moves
  <2>1. Claims!Pass(t, l) /\ Standing[t] = "none"
    BY ZenonT(60), <1>0, <1>1, ClaimPassMoves DEF Claim, Standing
  <2> QED BY ZenonT(60), <2>1 DEF Claims!Claim, Claims!Next
<1>2. ASSUME NEW t \in Callers, ClaimWoken(t) PROVE Moves
  <2>1. ClaimLimit[t] = limit[t] /\ limit[t] \in Limits
    BY ZenonT(60), <1>0, <1>2 DEF ClaimWoken, ClaimLimit, ThreadsTypeOK
  <2>2. CASE callerWoke[t] = "Cancelled"
    <3>1. Standing[t] = "cancelled" /\ Claims!Fail(t)
      BY ZenonT(60), <1>0, <1>2, <2>2, ClaimFailsMoves DEF ClaimWoken, Standing
    <3> QED BY ZenonT(60), <3>1 DEF Claims!ClaimWoken, Claims!Next
  <2>3. CASE callerWoke[t] # "Cancelled"
    <3>1. Standing[t] = "woken" /\ Claims!Pass(t, limit[t])
      BY ZenonT(60), <1>0, <1>2, <2>1, <2>3, ClaimPassMoves DEF ClaimWoken, Standing
    <3> QED BY ZenonT(60), <2>1, <3>1 DEF Claims!ClaimWoken, Claims!Next
  <2> QED BY ZenonT(60), <2>2, <2>3
<1>3. ASSUME NEW t \in Callers, SpawnFails(t) PROVE Moves
  <2>1. GiveBack /\ busy > 0
    BY ZenonT(60), <1>3, BusyCovers DEF SpawnFails
  <2>2. /\ op[t] = "starts" /\ op'[t] = "none"
        /\ \A u \in Callers \ {t} : op'[u] = op[u] /\ limit'[u] = limit[u]
    BY ZenonT(60), <1>0, <1>3, AtFacts DEF SpawnFails, Return, Limits
  <2>3. Claims!GiveBack
    BY ZenonT(60), <1>0, <2>1, <2>2, GiveBackMoves
  <2> QED BY ZenonT(60), <2>3 DEF Claims!Next
<1>4. ASSUME NEW t \in Callers, op[t] \in {"looks", "awaits"}, LookPass(t) \/ CallReturns(t) PROVE Moves
  <2>1. PICK o \in {"none", "awaits"}, l \in Limits, h \in Threads \cup {NoThread} : At(t, o, l, h)
    BY SMTT(40), <1>0, <1>4 DEF LookPass, CallReturns, WaitForResult, Return, Limits, ThreadsTypeOK
  <2>2. op'[t] = o /\ \A u \in Callers \ {t} : op'[u] = op[u] /\ limit'[u] = limit[u]
    BY ZenonT(60), <1>0, <2>1, AtFacts
  <2>3. \A u \in Callers \ {t} : (callerLive'[u] <=> callerLive[u]) /\ callerWoke'[u] = callerWoke[u]
    BY ZenonT(60), <1>0, <1>4, StartWaitFacts DEF LookPass, CallReturns, WaitForResult, callerWaits
  <2>4. busy' = busy /\ waiting' = waiting /\ callerCancelled' = callerCancelled
    BY ZenonT(60), <1>4 DEF LookPass, CallReturns, WaitForResult, StartWait, callerWaits
  <2>5. UNCHANGED Claims!vars
    BY ZenonT(60), <1>0, <1>4, <2>2, <2>3, <2>4, NoClaimMoves
  <2> QED BY ZenonT(60), <2>5
<1>5. ASSUME NEW t \in Callers, NEW h \in Threads, StartThread(t, h) PROVE Moves
  <2>1. /\ op[t] = "starts" /\ op'[t] = "looks"
        /\ \A u \in Callers \ {t} : op'[u] = op[u] /\ limit'[u] = limit[u]
    BY ZenonT(60), <1>0, <1>5, AtFacts DEF StartThread, ThreadsTypeOK
  <2>2. UNCHANGED <<busy, waiting, callerLive, callerWoke, callerCancelled>>
    BY ZenonT(60), <1>5 DEF StartThread, callerWaits
  <2>3. UNCHANGED Claims!vars
    BY ZenonT(60), <1>0, <2>1, <2>2, NoClaimMoves
  <2> QED BY ZenonT(60), <2>3
<1>6. ASSUME NEW t \in Callers, CancelCall(t) PROVE Moves
  <2>1. /\ UNCHANGED <<busy, waiting, op, limit>> /\ ~callerCancelled[t] /\ callerCancelled'[t]
        /\ ~callerLive'[t] /\ callerWoke'[t] = IF callerLive[t] THEN "Cancelled" ELSE callerWoke[t]
        /\ \A u \in Callers \ {t} : (callerLive'[u] <=> callerLive[u]) /\ callerWoke'[u] = callerWoke[u] /\ (callerCancelled'[u] <=> callerCancelled[u])
    BY <1>0, <1>6 DEF CancelCall, call, ThreadsTypeOK
  <2>2. Standing' = [Standing EXCEPT ![t] = IF TRUE /\ Standing[t] = "asleep" THEN "cancelled" ELSE Standing[t]]
    BY ZenonT(60), <2>1 DEF Standing
  <2>3. ClaimLimit' = ClaimLimit /\ t \notin Stopped /\ Stopped' = Stopped \cup {t}
    BY ZenonT(60), <2>1 DEF ClaimLimit, Stopped
  <2>4. Claims!Cancel(t)
    BY ZenonT(60), <2>1, <2>2, <2>3 DEF Claims!Cancel
  <2> QED BY ZenonT(60), <2>4 DEF Claims!Next
<1>7. ASSUME NEW t \in Callers, DeadlinePasses(t) PROVE Moves
  <2>1. /\ UNCHANGED <<busy, waiting, op, callerLive, callerWoke, callerCancelled>>
        /\ limit[t] = "ahead" /\ limit'[t] = "passed" /\ \A u \in Callers \ {t} : limit'[u] = limit[u]
    BY ZenonT(60), <1>0, <1>7 DEF DeadlinePasses, callerWaits, ThreadsTypeOK
  <2>2. CASE op[t] = "claims"
    <3>1. ClaimLimit[t] = "ahead" /\ ClaimLimit' = [ClaimLimit EXCEPT ![t] = "passed"]
      BY Zenon, <2>1, <2>2 DEF ClaimLimit
    <3>2. Standing' = Standing /\ Stopped' = Stopped
      BY ZenonT(60), <2>1 DEF Standing, Stopped
    <3>3. Claims!DeadlinePasses(t)
      BY ZenonT(60), <2>1, <3>1, <3>2 DEF Claims!DeadlinePasses
    <3> QED BY ZenonT(60), <3>3 DEF Claims!Next
  <2>3. CASE op[t] # "claims"
    <3>1. UNCHANGED Claims!vars
      BY ZenonT(60), <1>0, <2>1, <2>3, NoClaimMoves
    <3> QED BY ZenonT(60), <3>1
  <2> QED BY ZenonT(60), <2>2, <2>3
<1>8. ASSUME NEW t \in Callers, FireTimer(t) PROVE Moves
  <2>1. /\ UNCHANGED <<busy, waiting, op, limit>> /\ callerLive[t] /\ limit[t] = "passed"
        /\ Wake({t}, "TimedOut")
    BY ZenonT(60), <1>8 DEF FireTimer, call
  <2>2. /\ ~callerLive'[t] /\ callerWoke'[t] = "TimedOut" /\ callerCancelled' = callerCancelled
        /\ \A u \in Callers \ {t} : (callerLive'[u] <=> callerLive[u]) /\ callerWoke'[u] = callerWoke[u]
    BY ZenonT(60), <1>0, <2>1, WakeFacts
  <2>3. CASE op[t] = "claims"
    <3>1. Standing[t] = "asleep" /\ Standing' = [Standing EXCEPT ![t] = "woken"]
      BY ZenonT(60), <2>1, <2>2, <2>3 DEF Standing
    <3>2. ClaimLimit[t] = "passed" /\ ClaimLimit' = ClaimLimit /\ Stopped' = Stopped
      BY ZenonT(60), <2>1, <2>2, <2>3 DEF ClaimLimit, Stopped
    <3>3. Claims!FireTimer(t)
      BY ZenonT(60), <2>1, <3>1, <3>2 DEF Claims!FireTimer
    <3> QED BY ZenonT(60), <3>3 DEF Claims!Next
  <2>4. CASE op[t] # "claims"
    <3>1. UNCHANGED Claims!vars
      BY ZenonT(60), <1>0, <2>1, <2>2, <2>4, NoClaimMoves
    <3> QED BY ZenonT(60), <3>1
  <2> QED BY ZenonT(60), <2>3, <2>4
<1>9. ASSUME NEW h \in Threads, KeepResult(h) PROVE Moves
  <2>1. /\ UNCHANGED <<busy, waiting, op, limit, callerCancelled>>
        /\ \A u \in Callers : u \notin watcher[h] => (callerLive'[u] <=> callerLive[u]) /\ callerWoke'[u] = callerWoke[u]
    BY ZenonT(60), <1>0, <1>9, WakeFacts DEF KeepResult, call
  <2>2. \A u \in Callers : op[u] = "claims" => u \notin watcher[h]
    BY ZenonT(60), <1>0 DEF CallsFit
  <2>3. UNCHANGED Claims!vars
    BY ZenonT(60), <1>0, <2>1, <2>2, NoClaimMoves
  <2> QED BY ZenonT(60), <2>3
<1>10. ASSUME NEW h \in Threads, ThreadEnds(h) PROVE Moves
  <2>1. GiveBack /\ busy > 0 /\ op' = op /\ limit' = limit
    BY ZenonT(60), <1>10, BusyCovers DEF ThreadEnds, call
  <2>2. Claims!GiveBack
    BY ZenonT(60), <1>0, <2>1, GiveBackMoves
  <2> QED BY ZenonT(60), <2>2 DEF Claims!Next
<1>11. CASE UNCHANGED threadVars
  <2>1. UNCHANGED <<busy, waiting, op, limit, callerLive, callerWoke, callerCancelled>>
    BY ZenonT(60), <1>11 DEF threadVars, call, callerWaits
  <2>2. UNCHANGED Claims!vars
    BY ZenonT(60), <1>0, <2>1, NoClaimMoves
  <2> QED BY ZenonT(60), <2>2
<1> QED BY ZenonT(60), <1>1, <1>2, <1>3, <1>4, <1>5, <1>6, <1>7, <1>8, <1>9, <1>10, <1>11 DEF ThreadsNext, CallGoes,
           Look, LookWoken

\* Both start as the pool does.
LEMMA HelpersInitially ==
    ASSUME ThreadsAssumption, ThreadsInit
    PROVE  CallInv /\ SlotsHaveOwners /\ Claims!Init
<1>1. ThreadsTypeOK
  BY SMTT(40) DEF ThreadsInit, ThreadsTypeOK, Limits
<1>2. CallsFit /\ ResultIsNoticed
  BY DEF ThreadsInit, CallsFit, ResultIsNoticed, Has, Once, ThreadsAssumption
<1>3. Starting = {} /\ Running = {}
  BY ZenonT(60) DEF ThreadsInit, Starting, Running
<1>4. SlotsHaveOwners
  <2>1. Cardinality(Starting) = 0 /\ Cardinality(Running) = 0
    BY ZenonT(60), <1>3, FS_EmptySet
  <2>2. busy = Cardinality(Starting) + Cardinality(Running) /\ busy <= MaxThreads
    BY SMTT(40), <2>1 DEF ThreadsInit, ThreadsAssumption
  <2> QED BY ZenonT(60), <2>2 DEF SlotsHaveOwners, Starting, Running
<1>5. Standing = [t \in Callers |-> "none"] /\ ClaimLimit = [t \in Callers |-> "none"] /\ Stopped = {}
  BY ZenonT(60) DEF ThreadsInit, Standing, ClaimLimit, Stopped
<1>6. Claims!Init
  BY ZenonT(60), <1>5 DEF ThreadsInit, Claims!Init
<1> QED BY ZenonT(60), <1>1, <1>2, <1>4, <1>6 DEF CallInv

-----------------------------------------------------------------------------

\* `blocking` loses no slot, however a call or its thread ends, and never runs
\* more than MAX_BLOCKING_THREADS threads.
THEOREM SlotsAreOwned == ThreadsSpec => []SlotsHaveOwners
<1>1. ThreadsInit => CallInv /\ SlotsHaveOwners
  BY ZenonT(60), HelpersInitially, ThreadsAssumption
<1>2. CallInv /\ SlotsHaveOwners /\ [ThreadsNext]_threadVars => (CallInv /\ SlotsHaveOwners)'
  BY ZenonT(60), TypeInductive, FitsInductive, SlotsInductive, ThreadsAssumption DEF CallInv
<1> QED BY <1>1, <1>2, PTL DEF ThreadsSpec

\* The caller of `blocking` never sleeps beside a result that is there.
THEOREM ResultsAreNoticed == ThreadsSpec => []ResultIsNoticed
<1>1. ThreadsInit => CallInv /\ SlotsHaveOwners
  BY ZenonT(60), HelpersInitially, ThreadsAssumption
<1>2. CallInv /\ SlotsHaveOwners /\ [ThreadsNext]_threadVars => (CallInv /\ SlotsHaveOwners)'
  BY ZenonT(60), TypeInductive, FitsInductive, SlotsInductive, ThreadsAssumption DEF CallInv
<1>3. CallInv => ResultIsNoticed
  BY ZenonT(60) DEF CallInv
<1> QED BY <1>1, <1>2, <1>3, PTL DEF ThreadsSpec

\* Claiming, waiting for and giving back slots, as `blocking` does it, is a pool
\* of MAX_BLOCKING_THREADS places.
THEOREM ClaimsImplementPool == ThreadsSpec => ClaimsLikeAPool
<1>1. ThreadsInit => CallInv /\ SlotsHaveOwners /\ Claims!Init
  BY ZenonT(60), HelpersInitially, ThreadsAssumption
<1>2. CallInv /\ SlotsHaveOwners /\ [ThreadsNext]_threadVars => (CallInv /\ SlotsHaveOwners)'
  BY ZenonT(60), TypeInductive, FitsInductive, SlotsInductive, ThreadsAssumption DEF CallInv
<1>3. CallInv /\ SlotsHaveOwners /\ [ThreadsNext]_threadVars => [Claims!Next]_(Claims!vars)
  BY ZenonT(60), ClaimsStep, ThreadsAssumption
<1> QED BY <1>1, <1>2, <1>3, PTL DEF ThreadsSpec, ClaimsLikeAPool, Claims!Spec

\* The pool's theorem, about this module's claims.
Pools == INSTANCE PoolProofs WITH
    Tasks <- Callers, Size <- MaxThreads, Cancellable <- TRUE, taken <- busy, waiters <- waiting,
    claim <- Standing, limit <- ClaimLimit, cancelled <- Stopped

\* So no free slot is missed by a call that sleeps for one.
THEOREM NoClaimIsStranded == ThreadsSpec => []NoClaimStranded
<1>0. Pools!PoolAssumption
  <2>1. Pools!IsFiniteSet(Callers)
    BY ZenonT(60), ThreadsAssumption, Zenon DEF ThreadsAssumption, IsFiniteSet, Pools!IsFiniteSet
  <2> QED BY ZenonT(60), <2>1, ThreadsAssumption DEF Pools!PoolAssumption, Limits, ThreadsAssumption
<1>1. ThreadsInit => CallInv /\ SlotsHaveOwners /\ Claims!Init
  BY ZenonT(60), HelpersInitially, ThreadsAssumption
<1>2. CallInv /\ SlotsHaveOwners /\ [ThreadsNext]_threadVars => (CallInv /\ SlotsHaveOwners)'
  BY ZenonT(60), TypeInductive, FitsInductive, SlotsInductive, ThreadsAssumption DEF CallInv
<1>3. CallInv /\ SlotsHaveOwners /\ [ThreadsNext]_threadVars => [Claims!Next]_(Claims!vars)
  BY ZenonT(60), ClaimsStep, ThreadsAssumption
<1>4. Claims!Init => Pools!PoolInv
  <2>1. Claims!Init => Pools!Init
    BY ZenonT(60) DEF Claims!Init, Pools!Init
  <2> QED BY ZenonT(60), <1>0, <2>1, Pools!PoolInitially
<1>5. [Claims!Next]_(Claims!vars) => [Pools!Next]_(Pools!vars)
  BY Zenon DEF Claims!Next, Claims!GiveBack, Claims!Claim, Claims!TryClaim,
               Claims!ClaimWoken, Claims!Cancel, Claims!DeadlinePasses, Claims!FireTimer,
               Claims!Pass, Claims!Take, Claims!Fail, Claims!Wait, Claims!Asleep,
               Claims!vars, Claims!Remove, Claims!Add, Claims!Has, Claims!LeftByOne,
               Claims!WokenByOne, Claims!Popped, Claims!Waiting, Pools!Next,
               Pools!GiveBack, Pools!Claim, Pools!TryClaim, Pools!ClaimWoken, Pools!Cancel,
               Pools!DeadlinePasses, Pools!FireTimer, Pools!Pass, Pools!Take, Pools!Fail,
               Pools!Wait, Pools!Asleep, Pools!vars, Pools!Remove, Pools!Add, Pools!Has,
               Pools!LeftByOne, Pools!WokenByOne, Pools!Popped, Pools!Waiting
<1>6. Pools!PoolInv /\ [Pools!Next]_(Pools!vars) => Pools!PoolInv'
  BY ZenonT(60), <1>0, Pools!PoolInductive
<1>7. Pools!PoolInv => NoClaimStranded
  <2>1. Pools!NoneStranded => Claims!NoneStranded
    BY Zenon DEF Pools!NoneStranded, Claims!NoneStranded, Pools!Cardinality, Claims!Cardinality, Cardinality
  <2> QED BY ZenonT(60), <2>1 DEF Pools!PoolInv, NoClaimStranded
<1> QED BY <1>1, <1>2, <1>3, <1>4, <1>5, <1>6, <1>7, PTL DEF ThreadsSpec
=============================================================================
