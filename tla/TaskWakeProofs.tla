--------------------------- MODULE TaskWakeProofs ---------------------------
(***************************************************************************)
(* Proofs about module TaskWake, for any tasks, workers, callers and       *)
(* bounds: a task is in one place, and no wake-up and no cancellation is   *)
(* lost.                                                                   *)
(***************************************************************************)
EXTENDS TaskWake, TLAPS

-----------------------------------------------------------------------------
(* Tasks: types, and that a task is in one place.                          *)

\* Which bits go with which place (sched.rs:117-121): a queue, a thread about to
\* push, a worker that popped it or is about to requeue it: NOTIFIED alone.  A
\* worker running its coroutine: RUNNING.
StateFits ==
    \A t \in Tasks :
        /\ \A w \in Workers :
            /\ cur[w] = t /\ wpc[w] = "run" => state[t] \in {"RUNNING", "BOTH"}
            /\ cur[w] = t /\ wpc[w] # "run" => state[t] = "NOTIFIED"
        /\ \A c \in Callers : Pushing(c, t) => state[t] = "NOTIFIED"
        /\ queued[t] = 1 => state[t] = "NOTIFIED"
        /\ co[t] = "unborn" => /\ state[t] = "NONE" /\ wait[t] = 0
                              /\ \A c \in Callers : ctask[c] # t
        /\ state[t] = "DONE" => co[t] = "returned"
        /\ co[t] \in Starting \cup {"resumed"} => state[t] \in {"RUNNING", "BOTH"}
        /\ co[t] = "returned" => state[t] \in {"RUNNING", "BOTH", "DONE"}

PlaceInv == TypeOK /\ StateFits /\ OnePlace

-----------------------------------------------------------------------------
\* Types are preserved: one step per action.
LEMMA TypeInductive == TypeOK /\ [Next]_vars => TypeOK'
<1> SUFFICES ASSUME TypeOK, [Next]_vars PROVE TypeOK'
  OBVIOUS
<1> USE TaskWakeAssumption DEF callVars, TypeOK, CoPlaces, WorkerPlaces, Calls
<1>1. ASSUME NEW w \in Workers, NEW t \in Tasks, Pop(w, t) PROVE TypeOK'
  BY <1>1 DEF Pop, OnQueue, taskVars, coVars
<1>2. ASSUME NEW w \in Workers, RunTask(w) PROVE TypeOK'
  BY ZenonT(60), <1>2 DEF RunTask, States
<1>3. ASSUME NEW w \in Workers, SuspendedToWait(w) PROVE TypeOK'
  BY ZenonT(60), <1>3 DEF SuspendedToWait, MaySleep, coVars, States, Suspended
<1>4. ASSUME NEW w \in Workers, WokenWhileSuspending(w) PROVE TypeOK'
  BY ZenonT(60), <1>4 DEF WokenWhileSuspending, MaySleep, coVars, States, Suspended
<1>5. ASSUME NEW w \in Workers, SuspendedToYield(w) PROVE TypeOK'
  BY ZenonT(60), <1>5 DEF SuspendedToYield, coVars, States, Suspended
<1>6. ASSUME NEW w \in Workers, Requeue(w) PROVE TypeOK'
  BY <1>6 DEF Requeue, taskVars, coVars
<1>7. ASSUME NEW w \in Workers, Returned(w) PROVE TypeOK'
  BY ZenonT(60), <1>7 DEF Returned, coVars, States, Suspended
<1>8. ASSUME NEW t \in Tasks, StoreCancellable(t) PROVE TypeOK'
  BY ZenonT(60), <1>8 DEF StoreCancellable, workerVars, Starting, Cancellable
<1>9. ASSUME NEW t \in Tasks, StoreWait(t) PROVE TypeOK'
  BY ZenonT(60), <1>9 DEF StoreWait, workerVars, Starting
<1>10. ASSUME NEW t \in Tasks, CheckCancelled(t) PROVE TypeOK'
  BY ZenonT(60), <1>10 DEF CheckCancelled, EndsItself, OrNotified, workerVars, Starting, Woke, States
<1>11. ASSUME NEW t \in Tasks, ParkWoken(t) PROVE TypeOK'
  BY ZenonT(60), <1>11 DEF ParkWoken, taskVars, workerVars
<1>12. ASSUME NEW t \in Tasks, WaitSuspended(t) PROVE TypeOK'
  BY <1>12 DEF WaitSuspended, taskVars, workerVars, Suspended
<1>13. ASSUME NEW t \in Tasks, WaitReturns(t) PROVE TypeOK'
  BY ZenonT(60), <1>13 DEF WaitReturns, taskVars, workerVars
<1>14. ASSUME NEW t \in Tasks, Abandon(t) PROVE TypeOK'
  BY SMTT(40), <1>14 DEF Abandon, workerVars
<1>15. ASSUME NEW t \in Tasks, BeginWait(t) PROVE TypeOK'
  BY <1>15 DEF BeginWait, workerVars, Starting, Woke
<1>16. ASSUME NEW t \in Tasks, Yield(t) PROVE TypeOK'
  BY ZenonT(60), <1>16 DEF Yield, taskVars, workerVars, Suspended
<1>17. ASSUME NEW t \in Tasks, Return(t) PROVE TypeOK'
  BY ZenonT(60), <1>17 DEF Return, taskVars, workerVars
<1>18. ASSUME NEW c \in Callers, NEW t \in Tasks, Spawn(c, t) PROVE TypeOK'
  BY ZenonT(60), <1>18 DEF Spawn, workerVars, Go, Ends, CallPlaces, States, Woke
<1>19. ASSUME NEW c \in Callers, NEW t \in Tasks, WakeReady(c, t) PROVE TypeOK'
  BY ZenonT(60), <1>19 DEF WakeReady, Claim, coVars, workerVars, Go, Ends, CallPlaces, Woke
<1>20. ASSUME NEW c \in Callers, NEW t \in Tasks, FireTimer(c, t) PROVE TypeOK'
  BY ZenonT(60), <1>20 DEF FireTimer, Claim, coVars, workerVars, Go, Ends, CallPlaces, Woke
<1>21. ASSUME NEW c \in Callers, NEW t \in Tasks, CancelFlag(c, t) PROVE TypeOK'
  BY ZenonT(60), <1>21 DEF CancelFlag, coVars, workerVars, Go, Ends, CallPlaces, Woke
<1>22. ASSUME NEW c \in Callers, CancelLoadWait(c) PROVE TypeOK'
  BY SMTT(40), <1>22 DEF CancelLoadWait, taskVars, coVars, workerVars, Go, Ends, CallPlaces, Woke
<1>23. ASSUME NEW c \in Callers, CancelLoadCancellable(c) PROVE TypeOK'
  BY SMTT(40), <1>23 DEF CancelLoadCancellable, CancelMayEnd, taskVars, coVars, workerVars, Go, Ends, CallPlaces, Woke
<1>24. ASSUME NEW c \in Callers, CancelWake(c) PROVE TypeOK'
  BY ZenonT(60), <1>24 DEF CancelWake, Claim, coVars, workerVars, Go, Ends, CallPlaces, Woke
<1>25. ASSUME NEW c \in Callers, CancelTooLate(c) PROVE TypeOK'
  BY ZenonT(60), <1>25 DEF CancelTooLate, taskVars, coVars, workerVars, Go, Ends, CallPlaces, Woke
<1>26. ASSUME NEW c \in Callers, StoreWoke(c) PROVE TypeOK'
  BY ZenonT(60), <1>26 DEF StoreWoke, coVars, workerVars, Go, Ends, CallPlaces, Woke
<1>27. ASSUME NEW c \in Callers, Schedule(c) PROVE TypeOK'
  BY <1>27, SMTT(40) DEF Schedule, PushNow, OrNotified, coVars, workerVars, Go, Ends, CallPlaces, States, Woke
<1>28. ASSUME NEW c \in Callers, Push(c) PROVE TypeOK'
  BY <1>28 DEF Push, taskVars, coVars, workerVars, Go, Ends, CallPlaces, Woke
<1>29. CASE UNCHANGED vars
  BY ZenonT(60), <1>29 DEF vars, taskVars, coVars, workerVars
<1> HIDE DEF callVars, TypeOK, CoPlaces, WorkerPlaces, Calls
<1> QED
  BY ZenonT(60), <1>1, <1>2, <1>3, <1>4, <1>5, <1>6, <1>7, <1>8, <1>9, <1>10, <1>11, <1>12, <1>13, <1>14,
     <1>15, <1>16, <1>17, <1>18, <1>19, <1>20, <1>21, <1>22, <1>23, <1>24, <1>25, <1>26, <1>27,
     <1>28, <1>29
  DEF Next, WorkerStep, WaitStep, CodeStep, CallStart, CallRest

\* A task with no bits set is on no queue, and no thread has it.
LEMMA NoneIsFree ==
    ASSUME StateFits, NEW t \in Tasks, state[t] = "NONE"
    PROVE  /\ queued[t] # 1
           /\ \A w \in Workers : cur[w] # t
           /\ \A c \in Callers : ~Pushing(c, t)
  BY ZenonT(60) DEF StateFits

\* Where a task is, with its bits, is preserved: one step per action.
LEMMA PlaceInductive == PlaceInv /\ [Next]_vars => PlaceInv'
<1> SUFFICES ASSUME PlaceInv, [Next]_vars PROVE StateFits' /\ OnePlace'
  BY ZenonT(60), TypeInductive DEF PlaceInv
<1> USE TaskWakeAssumption DEF callVars, PlaceInv, TypeOK, StateFits, OnePlace, WorkerHas, Pushing, Calls, Starting
<1>1. ASSUME NEW w \in Workers, NEW t \in Tasks, Pop(w, t) PROVE StateFits' /\ OnePlace'
  BY SMTT(40), <1>1 DEF Pop, OnQueue, taskVars, coVars
<1>2. ASSUME NEW w \in Workers, RunTask(w) PROVE StateFits' /\ OnePlace'
  BY SMTT(40), <1>2 DEF RunTask
<1>3. ASSUME NEW w \in Workers, SuspendedToWait(w) PROVE StateFits' /\ OnePlace'
  <2>1. PICK t \in Tasks : cur[w] = t
    BY SMTT(40), <1>3 DEF SuspendedToWait
  <2> QED
    BY SMTT(40), <1>3, <2>1 DEF SuspendedToWait, MaySleep, coVars
<1>4. ASSUME NEW w \in Workers, WokenWhileSuspending(w) PROVE StateFits' /\ OnePlace'
  BY SMTT(40), <1>4 DEF WokenWhileSuspending, MaySleep, coVars
<1>5. ASSUME NEW w \in Workers, SuspendedToYield(w) PROVE StateFits' /\ OnePlace'
  BY SMTT(40), <1>5 DEF SuspendedToYield, coVars
<1>6. ASSUME NEW w \in Workers, Requeue(w) PROVE StateFits' /\ OnePlace'
  <2>1. PICK t \in Tasks : cur[w] = t
    BY ZenonT(60), <1>6 DEF Requeue
  <2>2. state[t] = "NOTIFIED" /\ queued[t] # 1
    BY ZenonT(60), <1>6, <2>1 DEF Requeue
  <2>3. queued[t] = 0
    BY ZenonT(60), <2>2
  <2>4. queued' = [queued EXCEPT ![t] = 1]
    BY <1>6, <2>1, <2>3 DEF Requeue
  <2> QED
    BY <1>6, <2>1, <2>2, <2>3, <2>4 DEF Requeue, taskVars, coVars
<1>7. ASSUME NEW w \in Workers, Returned(w) PROVE StateFits' /\ OnePlace'
  BY <1>7 DEF Returned, coVars
<1>8. ASSUME NEW t \in Tasks, StoreCancellable(t) PROVE StateFits' /\ OnePlace'
  BY <1>8 DEF StoreCancellable, workerVars, At, Running
<1>9. ASSUME NEW t \in Tasks, StoreWait(t) PROVE StateFits' /\ OnePlace'
  BY SMTT(40), <1>9 DEF StoreWait, workerVars, At, Running
<1>10. ASSUME NEW t \in Tasks, CheckCancelled(t) PROVE StateFits' /\ OnePlace'
  BY SMTT(40), <1>10 DEF CheckCancelled, EndsItself, OrNotified, workerVars, At, Running
<1>11. ASSUME NEW t \in Tasks, ParkWoken(t) PROVE StateFits' /\ OnePlace'
  BY SMTT(40), <1>11 DEF ParkWoken, taskVars, workerVars, At, Running
<1>12. ASSUME NEW t \in Tasks, WaitSuspended(t) PROVE StateFits' /\ OnePlace'
  BY SMTT(40), <1>12 DEF WaitSuspended, taskVars, workerVars, At, Running
<1>13. ASSUME NEW t \in Tasks, WaitReturns(t) PROVE StateFits' /\ OnePlace'
  BY SMTT(40), <1>13 DEF WaitReturns, taskVars, workerVars, At, Running
<1>14. ASSUME NEW t \in Tasks, Abandon(t) PROVE StateFits' /\ OnePlace'
  BY SMTT(40), <1>14 DEF Abandon, workerVars, At, Running
<1>15. ASSUME NEW t \in Tasks, BeginWait(t) PROVE StateFits' /\ OnePlace'
  BY SMTT(40), <1>15 DEF BeginWait, workerVars, At, Running
<1>16. ASSUME NEW t \in Tasks, Yield(t) PROVE StateFits' /\ OnePlace'
  BY SMTT(40), <1>16 DEF Yield, taskVars, workerVars, At, Running
<1>17. ASSUME NEW t \in Tasks, Return(t) PROVE StateFits' /\ OnePlace'
  BY <1>17 DEF Return, taskVars, workerVars, At, Running
<1>18. ASSUME NEW c \in Callers, NEW t \in Tasks, Spawn(c, t) PROVE StateFits' /\ OnePlace'
  <2>1. /\ state[t] = "NONE" /\ wait[t] = 0
        /\ \A e \in Callers : ctask[e] # t
    BY ZenonT(60), <1>18 DEF Spawn
  <2>2. queued[t] = 0
    BY ZenonT(60), <2>1
  <2>3. \A w \in Workers : cur[w] # t
    BY <2>1, NoneIsFree, Zenon
  <2>4. /\ state' = [state EXCEPT ![t] = "NOTIFIED"] /\ co' = [co EXCEPT ![t] = "code"]
        /\ cpc' = [cpc EXCEPT ![c] = "push"] /\ ctask' = [ctask EXCEPT ![c] = t]
        /\ UNCHANGED <<wait, queued, wpc, cur>>
    BY ZenonT(60), <1>18 DEF Spawn, workerVars, Go
  <2>5. StateFits'
    BY SMTT(40), <2>1, <2>4, <2>2, <2>3
  <2>6. OnePlace'
    BY SMTT(40), <2>1, <2>4, <2>2, <2>3
  <2> QED
    BY ZenonT(60), <2>5, <2>6
<1>19. ASSUME NEW c \in Callers, NEW t \in Tasks, WakeReady(c, t) PROVE StateFits' /\ OnePlace'
  BY SMTT(40), <1>19 DEF WakeReady, Claim, coVars, workerVars, Go, Ends
<1>20. ASSUME NEW c \in Callers, NEW t \in Tasks, FireTimer(c, t) PROVE StateFits' /\ OnePlace'
  BY SMTT(40), <1>20 DEF FireTimer, Claim, coVars, workerVars, Go, Ends
<1>21. ASSUME NEW c \in Callers, NEW t \in Tasks, CancelFlag(c, t) PROVE StateFits' /\ OnePlace'
  BY SMTT(40), <1>21 DEF CancelFlag, coVars, workerVars, Go, Ends
<1>22. ASSUME NEW c \in Callers, CancelLoadWait(c) PROVE StateFits' /\ OnePlace'
  <2>1. /\ UNCHANGED <<state, wait, co, queued, wpc, cur>>
        /\ \A e \in Callers : ctask'[e] \in {ctask[e], NoTask} /\ (cpc'[e] = "push" => cpc[e] = "push")
    BY SMTT(40), <1>22 DEF CancelLoadWait, taskVars, coVars, workerVars, Go, Ends
  <2> QED
    BY SMTT(40), <2>1
<1>23. ASSUME NEW c \in Callers, CancelLoadCancellable(c) PROVE StateFits' /\ OnePlace'
  <2>1. /\ UNCHANGED <<state, wait, co, queued, wpc, cur>>
        /\ \A e \in Callers : ctask'[e] \in {ctask[e], NoTask} /\ (cpc'[e] = "push" => cpc[e] = "push")
    BY SMTT(40), <1>23 DEF CancelLoadCancellable, CancelMayEnd, taskVars, coVars, workerVars, Go, Ends
  <2> QED
    BY <2>1
<1>24. ASSUME NEW c \in Callers, CancelWake(c) PROVE StateFits' /\ OnePlace'
  BY SMTT(40), <1>24 DEF CancelWake, Claim, coVars, workerVars, Go, Ends
<1>25. ASSUME NEW c \in Callers, CancelTooLate(c) PROVE StateFits' /\ OnePlace'
  BY SMTT(40), <1>25 DEF CancelTooLate, taskVars, coVars, workerVars, Go, Ends
<1>26. ASSUME NEW c \in Callers, StoreWoke(c) PROVE StateFits' /\ OnePlace'
  BY <1>26, SMTT(20) DEF StoreWoke, coVars, workerVars, Go, Ends
<1>27. ASSUME NEW c \in Callers, Schedule(c) PROVE StateFits' /\ OnePlace'
  <2>1. PICK t \in Tasks : ctask[c] = t
    BY ZenonT(60), <1>27 DEF Schedule
  <2>2. CASE state[t] = "NONE"
    <3>1. queued[t] = 0
      BY ZenonT(60), <2>2
    <3>2. (\A w \in Workers : cur[w] # t) /\ \A e \in Callers : ~Pushing(e, t)
      BY <2>2, NoneIsFree, Zenon
    <3>3. co[t] \notin Starting \cup {"unborn", "resumed", "returned"}
      BY ZenonT(60), <2>1, <2>2, Zenon
    <3>4. /\ state' = [state EXCEPT ![t] = "NOTIFIED"]
          /\ Go(c, "push", t, 0, "Ready")
          /\ UNCHANGED <<wait, co, queued, wpc, cur>>
      BY ZenonT(60), <1>27, <2>1, <2>2 DEF Schedule, PushNow, OrNotified, coVars, workerVars, Go
    <3>5. StateFits'
      BY SMTT(40), <3>1, <3>2, <3>3, <3>4 DEF Go
    <3>6. OnePlace'
      BY SMTT(40), <3>1, <3>2, <3>4 DEF Go
    <3> QED
      BY ZenonT(60), <3>5, <3>6
  <2>3. CASE state[t] # "NONE"
    <3>1. /\ UNCHANGED <<wait, co, queued, wpc, cur>>
          /\ \A e \in Callers : ctask'[e] \in {ctask[e], NoTask} /\ (cpc'[e] = "push" => cpc[e] = "push")
      BY SMTT(40), <1>27, <2>1, <2>3 DEF Schedule, PushNow, coVars, workerVars, Go, Ends
    <3>2. \A u \in Tasks : state'[u] = state[u] \/ (state[u] = "RUNNING" /\ state'[u] = "BOTH")
      BY <1>27, <2>1, <2>3, SMTT(40) DEF Schedule, OrNotified
    <3>3. StateFits'
      BY <3>1, <3>2, SMTT(40)
    <3>4. OnePlace'
      BY <3>1, SMTT(40)
    <3> QED
      BY ZenonT(60), <3>3, <3>4
  <2> QED
    BY ZenonT(60), <2>2, <2>3
<1>28. ASSUME NEW c \in Callers, Push(c) PROVE StateFits' /\ OnePlace'
  <2>1. PICK t \in Tasks : ctask[c] = t
    BY ZenonT(60), <1>28 DEF Push
  <2>2. state[t] = "NOTIFIED" /\ queued[t] # 1
    BY ZenonT(60), <1>28, <2>1 DEF Push
  <2>3. queued[t] = 0
    BY ZenonT(60), <2>2
  <2>4. queued' = [queued EXCEPT ![t] = 1]
    BY <1>28, <2>1, <2>3 DEF Push
  <2> QED
    BY SMTT(40), <1>28, <2>1, <2>2, <2>3, <2>4 DEF Push, Go, taskVars, coVars, workerVars, Ends
<1>29. CASE UNCHANGED vars
  BY <1>29 DEF vars, taskVars, coVars, workerVars
<1> HIDE DEF callVars, PlaceInv, TypeOK, StateFits, OnePlace, WorkerHas, Pushing, Calls, Starting
<1> QED
  BY ZenonT(60), <1>1, <1>2, <1>3, <1>4, <1>5, <1>6, <1>7, <1>8, <1>9, <1>10, <1>11, <1>12, <1>13, <1>14,
     <1>15, <1>16, <1>17, <1>18, <1>19, <1>20, <1>21, <1>22, <1>23, <1>24, <1>25, <1>26, <1>27,
     <1>28, <1>29
  DEF Next, WorkerStep, WaitStep, CodeStep, CallStart, CallRest

\* The first state: no task spawned, nobody holding one.
LEMMA PlaceInitially == Init => PlaceInv
<1> SUFFICES ASSUME Init PROVE PlaceInv
  OBVIOUS
<1> USE TaskWakeAssumption DEF Init, Calls
<1>1. TypeOK
  BY SMTT(40) DEF TypeOK, States, Woke, Kinds, CallPlaces, CoPlaces, WorkerPlaces
<1>2. StateFits /\ OnePlace
  BY DEF StateFits, OnePlace, WorkerHas, Pushing, Starting
<1> QED
  BY ZenonT(60), <1>1, <1>2 DEF PlaceInv

\* PlaceInv always holds.
LEMMA PlaceInvariant == Spec => []PlaceInv
  BY PlaceInitially, PlaceInductive, PTL DEF Spec

\* The types of the scheduler's variables, in every state (struct Task, run_task).
THEOREM TypeSafe == Spec => []TypeOK
<1>1. PlaceInv => TypeOK
  BY ZenonT(60) DEF PlaceInv
<1> QED
  BY <1>1, PlaceInvariant, PTL

\* A task is on one queue, or with one thread: no two workers run one coroutine
\* (wake, schedule and run_task, sched.rs:168-220, 480-500).
THEOREM TaskInOnePlace == Spec => []OnePlace
<1>1. PlaceInv => OnePlace
  BY ZenonT(60) DEF PlaceInv
<1> QED
  BY <1>1, PlaceInvariant, PTL

-----------------------------------------------------------------------------
(* Tasks: wake-ups and cancellations.                                      *)

\* Wait ids only grow, and `cancellable` belongs to the wait that is stored.
IdsFit ==
    \A t \in Tasks :
        /\ mine[t] < nextWait
        /\ wait[t] <= mine[t]
        /\ co[t] \in {"begin", "flagged"} => wait[t] < mine[t]
        /\ co[t] \in Starting \cup {"waiting"} => mine[t] # 0
        /\ co[t] \in {"started", "armed", "waiting"} => wait[t] \in {0, mine[t]}
        /\ co[t] # "begin" /\ mine[t] # 0 => (cancellable[t] <=> Cancellable(kind[t]))

\* What a cancel call read is no newer than the wait that is stored.
CallsFit ==
    \A c \in Callers :
        cpc[c] \in {"loaded", "cas"} =>
            LET t == ctask[c] IN
            /\ cwait[c] # 0
            /\ cwait[c] <= mine[t]
            /\ co[t] \in {"begin", "flagged"} => cwait[c] < mine[t]
            /\ cpc[c] = "cas" /\ cwait[c] = mine[t] => Cancellable(kind[t])

\* A claimed wait is remembered until the task runs: by the claimer, then by NOTIFIED.
ClaimRemembered ==
    \A t \in Tasks :
        co[t] \in {"started", "armed", "waiting"} /\ wait[t] = 0 =>
            state[t] \in {"NOTIFIED", "BOTH"} \/ \E c \in Callers : Waking(c, t)

\* A cancel call that will still find the wait the task is in.
Catches(c, t) ==
    /\ Cancelling(c, t)
    /\ cpc[c] \in {"loaded", "cas"} => cwait[c] = mine[t]

\* A cancelled task in a wait that cancelling may end has a call that will end it.
CancelRemembered ==
    \A t \in Tasks :
        /\ co[t] \in {"armed", "waiting"}
        /\ cancelled[t] /\ Cancellable(kind[t]) /\ wait[t] = mine[t]
        => \E c \in Callers : Catches(c, t)

WakeInv == PlaceInv /\ IdsFit /\ CallsFit /\ ClaimRemembered /\ CancelRemembered
-----------------------------------------------------------------------------
\* Wait ids only grow, and `cancellable` follows the wait.
LEMMA IdsInductive == TypeOK /\ StateFits /\ IdsFit /\ [Next]_vars => IdsFit'
<1> SUFFICES ASSUME TypeOK /\ StateFits /\ IdsFit, [Next]_vars PROVE IdsFit'
  OBVIOUS
<1> USE TaskWakeAssumption DEF callVars, TypeOK, IdsFit, Starting
<1>1. CASE UNCHANGED <<wait, mine, nextWait, co, kind, cancellable>>
  BY ZenonT(60), <1>1
<1>2. ASSUME \/ \E w \in Workers, t \in Tasks : Pop(w, t)
             \/ \E w \in Workers : SuspendedToWait(w) \/ WokenWhileSuspending(w) \/ SuspendedToYield(w) \/ Requeue(w) \/ Returned(w)
             \/ \E c \in Callers, t \in Tasks : CancelFlag(c, t)
             \/ \E c \in Callers : CancelLoadWait(c) \/ CancelLoadCancellable(c) \/ CancelTooLate(c) \/ StoreWoke(c) \/ Schedule(c) \/ Push(c)
             \/ UNCHANGED vars
      PROVE  UNCHANGED <<wait, mine, nextWait, co, kind, cancellable>>
  BY ZenonT(60), <1>2 DEF Pop, taskVars, coVars, SuspendedToWait, WokenWhileSuspending, SuspendedToYield, Requeue, Returned, CancelFlag, workerVars, CancelLoadWait, CancelLoadCancellable, CancelTooLate, StoreWoke, Schedule, Push, vars
<1>3. ASSUME NEW w \in Workers, RunTask(w) PROVE IdsFit'
  BY ZenonT(60), <1>3 DEF RunTask, StateFits
<1>4. ASSUME NEW t \in Tasks, StoreCancellable(t) PROVE IdsFit'
  BY ZenonT(60), <1>4 DEF StoreCancellable, workerVars, At
<1>5. ASSUME NEW t \in Tasks, StoreWait(t) PROVE IdsFit'
  BY <1>5 DEF StoreWait, workerVars, At
<1>6. ASSUME NEW t \in Tasks, CheckCancelled(t) PROVE IdsFit'
  BY <1>6 DEF CheckCancelled, EndsItself, OrNotified, workerVars, At
<1>7. ASSUME NEW t \in Tasks, ParkWoken(t) PROVE IdsFit'
  BY ZenonT(60), <1>7 DEF ParkWoken, taskVars, workerVars, At
<1>8. ASSUME NEW t \in Tasks, WaitSuspended(t) PROVE IdsFit'
  BY ZenonT(60), <1>8 DEF WaitSuspended, taskVars, workerVars, At
<1>9. ASSUME NEW t \in Tasks, WaitReturns(t) PROVE IdsFit'
  BY ZenonT(60), <1>9 DEF WaitReturns, taskVars, workerVars, At
<1>10. ASSUME NEW t \in Tasks, Abandon(t) PROVE IdsFit'
  BY SMTT(40), <1>10 DEF Abandon, workerVars, At
<1>11. ASSUME NEW t \in Tasks, BeginWait(t) PROVE IdsFit'
  BY <1>11 DEF BeginWait, workerVars, At
<1>12. ASSUME NEW t \in Tasks, Yield(t) PROVE IdsFit'
  BY ZenonT(60), <1>12 DEF Yield, taskVars, workerVars, At
<1>13. ASSUME NEW t \in Tasks, Return(t) PROVE IdsFit'
  BY ZenonT(60), <1>13 DEF Return, taskVars, workerVars, At
<1>14. ASSUME NEW c \in Callers, NEW t \in Tasks, Spawn(c, t) PROVE IdsFit'
  BY ZenonT(60), <1>14 DEF Spawn, workerVars, Go, Ends
<1>15. ASSUME NEW c \in Callers, NEW t \in Tasks, WakeReady(c, t) PROVE IdsFit'
  BY SMTT(40), <1>15 DEF WakeReady, Claim, coVars, workerVars, Go, Ends
<1>16. ASSUME NEW c \in Callers, NEW t \in Tasks, FireTimer(c, t) PROVE IdsFit'
  BY SMTT(40), <1>16 DEF FireTimer, Claim, coVars, workerVars, Go, Ends
<1>17. ASSUME NEW c \in Callers, CancelWake(c) PROVE IdsFit'
  BY <1>17 DEF CancelWake, Claim, coVars, workerVars, Go, Ends
<1> HIDE DEF callVars, TypeOK, IdsFit, Starting
<1> QED
  BY ZenonT(60), <1>1, <1>2, <1>3, <1>4, <1>5, <1>6, <1>7, <1>8, <1>9, <1>10, <1>11, <1>12, <1>13, <1>14, <1>15, <1>16, <1>17
  DEF Next, WorkerStep, WaitStep, CodeStep, CallStart, CallRest

\* A cancel call holds a wait no newer than the task's.
LEMMA CallsInductive == TypeOK /\ IdsFit /\ StateFits /\ CallsFit /\ [Next]_vars => CallsFit'
<1> SUFFICES ASSUME TypeOK /\ IdsFit /\ StateFits /\ CallsFit, [Next]_vars PROVE CallsFit'
  OBVIOUS
<1> USE DEF callVars, TypeOK, IdsFit, CallsFit, Starting, Calls
<1>1. CASE UNCHANGED <<mine, co, kind, callVars>>
  BY ZenonT(60), <1>1
<1>2. ASSUME \/ \E w \in Workers, t \in Tasks : Pop(w, t)
             \/ \E w \in Workers : SuspendedToWait(w) \/ WokenWhileSuspending(w) \/ SuspendedToYield(w) \/ Requeue(w) \/ Returned(w)
             \/ UNCHANGED vars
      PROVE  UNCHANGED <<mine, co, kind, callVars>>
  BY ZenonT(60), <1>2 DEF Pop, taskVars, coVars, SuspendedToWait, WokenWhileSuspending, SuspendedToYield, Requeue, Returned, vars, workerVars
<1>3. ASSUME NEW w \in Workers, RunTask(w) PROVE CallsFit'
  BY ZenonT(60), <1>3 DEF RunTask
<1>4. ASSUME NEW t \in Tasks, StoreCancellable(t) PROVE CallsFit'
  BY <1>4 DEF StoreCancellable, workerVars, At
<1>5. ASSUME NEW t \in Tasks, StoreWait(t) PROVE CallsFit'
  BY ZenonT(60), <1>5 DEF StoreWait, workerVars, At
<1>6. ASSUME NEW t \in Tasks, CheckCancelled(t) PROVE CallsFit'
  BY ZenonT(60), <1>6 DEF CheckCancelled, EndsItself, OrNotified, workerVars, At
<1>7. ASSUME NEW t \in Tasks, ParkWoken(t) PROVE CallsFit'
  BY <1>7 DEF ParkWoken, taskVars, workerVars, At
<1>8. ASSUME NEW t \in Tasks, WaitSuspended(t) PROVE CallsFit'
  BY ZenonT(60), <1>8 DEF WaitSuspended, taskVars, workerVars, At
<1>9. ASSUME NEW t \in Tasks, WaitReturns(t) PROVE CallsFit'
  BY ZenonT(60), <1>9 DEF WaitReturns, taskVars, workerVars, At
<1>10. ASSUME NEW t \in Tasks, Abandon(t) PROVE CallsFit'
  BY SMTT(40), <1>10 DEF Abandon, workerVars, At
<1>11. ASSUME NEW t \in Tasks, BeginWait(t) PROVE CallsFit'
  BY <1>11 DEF BeginWait, workerVars, At
<1>12. ASSUME NEW t \in Tasks, Yield(t) PROVE CallsFit'
  BY ZenonT(60), <1>12 DEF Yield, taskVars, workerVars, At
<1>13. ASSUME NEW t \in Tasks, Return(t) PROVE CallsFit'
  BY ZenonT(60), <1>13 DEF Return, taskVars, workerVars, At
<1>14. ASSUME NEW c \in Callers, NEW t \in Tasks, Spawn(c, t) PROVE CallsFit'
  BY SMTT(40), <1>14 DEF Spawn, workerVars, Go, Ends
<1>15. ASSUME NEW c \in Callers, NEW t \in Tasks, WakeReady(c, t) PROVE CallsFit'
  BY SMTT(40), <1>15 DEF WakeReady, Claim, coVars, workerVars, Go, Ends
<1>16. ASSUME NEW c \in Callers, NEW t \in Tasks, FireTimer(c, t) PROVE CallsFit'
  BY SMTT(40), <1>16 DEF FireTimer, Claim, coVars, workerVars, Go, Ends
<1>17. ASSUME NEW c \in Callers, NEW t \in Tasks, CancelFlag(c, t) PROVE CallsFit'
  BY SMTT(40), <1>17 DEF CancelFlag, coVars, workerVars, Go, Ends
<1>18. ASSUME NEW c \in Callers, CancelLoadWait(c) PROVE CallsFit'
  BY SMTT(40), <1>18 DEF CancelLoadWait, taskVars, coVars, workerVars, Go, Ends
<1>19. ASSUME NEW c \in Callers, CancelLoadCancellable(c) PROVE CallsFit'
  BY SMTT(40), <1>19 DEF CancelLoadCancellable, CancelMayEnd, taskVars, coVars, workerVars, Go, Ends
<1>20. ASSUME NEW c \in Callers, CancelWake(c) PROVE CallsFit'
  BY SMTT(40), <1>20 DEF CancelWake, Claim, coVars, workerVars, Go, Ends
<1>21. ASSUME NEW c \in Callers, CancelTooLate(c) PROVE CallsFit'
  BY SMTT(40), <1>21 DEF CancelTooLate, taskVars, coVars, workerVars, Go, Ends
<1>22. ASSUME NEW c \in Callers, StoreWoke(c) PROVE CallsFit'
  BY SMTT(40), <1>22 DEF StoreWoke, coVars, workerVars, Go, Ends
<1>23. ASSUME NEW c \in Callers, Schedule(c) PROVE CallsFit'
  BY SMTT(40), <1>23 DEF Schedule, PushNow, OrNotified, coVars, workerVars, Go, Ends
<1>24. ASSUME NEW c \in Callers, Push(c) PROVE CallsFit'
  BY <1>24 DEF Push, taskVars, coVars, workerVars, Go, Ends
<1> HIDE DEF callVars, TypeOK, IdsFit, CallsFit, Starting, Calls
<1> QED
  BY ZenonT(60), <1>1, <1>2, <1>3, <1>4, <1>5, <1>6, <1>7, <1>8, <1>9, <1>10, <1>11, <1>12, <1>13, <1>14, <1>15, <1>16, <1>17, <1>18, <1>19, <1>20, <1>21, <1>22, <1>23, <1>24
  DEF Next, WorkerStep, WaitStep, CodeStep, CallStart, CallRest

\* A claimed wait stays remembered.
LEMMA ClaimInductive == PlaceInv /\ IdsFit /\ ClaimRemembered /\ [Next]_vars => ClaimRemembered'
<1> SUFFICES ASSUME PlaceInv /\ IdsFit /\ ClaimRemembered, [Next]_vars PROVE ClaimRemembered'
  OBVIOUS
<1> USE DEF callVars, PlaceInv, TypeOK, StateFits, IdsFit, ClaimRemembered, Waking, Calls
<1>1. CASE UNCHANGED <<wait, co, state, callVars>>
  BY <1>1
<1>2. ASSUME \/ \E w \in Workers, t \in Tasks : Pop(w, t)
             \/ UNCHANGED vars
      PROVE  UNCHANGED <<wait, co, state, callVars>>
  BY ZenonT(60), <1>2 DEF Pop, taskVars, coVars, vars, workerVars
<1>3. ASSUME NEW w \in Workers, RunTask(w) PROVE ClaimRemembered'
  BY SMTT(40), <1>3 DEF RunTask
<1>4. ASSUME NEW w \in Workers, SuspendedToWait(w) PROVE ClaimRemembered'
  BY SMTT(40), <1>4 DEF SuspendedToWait, MaySleep, coVars
<1>5. ASSUME NEW w \in Workers, WokenWhileSuspending(w) PROVE ClaimRemembered'
  BY SMTT(40), <1>5 DEF WokenWhileSuspending, MaySleep, coVars
<1>6. ASSUME NEW w \in Workers, SuspendedToYield(w) PROVE ClaimRemembered'
  BY SMTT(40), <1>6 DEF SuspendedToYield, coVars
<1>7. ASSUME NEW w \in Workers, Requeue(w) PROVE ClaimRemembered'
  BY SMTT(40), <1>7 DEF Requeue, taskVars, coVars
<1>8. ASSUME NEW w \in Workers, Returned(w) PROVE ClaimRemembered'
  BY SMTT(40), <1>8 DEF Returned, coVars
<1>9. ASSUME NEW t \in Tasks, StoreCancellable(t) PROVE ClaimRemembered'
  BY SMTT(40), <1>9 DEF StoreCancellable, workerVars, At, Running
<1>10. ASSUME NEW t \in Tasks, StoreWait(t) PROVE ClaimRemembered'
  BY SMTT(40), <1>10 DEF StoreWait, workerVars, At, Running
<1>11. ASSUME NEW t \in Tasks, CheckCancelled(t) PROVE ClaimRemembered'
  BY SMTT(40), <1>11 DEF CheckCancelled, EndsItself, OrNotified, workerVars, At, Running
<1>12. ASSUME NEW t \in Tasks, ParkWoken(t) PROVE ClaimRemembered'
  BY SMTT(40), <1>12 DEF ParkWoken, taskVars, workerVars, At, Running
<1>13. ASSUME NEW t \in Tasks, WaitSuspended(t) PROVE ClaimRemembered'
  BY SMTT(40), <1>13 DEF WaitSuspended, taskVars, workerVars, At, Running
<1>14. ASSUME NEW t \in Tasks, WaitReturns(t) PROVE ClaimRemembered'
  BY SMTT(40), <1>14 DEF WaitReturns, taskVars, workerVars, At, Running
<1>15. ASSUME NEW t \in Tasks, Abandon(t) PROVE ClaimRemembered'
  BY SMTT(40), <1>15 DEF Abandon, workerVars, At, Running
<1>16. ASSUME NEW t \in Tasks, BeginWait(t) PROVE ClaimRemembered'
  BY SMTT(40), <1>16 DEF BeginWait, workerVars, At, Running
<1>17. ASSUME NEW t \in Tasks, Yield(t) PROVE ClaimRemembered'
  BY SMTT(40), <1>17 DEF Yield, taskVars, workerVars, At, Running
<1>18. ASSUME NEW t \in Tasks, Return(t) PROVE ClaimRemembered'
  BY SMTT(40), <1>18 DEF Return, taskVars, workerVars, At, Running
<1>19. ASSUME NEW c \in Callers, NEW t \in Tasks, Spawn(c, t) PROVE ClaimRemembered'
  BY SMTT(40), <1>19 DEF Spawn, workerVars, Go, Ends
<1>20. ASSUME NEW c \in Callers, NEW t \in Tasks, WakeReady(c, t) PROVE ClaimRemembered'
  BY SMTT(40), <1>20 DEF WakeReady, Claim, coVars, workerVars, Go, Ends
<1>21. ASSUME NEW c \in Callers, NEW t \in Tasks, FireTimer(c, t) PROVE ClaimRemembered'
  BY <1>21, SMTT(40) DEF FireTimer, Claim, coVars, workerVars, Go, Ends
<1>22. ASSUME NEW c \in Callers, NEW t \in Tasks, CancelFlag(c, t) PROVE ClaimRemembered'
  BY ZenonT(60), <1>22 DEF CancelFlag, coVars, workerVars, Go, Ends
<1>23. ASSUME NEW c \in Callers, CancelLoadWait(c) PROVE ClaimRemembered'
  <2>1. UNCHANGED <<wait, co, state>> /\ \A e \in Callers, t \in Tasks : Waking(e, t) => Waking(e, t)'
    BY SMTT(40), <1>23 DEF CancelLoadWait, taskVars, coVars, workerVars, Go, Ends
  <2> HIDE DEF PlaceInv, TypeOK, StateFits, IdsFit, Waking, Calls
  <2> QED
    BY ZenonT(60), <2>1
<1>24. ASSUME NEW c \in Callers, CancelLoadCancellable(c) PROVE ClaimRemembered'
  BY SMTT(40), <1>24 DEF CancelLoadCancellable, CancelMayEnd, taskVars, coVars, workerVars, Go, Ends
<1>25. ASSUME NEW c \in Callers, CancelWake(c) PROVE ClaimRemembered'
  BY <1>25 DEF CancelWake, Claim, coVars, workerVars, Go, Ends
<1>26. ASSUME NEW c \in Callers, CancelTooLate(c) PROVE ClaimRemembered'
  BY ZenonT(60), <1>26 DEF CancelTooLate, taskVars, coVars, workerVars, Go, Ends
<1>27. ASSUME NEW c \in Callers, StoreWoke(c) PROVE ClaimRemembered'
  BY <1>27, SMTT(40) DEF StoreWoke, coVars, workerVars, Go, Ends
<1>28. ASSUME NEW c \in Callers, Schedule(c) PROVE ClaimRemembered'
  <2>1. PICK t \in Tasks : ctask[c] = t
    BY ZenonT(60), <1>28 DEF Schedule
  <2>2. state'[t] \in {"NOTIFIED", "BOTH", "DONE"} /\ UNCHANGED <<wait, co>>
    BY <1>28, <2>1 DEF Schedule, OrNotified, States, coVars
  <2>3. state'[t] = "DONE" => co[t] = "returned"
    BY ZenonT(60), <1>28, <2>1 DEF Schedule, OrNotified
  <2>4. \A u \in Tasks \ {t} : state'[u] = state[u]
    BY ZenonT(60), <1>28, <2>1 DEF Schedule
  <2>5. \A e \in Callers \ {c} : cpc'[e] = cpc[e] /\ ctask'[e] = ctask[e]
    BY <1>28 DEF Schedule, Go, Ends
  <2>6. \A u \in Tasks \ {t}, e \in Callers : Waking(e, u) => Waking(e, u)'
    BY <2>1, <2>5, Zenon
  <2> HIDE DEF PlaceInv, TypeOK, StateFits, IdsFit, Waking, Calls
  <2> QED
    BY ZenonT(60), <2>2, <2>3, <2>4, <2>6 DEF States
<1>29. ASSUME NEW c \in Callers, Push(c) PROVE ClaimRemembered'
  BY ZenonT(60), <1>29 DEF Push, taskVars, coVars, workerVars, Go, Ends
<1> HIDE DEF callVars, PlaceInv, TypeOK, StateFits, IdsFit, ClaimRemembered, Waking, Calls
<1> QED
  BY ZenonT(60), <1>1, <1>2, <1>3, <1>4, <1>5, <1>6, <1>7, <1>8, <1>9, <1>10, <1>11, <1>12, <1>13, <1>14, <1>15, <1>16, <1>17, <1>18, <1>19, <1>20, <1>21, <1>22, <1>23, <1>24, <1>25, <1>26, <1>27, <1>28, <1>29
  DEF Next, WorkerStep, WaitStep, CodeStep, CallStart, CallRest

\* A cancellation stays remembered until the wait it may end has been claimed.
LEMMA CancelInductive == TypeOK /\ IdsFit /\ CallsFit /\ CancelRemembered /\ [Next]_vars => CancelRemembered'
<1> SUFFICES ASSUME TypeOK /\ IdsFit /\ CallsFit /\ CancelRemembered, [Next]_vars PROVE CancelRemembered'
  OBVIOUS
<1> USE DEF callVars, TypeOK, IdsFit, CallsFit, CancelRemembered, Catches, Cancelling, Starting, Calls
<1>1. CASE UNCHANGED <<wait, mine, co, kind, cancelled, callVars>>
  BY ZenonT(60), <1>1
<1>2. ASSUME \/ \E w \in Workers, t \in Tasks : Pop(w, t)
             \/ \E w \in Workers : SuspendedToWait(w) \/ WokenWhileSuspending(w) \/ SuspendedToYield(w) \/ Requeue(w) \/ Returned(w)
             \/ UNCHANGED vars
      PROVE  UNCHANGED <<wait, mine, co, kind, cancelled, callVars>>
  BY ZenonT(60), <1>2 DEF Pop, taskVars, coVars, SuspendedToWait, WokenWhileSuspending, SuspendedToYield, Requeue, Returned, vars, workerVars
<1>3. ASSUME NEW w \in Workers, RunTask(w) PROVE CancelRemembered'
  BY SMTT(40), <1>3 DEF RunTask
<1>4. ASSUME NEW t \in Tasks, StoreCancellable(t) PROVE CancelRemembered'
  BY SMTT(40), <1>4 DEF StoreCancellable, workerVars, At
<1>5. ASSUME NEW t \in Tasks, StoreWait(t) PROVE CancelRemembered'
  BY SMTT(40), <1>5 DEF StoreWait, workerVars, At
<1>6. ASSUME NEW t \in Tasks, CheckCancelled(t) PROVE CancelRemembered'
  BY SMTT(40), <1>6 DEF CheckCancelled, EndsItself, OrNotified, workerVars, At
<1>7. ASSUME NEW t \in Tasks, ParkWoken(t) PROVE CancelRemembered'
  BY SMTT(40), <1>7 DEF ParkWoken, taskVars, workerVars, At
<1>8. ASSUME NEW t \in Tasks, WaitSuspended(t) PROVE CancelRemembered'
  BY SMTT(40), <1>8 DEF WaitSuspended, taskVars, workerVars, At
<1>9. ASSUME NEW t \in Tasks, WaitReturns(t) PROVE CancelRemembered'
  BY SMTT(40), <1>9 DEF WaitReturns, taskVars, workerVars, At
<1>10. ASSUME NEW t \in Tasks, Abandon(t) PROVE CancelRemembered'
  BY SMTT(40), <1>10 DEF Abandon, workerVars, At
<1>11. ASSUME NEW t \in Tasks, BeginWait(t) PROVE CancelRemembered'
  BY SMTT(40), <1>11 DEF BeginWait, workerVars, At
<1>12. ASSUME NEW t \in Tasks, Yield(t) PROVE CancelRemembered'
  BY SMTT(40), <1>12 DEF Yield, taskVars, workerVars, At
<1>13. ASSUME NEW t \in Tasks, Return(t) PROVE CancelRemembered'
  BY SMTT(40), <1>13 DEF Return, taskVars, workerVars, At
<1>14. ASSUME NEW c \in Callers, NEW t \in Tasks, Spawn(c, t) PROVE CancelRemembered'
  BY SMTT(40), <1>14 DEF Spawn, workerVars, Go, Ends
<1>15. ASSUME NEW c \in Callers, NEW t \in Tasks, WakeReady(c, t) PROVE CancelRemembered'
  BY SMTT(40), <1>15 DEF WakeReady, Claim, coVars, workerVars, Go, Ends
<1>16. ASSUME NEW c \in Callers, NEW t \in Tasks, FireTimer(c, t) PROVE CancelRemembered'
  BY SMTT(40), <1>16 DEF FireTimer, Claim, coVars, workerVars, Go, Ends
<1>17. ASSUME NEW c \in Callers, NEW t \in Tasks, CancelFlag(c, t) PROVE CancelRemembered'
  BY SMTT(40), <1>17 DEF CancelFlag, coVars, workerVars, Go, Ends
<1>18. ASSUME NEW c \in Callers, CancelLoadWait(c) PROVE CancelRemembered'
  BY SMTT(40), <1>18 DEF CancelLoadWait, taskVars, coVars, workerVars, Go, Ends
<1>19. ASSUME NEW c \in Callers, CancelLoadCancellable(c) PROVE CancelRemembered'
  BY SMTT(40), <1>19 DEF CancelLoadCancellable, CancelMayEnd, taskVars, coVars, workerVars, Go, Ends
<1>20. ASSUME NEW c \in Callers, CancelWake(c) PROVE CancelRemembered'
  BY SMTT(40), <1>20 DEF CancelWake, Claim, coVars, workerVars, Go, Ends
<1>21. ASSUME NEW c \in Callers, CancelTooLate(c) PROVE CancelRemembered'
  BY SMTT(40), <1>21 DEF CancelTooLate, taskVars, coVars, workerVars, Go, Ends
<1>22. ASSUME NEW c \in Callers, StoreWoke(c) PROVE CancelRemembered'
  BY ZenonT(60), <1>22 DEF StoreWoke, coVars, workerVars, Go, Ends
<1>23. ASSUME NEW c \in Callers, Schedule(c) PROVE CancelRemembered'
  BY SMTT(40), <1>23 DEF Schedule, PushNow, OrNotified, coVars, workerVars, Go, Ends
<1>24. ASSUME NEW c \in Callers, Push(c) PROVE CancelRemembered'
  BY SMTT(40), <1>24 DEF Push, taskVars, coVars, workerVars, Go, Ends
<1> HIDE DEF callVars, TypeOK, IdsFit, CallsFit, CancelRemembered, Catches, Cancelling, Starting, Calls
<1> QED
  BY ZenonT(60), <1>1, <1>2, <1>3, <1>4, <1>5, <1>6, <1>7, <1>8, <1>9, <1>10, <1>11, <1>12, <1>13, <1>14, <1>15, <1>16, <1>17, <1>18, <1>19, <1>20, <1>21, <1>22, <1>23, <1>24
  DEF Next, WorkerStep, WaitStep, CodeStep, CallStart, CallRest

-----------------------------------------------------------------------------
\* The whole invariant is inductive.
LEMMA WakeInductive == WakeInv /\ [Next]_vars => WakeInv'
<1> SUFFICES ASSUME WakeInv, [Next]_vars PROVE WakeInv'
  OBVIOUS
<1>1. PlaceInv'
  BY ZenonT(60), PlaceInductive DEF WakeInv
<1>2. IdsFit' /\ CallsFit'
  BY ZenonT(60), IdsInductive, CallsInductive DEF WakeInv, PlaceInv
<1>3. ClaimRemembered' /\ CancelRemembered'
  BY ZenonT(60), ClaimInductive, CancelInductive DEF WakeInv, PlaceInv
<1> QED
  BY ZenonT(60), <1>1, <1>2, <1>3 DEF WakeInv

\* The first state: no wait begun, nobody waking or cancelling.
LEMMA WakeInitially == Init => WakeInv
<1> SUFFICES ASSUME Init PROVE WakeInv
  OBVIOUS
<1> USE TaskWakeAssumption DEF Init, Calls
<1>1. PlaceInv
  BY ZenonT(60), PlaceInitially
<1>2. IdsFit /\ CallsFit /\ ClaimRemembered /\ CancelRemembered
  BY DEF IdsFit, CallsFit, ClaimRemembered, CancelRemembered, Starting
<1> QED
  BY ZenonT(60), <1>1, <1>2 DEF WakeInv

\* WakeInv always holds.
LEMMA WakeInvariant == Spec => []WakeInv
  BY WakeInitially, WakeInductive, PTL DEF Spec

\* A wake-up that claimed a wait reaches its task (wake against the suspension at
\* the end of run_task).
THEOREM WakeUpsReach == Spec => []NoLostWake
<1>1. WakeInv => NoLostWake
  BY ZenonT(60) DEF WakeInv, ClaimRemembered, NoLostWake, Asleep
<1> QED
  BY <1>1, WakeInvariant, PTL

\* A cancellation reaches a task asleep in a cancellable wait (TaskRef::cancel
\* against begin_wait).
THEOREM CancellationsReach == Spec => []NoLostCancel
<1>1. WakeInv => NoLostCancel
  <2> SUFFICES ASSUME WakeInv, NEW t \in Tasks,
                      Asleep(t), cancelled[t], Cancellable(kind[t])
               PROVE  \E c \in Callers : Cancelling(c, t) \/ Waking(c, t)
    BY ZenonT(60) DEF NoLostCancel
  <2>1. CASE wait[t] = 0
    BY ZenonT(60), <2>1 DEF WakeInv, ClaimRemembered, Asleep
  <2>2. CASE wait[t] = mine[t]
    BY ZenonT(60), <2>2 DEF WakeInv, CancelRemembered, Catches, Asleep
  <2> QED
    BY ZenonT(60), <2>1, <2>2 DEF WakeInv, IdsFit, Asleep
<1> QED
  BY <1>1, WakeInvariant, PTL

\* The wait a cancel call claims is one that cancelling may end (TaskRef::cancel).
THEOREM CancelClaimsRightly == Spec => CancelSparesScopes
<1> DEFINE Spared ==
      \A c \in Callers :
        /\ Calls(c, "cas") /\ cpc'[c] = "claimed"
        /\ mine[ctask[c]] = cwait[c]
        => Cancellable(kind[ctask[c]])
<1>1. WakeInv => Spared
  BY ZenonT(60) DEF WakeInv, CallsFit, Calls
<1>2. WakeInv /\ [Next]_vars => [Spared]_vars
  BY ZenonT(60), <1>1
<1> QED
  BY <1>2, WakeInvariant, PTL DEF Spec, CancelSparesScopes
=============================================================================
