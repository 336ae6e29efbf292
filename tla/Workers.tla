------------------------------ MODULE Workers ------------------------------
(***************************************************************************)
(* The workers of src/src/sched.rs: their run queues, the queue that plain *)
(* threads fill (INJECT), stealing, and the protocol by which idle workers *)
(* sleep and are woken (SLEEPING, SEARCHING, `notified`, the poll waker).  *)
(*                                                                         *)
(* One action per atomic access or critical section.  What a task does     *)
(* while it runs is left open: it yields, waits, returns or wakes another; *)
(* the protocol of one task's wait is module TaskWake.                     *)
(***************************************************************************)
EXTENDS Naturals, Sequences, FiniteSets

CONSTANTS
    NumWorkers,    \* limits::workers()
    Threads,       \* plain threads that wake tasks (helpers, the signal thread)
    Tasks,
    MainTask,      \* `main!`
    NoTask,
    EventInterval, \* tasks between two looks at events while busy
    Saturated,     \* what Worker::saturated may answer: a set of Booleans
    StartMayFail,  \* whether a worker's thread may fail to start
    MaxSearching   \* bound on SEARCHING

Workers == 0 .. NumWorkers - 1
Procs   == Workers \cup Threads

ASSUME WorkersAssumption ==
    /\ NumWorkers \in Nat \ {0}
    /\ IsFiniteSet(Threads) /\ Threads \cap Workers = {}
    /\ MainTask \in Tasks /\ NoTask \notin Tasks
    /\ EventInterval \in Nat \ {0}
    /\ Saturated \subseteq BOOLEAN /\ Saturated # {}
    /\ StartMayFail \in BOOLEAN
    /\ MaxSearching \in Nat \ {0}

VARIABLES
    queue,     \* Shared::queue of each worker
    inject,    \* INJECT
    asleep,    \* tasks waiting, or not spawned yet: someone may queue them
    finished,  \* tasks that returned
    cur,       \* the task each worker is running
    hand,      \* tasks a thief took and has not queued yet
    sleeping,  \* SLEEPING
    searching, \* SEARCHING
    notified,  \* Shared::notified
    waker,     \* a wake-up is pending in the worker's poll
    slots,     \* the filled slots of WORKERS
    starting,  \* who holds start_worker's STARTING, a set of at most one
    mainDone,  \* MAIN_DONE
    ticks,     \* tasks run since the last look at events
    pc, back,  \* where each thread is, and where notify_idle returns to
    aim,       \* notify_idle's worker index; a thief's victim
    otherwise  \* where answer_notification continues if it found nothing

queues == <<queue, inject, asleep, finished, cur, hand>>
parking == <<sleeping, searching, notified, waker>>
vars == <<queues, parking, slots, starting, mainDone, ticks, pc, back, aim, otherwise>>

Init ==
    /\ queue     = [w \in Workers |-> IF w = 0 THEN <<MainTask>> ELSE <<>>]
    /\ inject    = <<>>
    /\ asleep    = Tasks \ {MainTask}
    /\ finished  = {}
    /\ cur       = [w \in Workers |-> NoTask]
    /\ hand      = [w \in Workers |-> <<>>]
    /\ sleeping  = {}
    /\ searching = 0
    /\ notified  = [w \in Workers |-> FALSE]
    /\ waker     = [w \in Workers |-> FALSE]
    /\ slots     = {0}
    /\ starting  = {}
    /\ mainDone  = FALSE
    /\ ticks     = [w \in Workers |-> 0]
    /\ pc        = [x \in Procs |-> IF x = 0 THEN "begin"
                                   ELSE IF x \in Workers THEN "off" ELSE "idle"]
    /\ back      = [x \in Procs |-> "idle"]
    /\ aim       = [x \in Procs |-> 0]
    /\ otherwise = [w \in Workers |-> "loop"]

Goto(x, place) == pc' = [pc EXCEPT ![x] = place]

-----------------------------------------------------------------------------
(* notify_idle and start_worker, called by x: they return to back[x] *)

Return(x) ==
    /\ Goto(x, back[x])
    /\ back' = [back EXCEPT ![x] = "idle"]
    /\ aim' = [aim EXCEPT ![x] = 0]

Continue(x, place) == Goto(x, place) /\ UNCHANGED <<back, aim>>

NotifyLoadSearching(x) ==
    /\ pc[x] = "notify"
    /\ IF searching > 0 THEN Return(x) ELSE Continue(x, "load")
    /\ UNCHANGED <<queues, parking, slots, starting, mainDone, ticks, otherwise>>

\* x goes on with the lowest worker of a set.
AimAtLowest(x, S, place) ==
    /\ \E v \in S : (\A u \in S : v <= u) /\ aim' = [aim EXCEPT ![x] = v]
    /\ Goto(x, place)
    /\ UNCHANGED back

\* The lowest sleeping worker, or else the first that was never started.
NotifyLoadSleeping(x) ==
    /\ pc[x] = "load"
    /\ \/ AimAtLowest(x, sleeping, "clear")
       \/ sleeping = {} /\ AimAtLowest(x, Workers \ slots, "start")
       \/ /\ sleeping = {} /\ Workers \ slots = {}
          /\ Return(x)
    /\ UNCHANGED <<queues, parking, slots, starting, mainDone, ticks, otherwise>>

NotifyClearBit(x) ==
    /\ pc[x] = "clear"
    /\ sleeping' = sleeping \ {aim[x]}
    /\ IF aim[x] \in sleeping /\ aim[x] \in slots THEN Continue(x, "count") ELSE Return(x)
    /\ UNCHANGED <<queues, searching, notified, waker, slots, starting, mainDone, ticks, otherwise>>

NotifyCount(x) ==
    /\ pc[x] = "count"
    /\ searching < MaxSearching
    /\ searching' = searching + 1
    /\ Continue(x, "mark")
    /\ UNCHANGED <<queues, sleeping, notified, waker, slots, starting, mainDone, ticks, otherwise>>

NotifyMark(x) ==
    /\ pc[x] = "mark"
    /\ notified' = [notified EXCEPT ![aim[x]] = TRUE]
    /\ Continue(x, "wake")
    /\ UNCHANGED <<queues, sleeping, searching, waker, slots, starting, mainDone, ticks, otherwise>>

\* Mutant: the worker is marked, but its poll is not woken.
NotifyUnwoken(x) ==
    /\ pc[x] = "wake"
    /\ Return(x)
    /\ UNCHANGED <<queues, parking, slots, starting, mainDone, ticks, otherwise>>

NotifyWake(x) ==
    /\ pc[x] = "wake"
    /\ waker' = [waker EXCEPT ![aim[x]] = TRUE]
    /\ Return(x)
    /\ UNCHANGED <<queues, sleeping, searching, notified, slots, starting, mainDone, ticks, otherwise>>

\* start_worker, holding STARTING: someone else started it meanwhile ...
StartedAlready(x) ==
    /\ pc[x] = "start" /\ starting = {}
    /\ aim[x] \in slots
    /\ Return(x)
    /\ UNCHANGED <<queues, parking, slots, starting, mainDone, ticks, otherwise>>

\* ... or it counts the new worker as searching and starts its thread, which
\* may run before its slot is filled ...
StartWorker(x) ==
    /\ pc[x] = "start" /\ starting = {}
    /\ aim[x] \notin slots
    /\ searching < MaxSearching
    /\ searching' = searching + 1
    /\ starting' = {x}
    /\ \/ /\ notified' = [notified EXCEPT ![aim[x]] = TRUE]
          /\ pc' = [pc EXCEPT ![x] = "fill", ![aim[x]] = "begin"]
       \/ /\ StartMayFail
          /\ Goto(x, "unstarted")
          /\ UNCHANGED notified
    /\ UNCHANGED <<queues, sleeping, waker, slots, mainDone, ticks, back, aim, otherwise>>

FillSlot(x) ==
    /\ pc[x] = "fill"
    /\ slots' = slots \cup {aim[x]}
    /\ starting' = {}
    /\ Return(x)
    /\ UNCHANGED <<queues, parking, mainDone, ticks, otherwise>>

\* Mutant: a worker that failed to start is taken off the count twice.
StartFailedTwice(x) ==
    /\ pc[x] = "unstarted"
    /\ searching' = searching - 2
    /\ starting' = {}
    /\ Return(x)
    /\ UNCHANGED <<queues, sleeping, notified, waker, slots, mainDone, ticks, otherwise>>

\* ... or the thread did not start.
StartFailed(x) ==
    /\ pc[x] = "unstarted"
    /\ searching' = searching - 1
    /\ starting' = {}
    /\ Return(x)
    /\ UNCHANGED <<queues, sleeping, notified, waker, slots, mainDone, ticks, otherwise>>

NotifyStep(x) ==
    \/ NotifyLoadSearching(x) \/ NotifyLoadSleeping(x) \/ NotifyClearBit(x) \/ NotifyCount(x)
    \/ NotifyMark(x) \/ NotifyWake(x)
    \/ StartedAlready(x) \/ StartWorker(x) \/ FillSlot(x) \/ StartFailed(x)

-----------------------------------------------------------------------------
(* push *)

\* Put t behind w's own queue; a worker that is saturated shares its backlog.
PushOwn(w, t) ==
    /\ queue' = [queue EXCEPT ![w] = Append(@, t)]
    /\ \E saturated \in Saturated :
         IF Len(queue'[w]) > 1 /\ saturated
         THEN /\ Goto(w, "notify")
              /\ back' = [back EXCEPT ![w] = pc[w]]
         ELSE UNCHANGED <<pc, back>>

\* A plain thread queues a task it woke.
PushInject(p, t) ==
    /\ pc[p] = "idle"
    /\ t \in asleep
    /\ asleep' = asleep \ {t}
    /\ inject' = Append(inject, t)
    /\ Goto(p, "notify")
    /\ UNCHANGED <<queue, finished, cur, hand, parking, slots, starting, mainDone, ticks, back,
                   aim, otherwise>>

-----------------------------------------------------------------------------
(* run, run_task *)

\* Only worker 0 stops, once `main!` has returned.
Exit(w) ==
    /\ pc[w] = "loop"
    /\ w = 0 /\ mainDone
    /\ Goto(w, "exit")
    /\ UNCHANGED <<queues, parking, slots, starting, mainDone, ticks, back, aim, otherwise>>

Pop(w) ==
    /\ pc[w] = "loop"
    /\ ~(w = 0 /\ mainDone)
    /\ IF queue[w] # <<>>
       THEN /\ cur' = [cur EXCEPT ![w] = Head(queue[w])]
            /\ queue' = [queue EXCEPT ![w] = Tail(@)]
            /\ Goto(w, "run")
       ELSE /\ Goto(w, "inject")
            /\ UNCHANGED <<cur, queue>>
    /\ UNCHANGED <<inject, asleep, finished, hand, parking, slots, starting, mainDone, ticks, back,
                   aim, otherwise>>

\* The running task wakes or spawns another one.
RunWakes(w, t) ==
    /\ pc[w] = "run"
    /\ t \in asleep
    /\ asleep' = asleep \ {t}
    /\ PushOwn(w, t)
    /\ UNCHANGED <<inject, finished, cur, hand, parking, slots, starting, mainDone, ticks, aim,
                   otherwise>>

\* After a task, every EventInterval tasks, look at events and the shared queue.
Ran(w) ==
    /\ cur' = [cur EXCEPT ![w] = NoTask]
    /\ ticks' = [ticks EXCEPT ![w] = (@ + 1) % EventInterval]

NextPlace(w) == IF (ticks[w] + 1) % EventInterval = 0 THEN "tick" ELSE "loop"

\* Suspended to yield, or woken while suspending: back on this worker's queue.
RunYields(w) ==
    /\ pc[w] = "run"
    /\ queue' = [queue EXCEPT ![w] = Append(@, cur[w])]
    /\ Ran(w)
    /\ Goto(w, NextPlace(w))
    /\ UNCHANGED <<inject, asleep, finished, hand, parking, slots, starting, mainDone, back, aim,
                   otherwise>>

RunWaits(w) ==
    /\ pc[w] = "run"
    /\ asleep' = asleep \cup {cur[w]}
    /\ Ran(w)
    /\ Goto(w, NextPlace(w))
    /\ UNCHANGED <<queue, inject, finished, hand, parking, slots, starting, mainDone, back, aim,
                   otherwise>>

\* A task returned; `main!` returning also stops and wakes worker 0.
RunReturns(w) ==
    /\ pc[w] = "run"
    /\ finished' = finished \cup {cur[w]}
    /\ mainDone' = (mainDone \/ cur[w] = MainTask)
    /\ Ran(w)
    /\ Goto(w, IF cur[w] = MainTask THEN "wakemain" ELSE NextPlace(w))
    /\ UNCHANGED <<queue, inject, asleep, hand, parking, slots, starting, back, aim, otherwise>>

\* Mutant: worker 0 is not woken when main! returns elsewhere.
MainWorkerUnwoken(w) ==
    /\ pc[w] = "wakemain"
    /\ Goto(w, IF ticks[w] = 0 THEN "tick" ELSE "loop")
    /\ UNCHANGED <<queues, parking, slots, starting, mainDone, ticks, back, aim, otherwise>>

WakeMainWorker(w) ==
    /\ pc[w] = "wakemain"
    /\ waker' = [waker EXCEPT ![0] = TRUE]
    /\ Goto(w, IF ticks[w] = 0 THEN "tick" ELSE "loop")
    /\ UNCHANGED <<queues, sleeping, searching, notified, slots, starting, mainDone, ticks, back,
                   aim, otherwise>>

RunEnds(w) == RunYields(w) \/ RunWaits(w) \/ RunReturns(w)

-----------------------------------------------------------------------------
(* poll_events, fire_timers, take_injected *)

\* An event or a timer readies a task that waits for it.
Deliver(w, t) ==
    /\ pc[w] \in {"tickevents", "events", "timers"}
    /\ t \in asleep
    /\ asleep' = asleep \ {t}
    /\ PushOwn(w, t)
    /\ UNCHANGED <<inject, finished, cur, hand, parking, slots, starting, mainDone, ticks, aim,
                   otherwise>>

\* A poll reports and so consumes a pending wake-up.  A blocked worker returns
\* from it for a wake-up, an event, a timer or a signal.
Poll(w) ==
    /\ pc[w] \in {"tick", "poll", "blocked"}
    /\ waker' = [waker EXCEPT ![w] = FALSE]
    /\ Goto(w, IF pc[w] = "tick" THEN "tickevents" ELSE "events")
    /\ UNCHANGED <<queues, sleeping, searching, notified, slots, starting, mainDone, ticks, back,
                   aim, otherwise>>

\* take_injected, in one step: from the pop to the push the task is this
\* worker's alone, which is awake and does nothing else in between.
TakeInjected(w) ==
    /\ pc[w] \in {"tickevents", "inject"}
    /\ IF inject # <<>>
       THEN /\ inject' = Tail(inject)
            /\ queue' = [queue EXCEPT ![w] = Append(@, Head(inject))]
            /\ Goto(w, "loop")
       ELSE /\ Goto(w, IF pc[w] = "inject" THEN "answer" ELSE "loop")
            /\ UNCHANGED <<inject, queue>>
    /\ UNCHANGED <<asleep, finished, cur, hand, parking, slots, starting, mainDone, ticks, back,
                   aim, otherwise>>

-----------------------------------------------------------------------------
(* answer_notification, steal *)

\* In run's loop a worker that finds nothing parks; elsewhere the answer is ignored.
Otherwise(w) == IF pc[w] = "answer" THEN "park" ELSE "loop"

Answer(w) ==
    /\ pc[w] \in {"begin", "answer", "timers"}
    /\ notified' = [notified EXCEPT ![w] = FALSE]
    /\ IF notified[w]
       THEN /\ Goto(w, "steal")
            /\ otherwise' = [otherwise EXCEPT ![w] = Otherwise(w)]
       ELSE /\ Goto(w, Otherwise(w))
            /\ UNCHANGED otherwise
    /\ UNCHANGED <<queues, sleeping, searching, waker, slots, starting, mainDone, ticks, back, aim>>

\* aim[w] is the offset of the next victim.
Victim(w) == (w + 1 + aim[w]) % NumWorkers
Takes(len) == (len + 1) \div 2

Steal(w) ==
    /\ pc[w] = "steal"
    /\ aim[w] < NumWorkers
    /\ LET v == Victim(w) IN
         IF v \in slots /\ v # w /\ queue[v] # <<>>
         THEN /\ hand' = [hand EXCEPT ![w] = SubSeq(queue[v], 1, Takes(Len(queue[v])))]
              /\ queue' = [queue EXCEPT ![v] = SubSeq(@, Takes(Len(@)) + 1, Len(@))]
              /\ Goto(w, "extend")
              /\ UNCHANGED aim
         ELSE /\ aim' = [aim EXCEPT ![w] = @ + 1]
              /\ UNCHANGED <<hand, queue, pc>>
    /\ UNCHANGED <<inject, asleep, finished, cur, parking, slots, starting, mainDone, ticks, back,
                   otherwise>>

\* Mutant: the thief's own queue is replaced, not extended.
ExtendOver(w) ==
    /\ pc[w] = "extend"
    /\ queue' = [queue EXCEPT ![w] = hand[w]]
    /\ hand' = [hand EXCEPT ![w] = <<>>]
    /\ otherwise' = [otherwise EXCEPT ![w] = "loop"]
    /\ Goto(w, "looked")
    /\ UNCHANGED <<inject, asleep, finished, cur, parking, slots, starting, mainDone, ticks, back,
                   aim>>

Extend(w) ==
    /\ pc[w] = "extend"
    /\ queue' = [queue EXCEPT ![w] = @ \o hand[w]]
    /\ hand' = [hand EXCEPT ![w] = <<>>]
    /\ otherwise' = [otherwise EXCEPT ![w] = "loop"]
    /\ Goto(w, "looked")
    /\ UNCHANGED <<inject, asleep, finished, cur, parking, slots, starting, mainDone, ticks, back,
                   aim>>

\* Looked, with or without finding anything: no longer searching.
Looked(w) ==
    /\ pc[w] = "looked" \/ (pc[w] = "steal" /\ aim[w] = NumWorkers)
    /\ searching' = searching - 1
    /\ aim' = [aim EXCEPT ![w] = 0]
    /\ Goto(w, otherwise[w])
    /\ otherwise' = [otherwise EXCEPT ![w] = "loop"]
    /\ UNCHANGED <<queues, sleeping, notified, waker, slots, starting, mainDone, ticks, back>>

-----------------------------------------------------------------------------
(* park *)

Announce(w) ==
    /\ pc[w] = "park"
    /\ sleeping' = sleeping \cup {w}
    /\ Goto(w, "recheck")
    /\ UNCHANGED <<queues, searching, notified, waker, slots, starting, mainDone, ticks, back, aim,
                   otherwise>>

\* Mutant: the shared queue is not looked at again after announcing sleep.
WorkWaitingMainOnly(w) == w = 0 /\ mainDone

WorkWaiting(w) == inject # <<>> \/ (w = 0 /\ mainDone)

Recheck(w) ==
    /\ pc[w] = "recheck"
    /\ Goto(w, IF WorkWaiting(w) THEN "poll" ELSE "blocked")
    /\ UNCHANGED <<queues, parking, slots, starting, mainDone, ticks, back, aim, otherwise>>

Unpark(w) ==
    /\ pc[w] = "events"
    /\ sleeping' = sleeping \ {w}
    /\ Goto(w, "timers")
    /\ UNCHANGED <<queues, searching, notified, waker, slots, starting, mainDone, ticks, back, aim,
                   otherwise>>

-----------------------------------------------------------------------------
WorkerStep(w) ==
    \/ Exit(w) \/ Pop(w) \/ RunEnds(w) \/ WakeMainWorker(w)
    \/ TakeInjected(w) \/ Answer(w) \/ Steal(w) \/ Extend(w) \/ Looked(w)
    \/ Announce(w) \/ Recheck(w) \/ Unpark(w)
    \/ Poll(w)

Next ==
    \/ \E w \in Workers : WorkerStep(w)
    \/ \E x \in Procs : NotifyStep(x)
    \/ \E w \in Workers, t \in Tasks : RunWakes(w, t) \/ Deliver(w, t)
    \/ \E p \in Threads, t \in Tasks : PushInject(p, t)

Spec == Init /\ [][Next]_vars

\* A thread that can go on does, a task's code eventually suspends or returns,
\* and a poll reports a pending wake-up.  A poll with nothing to report may
\* block for ever, and no task need be woken.
Fairness ==
    /\ \A w \in Workers : WF_vars(\/ WorkerStep(w) /\ (pc[w] = "blocked" => waker[w])
                                  \/ NotifyStep(w))
    /\ \A p \in Threads : WF_vars(NotifyStep(p))

FairSpec == Spec /\ Fairness

-----------------------------------------------------------------------------
\* The types of the scheduler's globals and of every thread's locals.
TypeOK ==
    /\ queue \in [Workers -> Seq(Tasks)]
    /\ inject \in Seq(Tasks)
    /\ asleep \subseteq Tasks /\ finished \subseteq Tasks
    /\ cur \in [Workers -> Tasks \cup {NoTask}]
    /\ hand \in [Workers -> Seq(Tasks)]
    /\ sleeping \subseteq Workers /\ slots \subseteq Workers
    /\ searching \in 0 .. MaxSearching
    /\ notified \in [Workers -> BOOLEAN] /\ waker \in [Workers -> BOOLEAN]
    /\ mainDone \in BOOLEAN
    /\ aim \in [Procs -> 0 .. NumWorkers]

\* Where the tasks that neither wait nor are done stand in line: a worker's
\* queue, a thief's hand, the worker that runs it, or INJECT, with worker 0.
Places == {"queue", "hand", "running", "inject"} \X Workers
Line(l) ==
    CASE l[1] = "queue"   -> queue[l[2]]
      [] l[1] = "hand"    -> hand[l[2]]
      [] l[1] = "running" -> IF cur[l[2]] = NoTask THEN <<>> ELSE <<cur[l[2]]>>
      [] l[1] = "inject"  -> IF l[2] = 0 THEN inject ELSE <<>>

InLine(t) == \E l \in Places : \E i \in 1 .. Len(Line(l)) : Line(l)[i] = t

\* Stealing, sharing and injecting neither lose nor duplicate a task: each is
\* in one queue, one thief's hand, running on one worker, waiting, or done.
EachTaskOnce ==
    /\ asleep \cap finished = {}
    /\ \A t \in Tasks : InLine(t) <=> t \notin asleep \cup finished
    /\ \A l \in Places : \A i \in 1 .. Len(Line(l)) :
           \A m \in Places : \A j \in 1 .. Len(Line(m)) :
               Line(l)[i] = Line(m)[j] => l = m /\ i = j

Looking(w)   == pc[w] \in {"steal", "extend", "looked"}
Notifying(x) == pc[x] \in {"notify", "load", "clear", "count", "mark", "wake", "start", "fill",
                           "unstarted"}

\* SEARCHING never falls below the number of workers that will take one off
\* it, so no fetch_sub wraps it round to a count that stops all wake-ups.
SearchingCovers ==
    searching >= Cardinality({w \in Workers : notified[w]})
               + Cardinality({w \in Workers : Looking(w)})
               + Cardinality({x \in Procs : pc[x] \in {"mark", "unstarted"}})

\* Nothing will make w look for work: it is not running, or is blocked in a
\* poll with no wake-up pending.
Dormant(w) == pc[w] = "off" \/ (pc[w] = "blocked" /\ ~waker[w])

\* park's re-check: work queued by a thread never waits for the next socket
\* event.  If all workers are blocked, someone is about to wake one.
InjectedIsNoticed ==
    inject # <<>> /\ (\A w \in Workers : Dormant(w)) => \E x \in Procs : Notifying(x)

Exited == pc[0] = "exit"

\* A task a thread queued is taken by a worker, unless the program ends first.
Injected(t) == \E i \in 1 .. Len(inject) : inject[i] = t
InjectedIsTaken == \A t \in Tasks : Injected(t) ~> (~Injected(t) \/ Exited)

\* Once `main!` has returned, on whichever worker, worker 0 stops.
MainStops == mainDone ~> Exited
=============================================================================
