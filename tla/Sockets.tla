------------------------------- MODULE Sockets -------------------------------
(***************************************************************************)
(* Waiting for sockets: the registrations of src/src/sched.rs (`IoReg`,    *)
(* `wait_io`, `watch_io`, `MultiWait`, `poll_events`), the operations of   *)
(* src/src/sockets.rs that retry around them, accepting, and a listener    *)
(* closed under its handle.                                                *)
(*                                                                         *)
(* Tasks run on workers, and a worker handles the events of its own queue  *)
(* only between tasks.  Event queues are edge-triggered: a queue reports a *)
(* socket when it becomes ready, is registered ready or is re-armed ready, *)
(* and then not again.  A call wants any of a set of sources, a socket and *)
(* a direction each: one for an operation that retries, several for a      *)
(* Select.  A wake-up is one step (see TaskWake), and so are the calls     *)
(* into the kernel that `watch_io` makes under the lock of the waiters.    *)
(***************************************************************************)
EXTENDS Naturals, FiniteSets

CONSTANTS
    Tasks, Workers,
    Conns,            \* the sockets the program opens, each once
    Listeners,        \* the ones that accept
    Fds,              \* descriptor numbers, used again once closed
    Keys,             \* keys of IO_TABLE, used again once vacant
    Dirs,             \* what a source may wait for: reading, writing
    None,
    MaySelect,        \* whether calls on several sources are made
    RegisterMayFail   \* whether the system may refuse a registration

Sources == {s \in Conns \X Dirs : s[1] \in Listeners => s[2] = "read"}

VARIABLES
    fd,        \* the descriptor of a socket
    life,      \* from "new" through "open" and the steps of its drop to "gone"
    ready,     \* the directions in which a socket would not block
    dead,      \* whether its descriptor has been pointed at a placeholder
    queue,     \* which socket each worker's queue watches under a number
    edge,      \* whether it has an event to report for it
    key,       \* IoState::token: the key, the socket itself being the generation
    table,     \* IO_TABLE
    owner,     \* IoState::owner
    refuses,   \* IoState::closed
    waiters,   \* IoState::waiters
    closed,    \* Conn::closed
    closer,    \* who holds Conn::closing
    pc,        \* where the call of a task is
    kind,      \* which call it is
    wants,     \* its sources
    left,      \* the sources it has yet to poll or to watch
    at,        \* the worker that runs the task
    live,      \* whether the task is in a wait nothing has ended
    woke,      \* how its last wait ended
    cancelled, \* Task::cancelled
    result,    \* whether its last call is "ok", "failed" or found "closed"
    got        \* the events a worker has collected and not handled

kernel == <<fd, life, ready, dead, queue, edge>>
states == <<key, table, owner, refuses, waiters>>
conns == <<closed, closer>>
calls == <<pc, kind, wants, left, at, result>>
waits == <<live, woke, cancelled>>
sockVars == <<kernel, states, conns, calls, waits, got>>

SocketsInit ==
    /\ fd = [c \in Conns |-> None] /\ life = [c \in Conns |-> "new"]
    /\ ready = [c \in Conns |-> {}] /\ dead = [c \in Conns |-> FALSE]
    /\ queue = [w \in Workers |-> [f \in Fds |-> None]]
    /\ edge = [w \in Workers |-> [f \in Fds |-> FALSE]]
    /\ key = [c \in Conns |-> None] /\ table = [k \in Keys |-> None]
    /\ owner = [c \in Conns |-> None] /\ refuses = [c \in Conns |-> FALSE]
    /\ waiters = [c \in Conns |-> {}]
    /\ closed = [c \in Conns |-> FALSE] /\ closer = [c \in Conns |-> None]
    /\ pc = [t \in Tasks |-> "idle"] /\ kind = [t \in Tasks |-> "none"]
    /\ wants = [t \in Tasks |-> {}] /\ left = [t \in Tasks |-> {}]
    /\ at = [t \in Tasks |-> None] /\ result = [t \in Tasks |-> "none"]
    /\ live = [t \in Tasks |-> FALSE] /\ woke = [t \in Tasks |-> "Ready"]
    /\ cancelled = [t \in Tasks |-> FALSE]
    /\ got = [w \in Workers |-> {}]

\* A worker takes up a task, or its events, only with nothing else at hand.
Free(w) == got[w] = {} /\ \A t \in Tasks : at[t] # w

Goto(t, p, ss) ==
    /\ pc' = [pc EXCEPT ![t] = p]
    /\ left' = [left EXCEPT ![t] = ss]
    /\ UNCHANGED <<kind, wants, at, result>>

Finish(t, r) ==
    /\ pc' = [pc EXCEPT ![t] = "idle"] /\ kind' = [kind EXCEPT ![t] = "none"]
    /\ wants' = [wants EXCEPT ![t] = {}] /\ left' = [left EXCEPT ![t] = {}]
    /\ at' = [at EXCEPT ![t] = None] /\ result' = [result EXCEPT ![t] = r]

\* An accept failed with r, unless the listener turns out to be closed.
Settling(t, s, r) ==
    /\ pc' = [pc EXCEPT ![t] = "settles"]
    /\ left' = [left EXCEPT ![t] = {s}]
    /\ result' = [result EXCEPT ![t] = r]
    /\ UNCHANGED <<kind, wants>>

Wake(ts, how) ==
    /\ live' = [t \in Tasks |-> live[t] /\ t \notin ts]
    /\ woke' = [t \in Tasks |-> IF live[t] /\ t \in ts THEN how ELSE woke[t]]
    /\ UNCHANGED cancelled

-----------------------------------------------------------------------------
(* The kernel (external).                                                  *)

Watchers(c) == {w \in Workers : fd[c] # None /\ queue[w][fd[c]] = c}

\* A peer sends, connects, closes or makes room.
BecomesReady(c, d) ==
    /\ life[c] = "open" /\ ~dead[c] /\ d \notin ready[c] /\ <<c, d>> \in Sources
    /\ ready' = [ready EXCEPT ![c] = @ \cup {d}]
    /\ edge' = [w \in Workers |-> IF w \in Watchers(c) THEN [edge[w] EXCEPT ![fd[c]] = TRUE] ELSE edge[w]]
    /\ UNCHANGED <<fd, life, dead, queue, states, conns, calls, waits, got>>

\* What a queue reports of a socket; a placeholder reports that it hung up.
Reports(c) == IF dead[c] THEN Dirs ELSE ready[c]

\* Under the numbers in fs a queue watches nothing any more, or it watches c.
Unwatch(q, fs) == [f \in Fds |-> IF f \in fs THEN None ELSE q[f]]
Quiet(e, fs) == [f \in Fds |-> e[f] /\ f \notin fs]

-----------------------------------------------------------------------------
(* A socket is made and, when Roc lets its handle go, dropped: the fields  *)
(* of Conn in their order, `reg` and then `io`.                            *)

Open(c, f) ==
    /\ life[c] = "new" /\ \A o \in Conns : life[o] \in {"open", "entry", "io"} => fd[o] # f
    /\ life' = [life EXCEPT ![c] = "open"]
    /\ fd' = [fd EXCEPT ![c] = f]
    /\ UNCHANGED <<ready, dead, queue, edge, states, conns, calls, waits, got>>

Used(c) == \E t \in Tasks : c \in {s[1] : s \in wants[t]}

\* Drop for IoReg: first out of the owner's queue, by its number ...
DropReg(c) ==
    /\ life[c] = "open" /\ ~Used(c)
    /\ life' = [life EXCEPT ![c] = "entry"]
    /\ queue' = [w \in Workers |-> IF w = owner[c] THEN Unwatch(queue[w], {fd[c]}) ELSE queue[w]]
    /\ edge' = [w \in Workers |-> IF w = owner[c] THEN Quiet(edge[w], {fd[c]}) ELSE edge[w]]
    /\ UNCHANGED <<fd, ready, dead, states, conns, calls, waits, got>>

\* ... then out of the table.
DropEntry(c) ==
    /\ life[c] = "entry"
    /\ life' = [life EXCEPT ![c] = "io"]
    /\ table' = [k \in Keys |-> IF k = key[c] /\ table[k] = c THEN None ELSE table[k]]
    /\ UNCHANGED <<fd, ready, dead, queue, edge, key, owner, refuses, waiters, conns, calls, waits, got>>

\* The descriptor closes, every queue forgets it, and so does the model.
DropIo(c) ==
    /\ life[c] = "io"
    /\ life' = [life EXCEPT ![c] = "gone"] /\ fd' = [fd EXCEPT ![c] = None]
    /\ queue' = [w \in Workers |-> IF w \in Watchers(c) THEN Unwatch(queue[w], {fd[c]}) ELSE queue[w]]
    /\ edge' = [w \in Workers |-> IF w \in Watchers(c) THEN Quiet(edge[w], {fd[c]}) ELSE edge[w]]
    /\ ready' = [ready EXCEPT ![c] = {}] /\ dead' = [dead EXCEPT ![c] = FALSE]
    /\ key' = [key EXCEPT ![c] = None] /\ owner' = [owner EXCEPT ![c] = None]
    /\ refuses' = [refuses EXCEPT ![c] = FALSE] /\ waiters' = [waiters EXCEPT ![c] = {}]
    /\ closed' = [closed EXCEPT ![c] = FALSE]
    /\ UNCHANGED <<table, closer, calls, waits, got>>

\* IoReg::state: the table entry is made at the first wait (or close).
Enter(c) ==
    IF key[c] # None
        THEN UNCHANGED <<key, table>>
        ELSE \E k \in {k \in Keys : table[k] = None} :
                 /\ key' = [key EXCEPT ![c] = k]
                 /\ table' = [table EXCEPT ![k] = c]

-----------------------------------------------------------------------------
(* A call: Conn::retry with wait_io, accept_retrying around it, or a       *)
(* Select's polls and select_wait!.                                        *)

\* What a Select with two arms is about.
Pairs == {ss \in SUBSET Sources : Cardinality(ss) = 2}

Call(t, w, k, ss) ==
    /\ \A s \in ss : life[s[1]] = "open"
    /\ pc' = [pc EXCEPT ![t] = "polls"] /\ kind' = [kind EXCEPT ![t] = k]
    /\ wants' = [wants EXCEPT ![t] = ss] /\ left' = [left EXCEPT ![t] = ss]
    /\ at' = [at EXCEPT ![t] = w] /\ result' = [result EXCEPT ![t] = "none"]
    /\ UNCHANGED <<kernel, states, conns, waits, got>>

Calls(t, w) ==
    /\ pc[t] = "idle" /\ Free(w)
    /\ \/ \E s \in Sources : Call(t, w, IF s[1] \in Listeners THEN "accept" ELSE "retry", {s})
       \/ MaySelect /\ \E ss \in Pairs : Call(t, w, "select", ss)

\* The operation succeeds, taking all there was or leaving some.
PollReady(t, s) ==
    /\ pc[t] = "polls" /\ ~dead[s[1]] /\ s[2] \in ready[s[1]]
    /\ \/ ready' = [ready EXCEPT ![s[1]] = @ \ {s[2]}]
       \/ UNCHANGED ready
    /\ Finish(t, "ok")
    /\ UNCHANGED <<fd, life, dead, queue, edge, states, conns, waits, got>>

\* An accept for which no descriptor is left naps; when the nap is over the
\* listener may be closed.
Nap(t, s) ==
    /\ pc[t] = "polls" /\ kind[t] = "accept" /\ ~dead[s[1]] /\ s[2] \in ready[s[1]]
    /\ pc' = [pc EXCEPT ![t] = "naps"] /\ at' = [at EXCEPT ![t] = None]
    /\ UNCHANGED <<kernel, states, conns, kind, wants, left, result, waits, got>>

NapEnds(t, w) ==
    /\ pc[t] = "naps" /\ Free(w)
    /\ IF cancelled[t] THEN Finish(t, "failed")
       ELSE IF \E s \in wants[t] : closed[s[1]] THEN Finish(t, "closed")
       ELSE /\ pc' = [pc EXCEPT ![t] = "polls"] /\ at' = [at EXCEPT ![t] = w]
            /\ UNCHANGED <<kind, wants, left, result>>
    /\ UNCHANGED <<kernel, states, conns, waits, got>>

\* wait_io is called with its deadline past.
PollTooLate(t, s) ==
    /\ pc[t] = "polls" /\ kind[t] = "retry" /\ s[2] \notin ready[s[1]]
    /\ Finish(t, "failed")
    /\ UNCHANGED <<kernel, states, conns, waits, got>>

\* It would block; after the last source, begin_wait.  An entry left from an
\* earlier wait of the task is nobody's from now on.
PollBlocks(t, s) ==
    /\ pc[t] = "polls" /\ ~dead[s[1]] /\ s[2] \notin ready[s[1]]
    /\ IF left[t] # {s}
         THEN Goto(t, "polls", left[t] \ {s}) /\ UNCHANGED <<waiters, waits>>
         ELSE /\ Goto(t, "watches", wants[t])
              /\ waiters' = [c \in Conns |-> {<<IF x[1] = t THEN None ELSE x[1], x[2]>> : x \in waiters[c]}]
              /\ live' = [live EXCEPT ![t] = ~cancelled[t]]
              /\ woke' = [woke EXCEPT ![t] = IF cancelled[t] THEN "Cancelled" ELSE "Ready"]
              /\ UNCHANGED cancelled
    /\ UNCHANGED <<kernel, key, table, owner, refuses, conns, got>>

\* The socket has been replaced: closed, if the flag says so already, or an
\* error that the close in progress will have to explain.
PollDead(t, s) ==
    /\ pc[t] = "polls" /\ dead[s[1]]
    /\ IF closed[s[1]] THEN Finish(t, "closed") ELSE Settling(t, s, "failed") /\ UNCHANGED at
    /\ UNCHANGED <<kernel, states, conns, waits, got>>

\* Conn::closed_settled waits, with its thread, for a close to be over.  As a
\* mutant, is_closed, which does not.
SettleUnsettled(t) ==
    /\ pc[t] = "settles"
    /\ \E s \in left[t] : Finish(t, IF closed[s[1]] THEN "closed" ELSE result[t])
    /\ UNCHANGED <<kernel, states, conns, waits, got>>
Settle(t) ==
    /\ pc[t] = "settles"
    /\ \E s \in left[t] :
         /\ closer[s[1]] = None
         /\ Finish(t, IF closed[s[1]] THEN "closed" ELSE result[t])
    /\ UNCHANGED <<kernel, states, conns, waits, got>>

-----------------------------------------------------------------------------
(* watch_io, for one source; its errors end a wait_io and make a Select    *)
(* poll again.                                                             *)

\* The entries of a task's wait leave the lists of the sockets in cs.
Forget(ws, t, cs) == [c \in Conns |-> IF c \in cs THEN {x \in ws[c] : x[1] # t} ELSE ws[c]]

\* MultiWait::abandon, or wait_io's `?`, which leaves its wait as it was; the
\* entry of a wait that failed may be left behind.
WatchFails(t, s, ws) ==
    IF kind[t] = "select"
        THEN /\ Wake({t}, "Ready")
             /\ Goto(t, "polls", wants[t])
             /\ waiters' = Forget(ws, t, {x[1] : x \in wants[t] \ left[t]})
        ELSE /\ waiters' = ws
             /\ UNCHANGED waits
             /\ IF kind[t] = "accept" THEN Settling(t, s, "failed") /\ UNCHANGED at ELSE Finish(t, "failed")

Watched(t, s, ws) ==
    /\ waiters' = ws
    /\ Goto(t, IF left[t] = {s} THEN "suspends" ELSE "watches", left[t] \ {s})
    /\ UNCHANGED waits

\* The socket is closed for waiting.
WatchRefused(t, s) ==
    /\ refuses[s[1]]
    /\ Wake({t}, "Ready")
    /\ IF kind[t] = "select"
         THEN Goto(t, "polls", wants[t]) /\ waiters' = Forget(waiters, t, {x[1] : x \in wants[t] \ left[t]})
         ELSE Finish(t, "closed") /\ UNCHANGED waiters
    /\ UNCHANGED <<queue, edge, owner>>

Pushed(t, s) == [waiters EXCEPT ![s[1]] = @ \cup {<<t, s[2]>>}]

\* This worker's queue watches it, and cannot report it before the task
\* suspends.
WatchMine(t, s) ==
    /\ owner[s[1]] = at[t]
    /\ Watched(t, s, Pushed(t, s))
    /\ UNCHANGED <<queue, edge, owner>>

\* Another worker's queue watches it for another task: re-arm it there.  It is
\* not there any more if the descriptor was replaced; the error leaves the entry
\* on the list.  As a mutant, nothing is re-armed.
WatchOtherQuietly(t, s) ==
    /\ owner[s[1]] \notin {None, at[t]} /\ waiters[s[1]] # {}
    /\ Watched(t, s, Pushed(t, s))
    /\ UNCHANGED <<queue, edge, owner>>
WatchOther(t, s) ==
    LET c == s[1] IN
    /\ owner[c] \notin {None, at[t]} /\ waiters[c] # {}
    /\ IF queue[owner[c]][fd[c]] = c
         THEN /\ edge' = [edge EXCEPT ![owner[c]][fd[c]] = @ \/ Reports(c) # {}]
              /\ Watched(t, s, Pushed(t, s))
         ELSE WatchFails(t, s, Pushed(t, s)) /\ UNCHANGED edge
    /\ UNCHANGED <<queue, owner>>

\* Nobody else waits: leave the queue that watched it and watch it from here.
Register(t, s, qs, es) ==
    LET c == s[1] IN
    \/ /\ queue' = [qs EXCEPT ![at[t]][fd[c]] = c]
       /\ edge' = [es EXCEPT ![at[t]][fd[c]] = Reports(c) # {}]
       /\ owner' = [owner EXCEPT ![c] = at[t]]
       /\ Watched(t, s, Pushed(t, s))
    \/ /\ RegisterMayFail
       /\ queue' = qs /\ edge' = es
       /\ owner' = [owner EXCEPT ![c] = None]
       /\ WatchFails(t, s, waiters)
WatchHere(t, s) ==
    LET c == s[1] IN
    /\ owner[c] # at[t] /\ (owner[c] = None \/ waiters[c] = {})
    /\ Register(t, s,
           [w \in Workers |-> IF w = owner[c] THEN Unwatch(queue[w], {fd[c]}) ELSE queue[w]],
           [w \in Workers |-> IF w = owner[c] THEN Quiet(edge[w], {fd[c]}) ELSE edge[w]])

Watch(t, s) ==
    /\ pc[t] = "watches"
    /\ Enter(s[1])
    /\ \/ WatchRefused(t, s)
       \/ ~refuses[s[1]] /\ (WatchMine(t, s) \/ WatchOther(t, s) \/ WatchHere(t, s))
    /\ UNCHANGED <<fd, life, ready, dead, refuses, conns, got>>

\* wait_suspended: the worker is free for its events.
Suspend(t) ==
    /\ pc[t] = "suspends"
    /\ pc' = [pc EXCEPT ![t] = "waits"]
    /\ at' = [at EXCEPT ![t] = None]
    /\ UNCHANGED <<kernel, states, conns, kind, wants, left, result, waits, got>>

\* The wait is over, on whichever worker: its entries go, then its outcome.
Resume(t, w) ==
    /\ pc[t] = "waits" /\ ~live[t] /\ Free(w)
    /\ waiters' = Forget(waiters, t, Conns)
    /\ IF kind[t] = "accept" /\ (woke[t] # "Ready" \/ \E s \in wants[t] : closed[s[1]])
         THEN /\ \E s \in wants[t] : Settling(t, s, IF woke[t] = "Ready" THEN "closed" ELSE "failed")
              /\ at' = [at EXCEPT ![t] = w]
         ELSE IF woke[t] # "Ready"
         THEN Finish(t, "failed")
         ELSE /\ pc' = [pc EXCEPT ![t] = "polls"] /\ left' = [left EXCEPT ![t] = wants[t]]
              /\ at' = [at EXCEPT ![t] = w]
              /\ UNCHANGED <<kind, wants, result>>
    /\ woke' = [woke EXCEPT ![t] = "Ready"]
    /\ UNCHANGED <<kernel, key, table, owner, refuses, conns, live, cancelled, got>>

TimesOut(t) ==
    /\ pc[t] = "waits" /\ live[t] /\ kind[t] # "accept"
    /\ Wake({t}, "TimedOut")
    /\ UNCHANGED <<kernel, states, conns, calls, got>>

\* A cancellation before a call shows where one early in the call would.
Cancel(t) ==
    /\ ~cancelled[t] /\ pc[t] # "idle"
    /\ cancelled' = [cancelled EXCEPT ![t] = TRUE]
    /\ live' = [live EXCEPT ![t] = FALSE]
    /\ woke' = [woke EXCEPT ![t] = IF live[t] THEN "Cancelled" ELSE @]
    /\ UNCHANGED <<kernel, states, conns, calls, got>>

-----------------------------------------------------------------------------
(* poll_events.                                                            *)

\* The kernel hands out what it has to report, by token ...
Collect(w) ==
    /\ Free(w) /\ \E f \in Fds : edge[w][f]
    /\ got' = [got EXCEPT ![w] =
           {[key |-> key[queue[w][f]], conn |-> queue[w][f], dirs |-> Reports(queue[w][f])] :
                f \in {f \in Fds : edge[w][f]}}]
    /\ edge' = [edge EXCEPT ![w] = [f \in Fds |-> FALSE]]
    /\ UNCHANGED <<fd, life, ready, dead, queue, states, conns, calls, waits>>

\* ... and the waiters of the socket with that token are woken, if it is still
\* there.  As a mutant, the key alone names the socket.
HandleFor(w, e, c) ==
    /\ got' = [got EXCEPT ![w] = @ \ {e}]
    /\ IF c = None
         THEN UNCHANGED <<waiters, waits>>
         ELSE LET hit == {x \in waiters[c] : x[2] \in e.dirs} IN
                /\ waiters' = [waiters EXCEPT ![c] = @ \ hit]
                /\ Wake({x[1] : x \in hit}, "Ready")
    /\ UNCHANGED <<kernel, key, table, owner, refuses, conns, calls>>
HandleByKey(w, e) == e \in got[w] /\ HandleFor(w, e, table[e.key])
Handle(w, e) == e \in got[w] /\ HandleFor(w, e, IF table[e.key] = e.conn THEN e.conn ELSE None)

-----------------------------------------------------------------------------
(* Conn::close_now, for a listener.                                        *)

CloseNow(t, w, c) ==
    /\ pc[t] = "idle" /\ Free(w) /\ life[c] = "open" /\ closer[c] = None
    /\ IF closed[c]
         THEN Finish(t, "ok") /\ UNCHANGED closer
         ELSE /\ closer' = [closer EXCEPT ![c] = t]
              /\ pc' = [pc EXCEPT ![t] = "replaces"] /\ kind' = [kind EXCEPT ![t] = "close"]
              /\ wants' = [wants EXCEPT ![t] = {<<c, "read">>}]
              /\ at' = [at EXCEPT ![t] = w] /\ result' = [result EXCEPT ![t] = "none"]
              /\ UNCHANGED left
    /\ UNCHANGED <<kernel, states, closed, waits, got>>

Closing(t, p, c) == pc[t] = p /\ wants[t] = {<<c, "read">>}

\* No placeholder to be had.
CloseFails(t, c) ==
    /\ Closing(t, "replaces", c)
    /\ closer' = [closer EXCEPT ![c] = None]
    /\ Finish(t, "failed")
    /\ UNCHANGED <<kernel, states, closed, waits, got>>

\* dup2: the old socket is closed and leaves the queues, its number stays.
Replace(t, c) ==
    /\ Closing(t, "replaces", c)
    /\ dead' = [dead EXCEPT ![c] = TRUE]
    /\ queue' = [w \in Workers |-> Unwatch(queue[w], {fd[c]})]
    /\ edge' = [w \in Workers |-> Quiet(edge[w], {fd[c]})]
    /\ Goto(t, "marks", {})
    /\ UNCHANGED <<fd, life, ready, states, conns, waits, got>>

MarkClosed(t, c) ==
    /\ Closing(t, "marks", c)
    /\ closed' = [closed EXCEPT ![c] = TRUE]
    /\ Goto(t, "drains", {})
    /\ UNCHANGED <<kernel, states, closer, waits, got>>

\* IoReg::close.
CloseReg(t, c) ==
    /\ Closing(t, "drains", c)
    /\ Enter(c)
    /\ refuses' = [refuses EXCEPT ![c] = TRUE]
    /\ waiters' = [waiters EXCEPT ![c] = {}]
    /\ Wake({x[1] : x \in waiters[c]}, "Ready")
    /\ closer' = [closer EXCEPT ![c] = None]
    /\ Finish(t, "ok")
    /\ UNCHANGED <<kernel, owner, closed, got>>

-----------------------------------------------------------------------------

\* What a task does next once it has called.
Goes(t) ==
    \/ \E s \in left[t] :
         \/ PollReady(t, s) \/ Nap(t, s) \/ PollTooLate(t, s) \/ PollBlocks(t, s) \/ PollDead(t, s)
         \/ Watch(t, s)
    \/ Settle(t) \/ Suspend(t) \/ \E w \in Workers : Resume(t, w) \/ NapEnds(t, w)
    \/ \E c \in Listeners : CloseFails(t, c) \/ Replace(t, c) \/ MarkClosed(t, c) \/ CloseReg(t, c)

HandlesEvents(w) == Collect(w) \/ \E e \in got[w] : Handle(w, e)

SocketsNext ==
    \/ \E c \in Conns : \/ \E d \in Dirs : BecomesReady(c, d)
                        \/ \E f \in Fds : Open(c, f)
                        \/ DropReg(c) \/ DropEntry(c) \/ DropIo(c)
    \/ \E t \in Tasks : \/ \E w \in Workers : Calls(t, w) \/ \E c \in Listeners : CloseNow(t, w, c)
                        \/ Goes(t) \/ TimesOut(t) \/ Cancel(t)
    \/ \E w \in Workers : HandlesEvents(w)

SocketsSpec == SocketsInit /\ [][SocketsNext]_sockVars

-----------------------------------------------------------------------------
(* Properties.                                                             *)

\* What is still to come for a source that a task sleeps on: an event, or the
\* wake-up at the end of a close.
EventComing(c, d) ==
    \/ owner[c] # None /\ queue[owner[c]][fd[c]] = c /\ (d \in Reports(c) => edge[owner[c]][fd[c]])
    \/ \E w \in Workers : \E e \in got[w] : e.conn = c /\ d \in e.dirs
    \/ closer[c] # None /\ dead[c]

\* No task sleeps on a socket that nobody would tell it about: whatever moves
\* between workers' queues, closes or reuses a descriptor meanwhile, its entry
\* is on the list and its socket is watched, with an event to come if it is
\* ready already.
NoSourceStranded ==
    \A t \in Tasks : pc[t] = "waits" /\ live[t] =>
        \A s \in wants[t] : <<t, s[2]>> \in waiters[s[1]] /\ EventComing(s[1], s[2])

\* An event wakes only tasks that wait for the socket it is about, even when it
\* was collected before that socket closed and its key was used again.
EventsAreOwn ==
    [][\A w \in Workers, t \in Tasks : \A e \in got[w] :
           e \notin got'[w] /\ pc[t] = "waits" /\ live[t] /\ ~live'[t] => \E d \in e.dirs : <<e.conn, d>> \in wants[t]]_sockVars

\* However accepting ends once the listener's descriptor was replaced, it says
\* that the listener is closed, unless it got a connection before, or was
\* cancelled in a nap.
CloseIsSaid ==
    [][\A t \in Tasks : kind[t] = "accept" /\ kind'[t] = "none" =>
           \A s \in wants[t] : dead[s[1]] => result'[t] = "closed" \/ (pc[t] = "naps" /\ cancelled[t])]_sockVars
=============================================================================
