# roc-net, in TLA+

roc-net is a Roc platform for network programs. Its host, in Rust, runs every
Roc task as a coroutine on a few worker threads and suspends a task wherever the
Roc code would block. This directory models the host: TLA+ modules translated
from `src/src/*.rs` and, for `Task.scope!` and `Select`, from `src/platform/`;
TLC runs on small instances; and proofs that TLAPS checks. `PROJECT.json` says
for each definition which lines it stands for, lists the hazards the properties
are about, and names for each property a plausible bug that violates it.

## The parts and how they interact

Everything that waits does so through the scheduler. A task calls `begin_wait`,
leaves its waker somewhere (a `Waiters` list, a socket's registration, a timer)
and parks; whoever changes what it waits for calls `wake`. Workers run tasks
from their queues, and sleep in their pollers when there are none. On this stand
the channels, scopes, resource heaps, helper threads and sockets; on sockets the
TLS and Noise streams and the copy; beside them three host threads of their own
(standard input, signals, log). The Roc program meets all of it through hosted
functions, whose arguments the host must release and whose results it gives away.

| Module | Code | State | Actions |
|---|---|---|---|
| `TaskWake` | `sched.rs` | `state`, `wait`, `cancellable`, `cancelled`, `woke`; each thread's locals | every atomic access of `begin_wait`, `park`, `wake`, `schedule`, `cancel`, `fire_timers`, `run_task` |
| `Workers` | `sched.rs` | run queues, `INJECT`, `SLEEPING`, `SEARCHING`, `notified`, `MAIN_DONE` | `push`, `notify_idle`, `start_worker`, `Worker::run`, `park`, `steal`, `take_injected` |
| `Waiters` | `sched.rs` | a list | `add`, `remove`, `wake_one`, `wake_all`, as operators |
| `Pool` | abstract | places taken, claims, waiting list | what a `Lock`, the helper slots and heap reservations promise |
| `HelperThreads` | `sched.rs` | `BLOCKING`, each call and its thread's result | `blocking`: claim, start, result, giving up |
| `Sockets` | `sched.rs`, `sockets.rs`, `select.rs` | registrations, owners, `IO_TABLE`, each poller's edges | `wait_io`, `watch_io`, `MultiWait`, `poll_events`, retrying operations, accept, close, drop |
| `Channels` | `channels.rs`, `select.rs` | queue, closed flags, four lists | send, receive, try, Select's poll and watch, close, release, cancel, time-out |
| `ChannelPromise` | abstract | queue, pending calls | what a channel promises its users |
| `Scopes` | `tasks.rs`, `Task.roc` | `LIVE_TASKS`, results, handles, a group | spawn and its failures, finish, join, cancel, scope |
| `ResourceHeap` | `resource.rs` | slots, free stack, generations, counts | reserve, insert, get, clone, release, close, free |
| `Copy` | `copy.rs` | `Shared`, each direction's place | `copy_both`, `copy_to`, `wait_for_data`, `writing`, `fail` |
| `TlsStream` | `tls.rs`, `select.rs` | the session, three locks, `inner`, watchers | read, write, handshake, inspection, a Select's poll and watch |
| `NoiseStream` | `noise.rs` | both cipher states, `Received`, the wire | write, read, `fill_by`, `try_read`, watch |
| `Stdin` | `stdin.rs` | the queue, `wanted`, watchers, the thread | `want`, `next_line`, `try_line`, `watch`, `read_lines`, `read_line` |
| `Signals` | `signals.rs` | `PENDING`, the pipe, the queue, watchers | handler, `catch`, `read_signals`, `next`, `try_next`, `watch` |
| `LogWriter` | `log.rs` | the queue, bytes in flight, the writer | `push`, the writer's loop, `flush` |
| `RocTypes` | `roc_platform_abi.rs` | none | which references each type owns, and which its generated release function releases |
| `HostedCalls` | `net.rs`, `lib.rs`, `files.rs`, ... | none | for each hosted function, the steps on its arguments on each path |
| `RocRefs` | `roc_platform_abi.rs`, `net.rs` | blocks, counts, the call under way, other holders | a call's steps, releases, `fill_list` |

Conventions. An action is one atomic access or one critical section; modules
above the scheduler take a wake-up as one step, which `TaskWake` justifies (but
for the race of its run `scope_wait`). Memory is sequentially consistent: what
weaker orderings of the code's atomics would add is not modelled. Times are not
numbers: a deadline is none, ahead or passed, and may pass at any moment. What
the Roc program, the peers and the kernel do is left open.

The modules named `MC...` give TLC its instances. `MCChannels` adds to `Channels`
its refinement of `ChannelPromise`. `MCHost`, `MCTasks`, `MCThreads`,
`MCLive` and `MCStreams` put modules that share no state into one run: a variable `part` picks
the one that moves, with the fairness of that module's own specification.

## Runs

| Run (configuration) | Asks |
|---|---|
| `host` (`Host.cfg`) | `TaskWake`: is a task always in one place, is no wake-up and no cancel lost, does a woken or cancelled task run. `ResourceHeap`: does a lookup find its own resource, does reserving implement `Pool`. `Copy`: does a copy pass on what it takes, to the byte, and does one that failed end. `RocRefs`: are references counted, arguments alive while used, lists' bytes kept |
| `tasks` (`Tasks.cfg`) | `Scopes`: is the task limit exact, does `scope!` wait for its tasks, do waits end. `HelperThreads`: do slots have owners, do claims implement `Pool`, do calls end |
| `threads` (`Threads.cfg`) | `Workers`: is every task in one queue or hand, does `SEARCHING` cover the workers it counts. `Stdin`, `ReadLine`, `LogWriter`: do lines and log lines reach their readers, in order and within their limits |
| `workers_live` (`WorkersLive.cfg`) | `Workers`: is injected work noticed and taken, does worker 0 stop after `main!`. `Signals`: does every caught signal reach its readers. `NoiseStream`: is what is heard a prefix of what was sent, is no read missed |
| `channels` (`Channels.cfg`) | is nobody stranded, does a Select notice, does the channel implement `ChannelPromise`, its liveness included |
| `streams` (`Streams.cfg`) | `Sockets`: does no task sleep on a ready socket nobody reports, do events reach only their own socket, does a closed listener say so. `TlsStream`: is no Select and nobody at a lock left waiting. |
| `scope_wait` (`ScopeWait.cfg`) | violated: can a wait that may not be cancelled return "cancelled" |
| `searching` (`Searching.cfg`) | violated: with two notifiers, can injected work go unnoticed |
| `scope_outlived` (`ScopeOutlived.cfg`) | violated: can a task outlive its scope |
| `copy_idle` (`CopyIdle.cfg`) | violated: can a session with a write under way be reported idle |
| `stdin_start` (`StdinStart.cfg`) | violated: can a reader of standard input sleep beside something it could take |
| `tls_watch` (`TlsWatch.cfg`) | violated: is a Select that met a held `inner` always woken |

### What the violated runs show

- `scope_wait`: `wake` stores its outcome after it has claimed the wait
  (`sched.rs:170`), so the outcome can land in the task's next wait. A scope's
  uncancellable wait can thus end early, as "cancelled". `Scopes` takes a wake-up
  as one step, so its `ScopeHolds` says that a scope waits for its tasks but for
  this race: it is the one way `ScopeHolds` fails in the code, with a Select
  that the scope's task abandoned before it.
- `searching`: a worker that wakes by itself parks again between a notifier's
  claim of its sleeping bit and the notifier's count (`sched.rs:301`). `SEARCHING`
  stays at one, and injected work waits until a socket event or a timer.
- `scope_outlived`: `roc_group_close` takes the group's list once
  (`tasks.rs:322`); a task that a child starts in the scope after that is waited
  for by nobody, against `Task.roc:105`.
- `copy_idle`: `writing` counts `writing` down before it counts `progress` up
  (`copy.rs:324-325`) and `wait_for_data` reads them in the other order. A write
  that ends between the two reads is in neither, and the session times out,
  against `copy.rs:21-23`.
- `stdin_start`: `watch` asks for a line before it registers its waker
  (`stdin.rs:168-169`). When the thread cannot be started, asking queues the
  error, and the waker is registered beside it, against `stdin.rs:161-162`. It
  takes two failed starts and a second reader, which takes the first error.
- `tls_watch`: `watch` takes a held `inner` for one whose holder will wake it
  (`tls.rs:235-240`), but `server_name` and its like hold `inner` without any of
  the locks whose release wakes watchers. `NoSelectStranded`, which `streams`
  checks, leaves out exactly the Selects that met this (`misled`).

Met on the way and in no run. `Copy!CleanEndKept` does not hold and is kept in
the module with that said: between `shutdown_write` and `ended_into` the other
direction's failure resets a stream whose end was passed on. And the log's memory
is not always within its cap "give or take one line" (`log.rs:10`): where lines
are longer than the cap (4 KiB at least, against lines of up to 64 KiB), one in
flight and one queued exceed it by two. `LogStaysSmall` states the bound that
holds: the cap is exceeded only while at most one line is queued, and a batch
exceeds its limit only as a single line.

### Bounds

Each bound is a constant of its module, with a comment that names it.

- `TaskWake`: one task, two workers, two callers, three waits: a stale caller,
  a second one and a wait after the abandoned one. Tasks do not interact here.
- `Workers`: two workers, so that one steals from the other; one notifying
  thread where the count must be right, two where it goes wrong. With two, only
  one worker is ever started late, and the queue that never runs dry is main's
  yielding for ever: several late workers, and tasks that feed each other, are
  beyond these runs. Threads may fail to start in both.
- `Channels`: capacity two and two values, so that order shows, and full and
  empty are not one step apart; two tasks, each alternately sender, receiver and
  Select. Two sleepers that compete for one wake-up, or an ended waiter before a
  live one (`wake_one`'s skip), need a third task, which is beyond TLC with
  liveness: `NobodyIsStranded` is proved for any number of tasks instead.
- `Scopes`: three tasks under a limit of two, so that spawns fail.
- `RocRefs`: five counted blocks, at most two of them arguments. Each hosted
  function is called with arguments inline, static, alone in a block or shared.
- `Sockets`: two sockets after one another on one descriptor number and one key,
  two tasks, two workers, both directions.
- `TlsStream`: a reader, a writer that also inspects, a Select, two records: one
  consumed by another task and one that a Select must hear of.
- `NoiseStream`: nonces up to two and three messages, so that they run out.
- `Stdin`: two readers, three lines, two failed starts. `ReadLine`: inputs of up
  to five bytes with lines of at most two, cut everywhere, with bytes that are
  not UTF-8 and reads that fail.
- `Signals`: a pipe of one byte, so that it is full; three deliveries of two
  signals, handled on two threads at once.
- `LogWriter`: a cap of four and lines of one, two and five bytes: dropping,
  batches of one and of several lines, lines above the cap, four pushes.
- `HelperThreads`, `ResourceHeap`: two tasks for one slot, two for two; a slot is
  used twice. `Copy`: one byte a direction both ways, three bytes one way under
  each limit.

Symmetry is used in runs without liveness only. `CHECK_DEADLOCK FALSE` is set where
the program may really stop: `main!` has returned, no caller is left, the bounds on
inputs are used up, or one of the parts of a combined run has ended.

### Fairness

Weak fairness for every step of a thread or a task that is the host's own: the
system schedules threads, and workers run every queued task. Strong fairness only
for a queued task being popped (`TaskWake`), since queues are first in, first out
and stealing moves tasks between them. Deadlines and timers are fair where a
property is about calls that have one. Nothing is assumed of the program, of
peers or of the kernel: sockets need never become ready, a helper thread's work
must end only for `CallsEnd`, and `Copy` assumes of reads and writes only that an
aborted stream or a cancelled task ends them. `streams`, `threads` and
the signals and Noise parts of `workers_live` check safety only, in the form "whoever sleeps has someone coming".

## Proofs

TLAPS proves the following for every value of the constants, from the named
assumptions in the modules (sets of tasks finite where they are counted,
capacities natural and not zero, "no task" not a task).

| Module | Theorems | Inductive invariant, and why it is needed |
|---|---|---|
| `TaskWakeProofs` | `TypeSafe`, `TaskInOnePlace`, `WakeUpsReach`, `CancellationsReach`, `CancelClaimsRightly` | `PlaceInv`: types, `OnePlace`, and `StateFits`, which ties a task's state bits to where it is; a push is safe only because of the bits. `WakeInv`: `PlaceInv`; wait ids grow; a caller's locals fit its task; a claimed wait or a set `cancelled` is remembered by some caller or by the bits until the task runs |
| `ThreadsProofs` (`Workers`) | `TasksStayOnce`, `SearchingNeverWraps` | `StepInv` and `HoldInv`: what a thread's place says of the worker it aims at, of `STARTING` and of the task it holds; with them `OnceInv`, each task in one place, and `SearchInv`, which counts the workers that search and the threads that counted one in |
| `ThreadsProofs` (`Stdin`) | `LinesAreNotLost` | `StdinInv`: the lines read are those handed out and those queued, and the thread runs once started, until the input ends. Of sleeping readers it speaks once the thread has started (before, see `stdin_start`) |
| `WaitersProofs` | lemmas on `Remove`, `Popped`, `WokenByOne` | none: they are facts about lists |
| `QueuesProofs` (`Channels`) | `ChannelTypeSafe`, `EntriesStayCurrent`, `NoReceiverStranded`, `NoSenderStranded`, `SelectsNotice`, `ClosingReleases`, `NobodyIsStranded` | `ListsInv`: every entry belongs to a call under way, once, and every sleeper is listed. `SleepInv`: `ListsInv` with the four claims together; a sender that gives up on a closed channel is why one needs the other. The counting steps use cardinalities of the sets of woken tasks |
| `QueuesProofs` (`LogWriter`) | `LogIsKept`, `LogIsBounded`, `FlushIsTrue` | `LogInv`: every line pushed is written, in the batch, queued or counted as dropped; a writer that waits has nothing to write or a notification coming |
| `PoolProofs` | `PoolIsSound` | `PoolInv`: a free place is missed only through the list, so the list's part is needed |
| `ScopeThreadProofs` (`Scopes`) | `ScopesTypeSafe`, `SlotsStayCounted`, `NobodyWaitsInVain`, `ScopeWaitsForItsGroup` | `ScopesInv`: who is counted is who is being started or runs; nobody is on a finished task's list; what the closing scope still has to wait for |
| `ScopeThreadProofs` (`HelperThreads`) | `SlotsAreOwned`, `ResultsAreNoticed`, `ClaimsImplementPool`, `NoClaimIsStranded` | `CallInv`: each thread belongs to one call and each watcher to the call that waits for it. Every step of a call is a step of `Pool` or a stutter, so the pool's theorem carries over |
| `ResourceHeapProofs` | `LookupsAreRight`, `HeapIsTyped`, `ReservingImplementsPool` | `HeapInv`: a slot is free, or one call has it alone, or Roc holds references to it and all calls that use it mean the same resource (`SlotHeld`). `RoomInv`: who is on the waiting list, for the mapping to `Pool` |
| `StreamsProofs` (`Signals`) | `SignalsAreNotLost` | `SigInv`: handlers run only for caught signals, signals are caught only once the pipe is there, and the thread holds drained signals only on its way to queue them |
| `StreamsProofs` (`NoiseStream`) | `BytesInOrder`, `NoSelectMissesARead` | `OrderInv`: what was decrypted, handed out or left over, is a prefix of what was sealed, and ends at the next message to open unless the stream failed. `WatchInv`: a task that looks at what was received holds the read lock, and a Select that sleeps is on the list that its release wakes |
| `StreamsProofs` (`TlsStream`) | `TlsWaitsAreShort`, `SelectIsWoken` | `LockInv`: who holds a lock is at a step that has it. `SelInv`: for one Select, who is going to wake it while there is something to take |

Only model-checked:

- liveness, which the prover does not reach: `WokenRuns`, `CancelledRuns`,
  `WaitsEnd`, `CallsEnd`, `InjectedIsTaken`, `MainStops`, `FailureEndsCopy`,
  `KeepsPromise`; and `Implements`, the refinement of `ChannelPromise`;
- `InjectedIsNoticed`, which fails with two notifiers and so is no theorem;
- `NoSelectStranded` for several Selects (the theorem is for one);
- every property of `Sockets`, `Copy` and `RocRefs`, and `ReadLine`, whose
  reference definition is recursive.

## Not modelled

- Text: formatting of log lines and dates, error messages, addresses.
- Libraries and the kernel: rustls, the ciphers, the poller and sockets are
  modelled by what the host sees of them. The Noise handshake is Roc code.
- TLS configurations and certificates: read once, then handed to rustls.
- Files, random numbers, time, name lookup, socket options: one system call
  each, with no state the host shares; their use of arguments is in
  `HostedCalls`, their waiting in `HelperThreads`.
- Connecting to several addresses in turn, host-only tasks, nested scopes, a
  Select's arm on a task, the logging of an unjoined task's error.
- Most of `roc_platform_abi.rs`, generated glue of some 9,000 lines. `RocTypes`
  models of each type which references it owns (its enum and payload union, or
  its fields) and what its release function visits. The constructors,
  accessors, layout assertions and 32-bit variants are left out and not mapped.
  A hosted function's results are released by the compiled Roc code, which is
  not here; the model has it follow the glue's `decref`, which the host itself
  never calls for them. What a closure has captured, released by its own
  `on_drop`, is left out: a closure is one block.
- The allocator; start-up.
- `take_injected` takes its share of `INJECT` and adds it to the worker's queue
  in one step of the model; the comment at `Workers!TakeInjected` says why nobody
  can tell.
- `limits.rs`: the values are constants of the modules. `Framing.roc` and
  `Bytes.roc`: pure Roc code that the host never calls.
