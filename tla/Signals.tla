------------------------------ MODULE Signals ------------------------------
(***************************************************************************)
(* OS signals as values (src/signals.rs).  A signal's handler may run at    *)
(* any moment on any thread, so it only sets a bit and writes a byte to a   *)
(* pipe; a thread of the host reads the pipe, takes the bits and queues     *)
(* their codes, where tasks find them.  Handler, thread and tasks share the *)
(* bits and the pipe without a lock: each access is a step of its own.      *)
(***************************************************************************)
EXTENDS Naturals, Sequences

CONSTANTS
    NumSignals,      \* SIGNALS.len()
    SignalThreads,   \* the threads a signal may be handled on
    SignalTasks,     \* the tasks that wait for a signal
    PipeSize,        \* the bytes the pipe holds
    MaxDeliveries    \* bound: signals delivered

ASSUME SignalsAssumption == NumSignals \in Nat /\ PipeSize \in Nat \ {0} /\ MaxDeliveries \in Nat

(* The indices of SIGNALS, each caught or not.                             *)
Codes == 0..(NumSignals - 1)

(* A thread runs one handler of a code at a time: the kernel blocks the     *)
(* signal there meanwhile, and may have another thread handle it.           *)
Handlers == Codes \X SignalThreads

VARIABLES
    pendingBits,     \* PENDING, as the set of codes whose bit is set
    pipeWrite,       \* PIPE_WRITE holds the pipe's write end (is not -1)
    pipeBytes,       \* the bytes in the pipe
    caught,          \* State.caught
    catching,        \* catch: "no", "pipe" (made, its thread started), "rest"
    handlersAt,      \* each handler: "none", "sets", "writes"
    drainAt,         \* read_signals: "none", "reads", "swaps", "queues"
    drained,         \* its local `pending`
    signals,         \* State.queue
    signalWatchers,  \* State.watchers
    nextAt,          \* each task in next: "idle", "tries", "watches", "sleeps"
    deliveries,      \* signals delivered so far
    unseen           \* the codes delivered since a task last received them

sigVars == <<pendingBits, pipeWrite, pipeBytes, caught, catching, handlersAt, drainAt, drained,
             signals, signalWatchers, nextAt, deliveries, unseen>>

SigInit ==
    /\ pendingBits = {} /\ pipeWrite = FALSE /\ pipeBytes = 0 /\ caught = {} /\ catching = "no"
    /\ handlersAt = [h \in Handlers |-> "none"] /\ drainAt = "none" /\ drained = {}
    /\ signals = <<>> /\ signalWatchers = {}
    /\ nextAt = [t \in SignalTasks |-> "idle"] /\ deliveries = 0 /\ unseen = {}

(* catch: the pipe and its thread, then PIPE_WRITE, then each handler.      *)
MakePipe ==
    /\ catching = "no" /\ catching' = "pipe" /\ drainAt' = "reads"
    /\ UNCHANGED <<pendingBits, pipeWrite, pipeBytes, caught, handlersAt, drained, signals, signalWatchers,
                   nextAt, deliveries, unseen>>

StorePipe ==
    /\ catching = "pipe" /\ catching' = "rest" /\ pipeWrite' = TRUE
    /\ UNCHANGED <<pendingBits, pipeBytes, caught, handlersAt, drainAt, drained, signals, signalWatchers,
                   nextAt, deliveries, unseen>>

(* A plausible bug: the handlers are installed while PIPE_WRITE is still -1. *)
CatchAnyTime(c) ==
    /\ c \notin caught /\ caught' = caught \cup {c}
    /\ UNCHANGED <<pendingBits, pipeWrite, pipeBytes, catching, handlersAt, drainAt, drained, signals,
                   signalWatchers, nextAt, deliveries, unseen>>

Catch(c) ==
    /\ catching = "rest"
    /\ c \notin caught /\ caught' = caught \cup {c}
    /\ UNCHANGED <<pendingBits, pipeWrite, pipeBytes, catching, handlersAt, drainAt, drained, signals,
                   signalWatchers, nextAt, deliveries, unseen>>

(* The kernel delivers a signal: handler h starts.                          *)
DeliverSignal(h) ==
    /\ h[1] \in caught /\ handlersAt[h] = "none" /\ deliveries < MaxDeliveries
    /\ deliveries' = deliveries + 1
    /\ handlersAt' = [handlersAt EXCEPT ![h] = "sets"]
    /\ unseen' = unseen \cup {h[1]}
    /\ UNCHANGED <<pendingBits, pipeWrite, pipeBytes, caught, catching, drainAt, drained, signals,
                   signalWatchers, nextAt>>

SetPending(h) ==
    /\ handlersAt[h] = "sets"
    /\ pendingBits' = pendingBits \cup {h[1]}
    /\ handlersAt' = [handlersAt EXCEPT ![h] = "writes"]
    /\ UNCHANGED <<pipeWrite, pipeBytes, caught, catching, drainAt, drained, signals, signalWatchers,
                   nextAt, deliveries, unseen>>

(* A full pipe takes no byte: it "already holds a wake-up for the reader".  *)
WriteByte(h) ==
    /\ handlersAt[h] = "writes"
    /\ pipeBytes' = IF pipeWrite /\ pipeBytes < PipeSize THEN pipeBytes + 1 ELSE pipeBytes
    /\ handlersAt' = [handlersAt EXCEPT ![h] = "none"]
    /\ UNCHANGED <<pendingBits, pipeWrite, caught, catching, drainAt, drained, signals, signalWatchers,
                   nextAt, deliveries, unseen>>

(* read_signals: a read takes some of the bytes, and may be interrupted     *)
(* with none; the bits are taken after it.                                  *)
ReadPipe ==
    /\ drainAt = "reads"
    /\ \/ \E n \in 1..pipeBytes : pipeBytes' = pipeBytes - n
       \/ UNCHANGED pipeBytes
    /\ drainAt' = "swaps"
    /\ UNCHANGED <<pendingBits, pipeWrite, caught, catching, handlersAt, drained, signals, signalWatchers,
                   nextAt, deliveries, unseen>>

SwapPending ==
    /\ drainAt = "swaps"
    /\ drained' = pendingBits /\ pendingBits' = {}
    /\ drainAt' = IF pendingBits = {} THEN "reads" ELSE "queues"
    /\ UNCHANGED <<pipeWrite, pipeBytes, caught, catching, handlersAt, signals, signalWatchers,
                   nextAt, deliveries, unseen>>

IsQueued(c) == \E i \in 1..Len(signals) : signals[i] = c

(* A signal already queued is not queued again, the others are in the order *)
(* of their bits; all watchers are woken.                                   *)
QueueSignals ==
    /\ drainAt = "queues"
    /\ LET new == {c \in drained : ~IsQueued(c)}
       IN  \E n \in 0..NumSignals : \E s \in [1..n -> new] :
             /\ \A c \in new : \E i \in DOMAIN s : s[i] = c
             /\ \A i, j \in DOMAIN s : i < j => s[i] < s[j]
             /\ signals' = signals \o s
    /\ signalWatchers' = {} /\ drained' = {} /\ drainAt' = "reads"
    /\ UNCHANGED <<pendingBits, pipeWrite, pipeBytes, caught, catching, handlersAt, nextAt, deliveries, unseen>>

NextGoes(t, s) == nextAt' = [nextAt EXCEPT ![t] = s]

CallNext(t) ==
    /\ nextAt[t] = "idle" /\ NextGoes(t, "tries")
    /\ UNCHANGED <<pendingBits, pipeWrite, pipeBytes, caught, catching, handlersAt, drainAt, drained, signals,
                   signalWatchers, deliveries, unseen>>

TryNext(t) ==
    /\ nextAt[t] = "tries"
    /\ IF signals = <<>>
       THEN NextGoes(t, "watches") /\ UNCHANGED <<signals, unseen>>
       ELSE /\ signals' = Tail(signals)
            /\ unseen' = unseen \ {Head(signals)}
            /\ NextGoes(t, "idle")
    /\ UNCHANGED <<pendingBits, pipeWrite, pipeBytes, caught, catching, handlersAt, drainAt, drained,
                   signalWatchers, deliveries>>

WatchSignals(t) ==
    /\ nextAt[t] = "watches"
    /\ IF signals # <<>>
       THEN NextGoes(t, "tries") /\ UNCHANGED signalWatchers
       ELSE NextGoes(t, "sleeps") /\ signalWatchers' = signalWatchers \cup {t}
    /\ UNCHANGED <<pendingBits, pipeWrite, pipeBytes, caught, catching, handlersAt, drainAt, drained, signals,
                   deliveries, unseen>>

(* Woken (its waker left the list) or cancelled (next returns None).        *)
NextWakes(t) ==
    /\ nextAt[t] = "sleeps"
    /\ \/ t \notin signalWatchers /\ NextGoes(t, "tries")
       \/ NextGoes(t, "idle")
    /\ signalWatchers' = signalWatchers \ {t}
    /\ UNCHANGED <<pendingBits, pipeWrite, pipeBytes, caught, catching, handlersAt, drainAt, drained, signals,
                   deliveries, unseen>>

Handles(h) == DeliverSignal(h) \/ SetPending(h) \/ WriteByte(h)
Drains == ReadPipe \/ SwapPending \/ QueueSignals
NextStep(t) == CallNext(t) \/ TryNext(t) \/ WatchSignals(t) \/ NextWakes(t)

SigNext ==
    \/ MakePipe \/ StorePipe \/ \E c \in Codes : Catch(c)
    \/ \E h \in Handlers : Handles(h)
    \/ Drains
    \/ \E t \in SignalTasks : NextStep(t)

SigSpec == SigInit /\ [][SigNext]_sigVars

SigTypeOK ==
    /\ pendingBits \subseteq Codes /\ drained \subseteq Codes /\ caught \subseteq Codes
    /\ pipeBytes \in 0..PipeSize /\ signals \in Seq(Codes)
    /\ handlersAt \in [Handlers -> {"none", "sets", "writes"}]
    /\ nextAt \in [SignalTasks -> {"idle", "tries", "watches", "sleeps"}]

(* A signal no task has received since it was delivered is never lost on    *)
(* its way to one, however the handlers, the thread, the tasks and a full   *)
(* pipe interleave: a handler is about to set its bit, or the bit is set    *)
(* and a byte is in the pipe (or about to be, or the thread is past its     *)
(* read), or the thread has taken the bit, or it is queued, and then no     *)
(* task sleeps in next.                                                     *)
SignalsArrive ==
    \A c \in unseen :
        \/ \E h \in Handlers : h[1] = c /\ handlersAt[h] = "sets"
        \/ c \in pendingBits
           /\ (pipeBytes > 0 \/ drainAt = "swaps" \/ \E h \in Handlers : handlersAt[h] = "writes")
        \/ c \in drained
        \/ IsQueued(c) /\ signalWatchers = {}
=============================================================================
