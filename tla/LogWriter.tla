----------------------------- MODULE LogWriter -----------------------------
(***************************************************************************)
(* The log (src/log.rs): tasks push formatted lines into a bounded queue    *)
(* and never wait; one thread of the host takes them in batches and writes  *)
(* them to stderr.  The queue is under a mutex, so push, the writer's take  *)
(* and each look of flush are one step; a pusher's notify comes after it    *)
(* has unlocked, and is a step of its own.                                  *)
(***************************************************************************)
EXTENDS Naturals, Sequences

CONSTANTS
    Cap,             \* log_buffer_bytes
    BatchMax,        \* batch_max: a sixteenth of the cap (or 4 KiB)
    Sizes,           \* bound: the sizes lines have
    MaxPushes        \* bound: lines logged

ASSUME LogAssumption == Cap \in Nat /\ BatchMax \in Nat /\ Sizes \subseteq Nat \ {0}

VARIABLES
    logLines,        \* Queue.lines, each as [id, size]
    queuedBytes,     \* Queue.queued
    inFlight,        \* Queue.in_flight
    dropped,         \* Queue.dropped
    logWriting,      \* Queue.writing
    logSleeping,     \* Queue.sleeping
    writerAt,        \* the thread: "none", "failed" (to start), "takes", "waits", "writes"
    batch,           \* the lines the writer has taken and not written
    report,          \* the drops it will report before them
    notifies,        \* pushers that have still to notify `ready`
    pushed,          \* lines pushed so far (the id of the last one)
    written,         \* the lines written, in order
    reported,        \* the drops reported
    flushAt,         \* flush: "no", "looks", "waits", "flushed", "late"
    flushFrom        \* pushed, when flush was called

logVars == <<logLines, queuedBytes, inFlight, dropped, logWriting, logSleeping, writerAt, batch, report,
             notifies, pushed, written, reported, flushAt, flushFrom>>

LogInit ==
    /\ logLines = <<>> /\ queuedBytes = 0 /\ inFlight = 0 /\ dropped = 0
    /\ logWriting = FALSE /\ logSleeping = FALSE
    /\ writerAt = "none" /\ batch = <<>> /\ report = 0
    /\ notifies = 0 /\ pushed = 0 /\ written = <<>> /\ reported = 0
    /\ flushAt = "no" /\ flushFrom = 0

(* The bytes of the first n lines of s, for each n, and of all of them.     *)
Sums(s) == LET sum[n \in 0..Len(s)] == IF n = 0 THEN 0 ELSE sum[n - 1] + s[n].size IN sum
BytesOf(s) == Sums(s)[Len(s)]

(* A plausible bug: what the writer has taken is not counted.               *)
FitsQueued(s) == BytesOf(s) <= Cap \/ Len(s) <= 1

Fits(s) == BytesOf(s) + inFlight <= Cap \/ Len(s) <= 1

(* The lines of s that stay: the longest suffix that fits.                  *)
KeptOf(s) ==
    LET drops == {n \in 0..Len(s) : Fits(SubSeq(s, n + 1, Len(s)))}
        n == CHOOSE n \in drops : \A m \in drops : n <= m
    IN  SubSeq(s, n + 1, Len(s))

(* push, its part under the lock.  The first one starts the writer, or      *)
(* fails to; a writer that sleeps is to be woken.                           *)
Push(size) ==
    /\ pushed < MaxPushes
    /\ pushed' = pushed + 1
    /\ \/ writerAt = "none" /\ writerAt' \in {"takes", "failed"}
       \/ writerAt # "none" /\ UNCHANGED writerAt
    /\ LET all == Append(logLines, [id |-> pushed', size |-> size])
       IN  /\ logLines' = KeptOf(all)
           /\ dropped' = dropped + Len(all) - Len(KeptOf(all))
    /\ queuedBytes' = BytesOf(logLines')
    /\ logSleeping' = FALSE
    /\ notifies' = IF logSleeping THEN notifies + 1 ELSE notifies
    /\ UNCHANGED <<inFlight, logWriting, batch, report, written, reported, flushAt, flushFrom>>

(* SINK.ready.notify_one: wakes the writer if it waits.                     *)
NotifyReady ==
    /\ notifies > 0 /\ notifies' = notifies - 1
    /\ writerAt' = IF writerAt = "waits" THEN "takes" ELSE writerAt
    /\ UNCHANGED <<logLines, queuedBytes, inFlight, dropped, logWriting, logSleeping, batch, report, pushed,
                   written, reported, flushAt, flushFrom>>

(* A wait on a condition variable may also end by itself.                   *)
WakesAlone ==
    /\ \/ writerAt = "waits" /\ writerAt' = "takes" /\ UNCHANGED flushAt
       \/ flushAt = "waits" /\ flushAt' = "looks" /\ UNCHANGED writerAt
    /\ UNCHANGED <<logLines, queuedBytes, inFlight, dropped, logWriting, logSleeping, batch, report, notifies,
                   pushed, written, reported, flushFrom>>

NothingToWrite == logLines = <<>> /\ dropped = 0

WaitReady ==
    /\ writerAt = "takes" /\ NothingToWrite
    /\ writerAt' = "waits" /\ inFlight' = 0 /\ logWriting' = FALSE /\ logSleeping' = TRUE
    /\ flushAt' = IF flushAt = "waits" THEN "looks" ELSE flushAt
    /\ UNCHANGED <<logLines, queuedBytes, dropped, batch, report, notifies, pushed, written, reported, flushFrom>>

(* The oldest lines, up to batch_max bytes and at least one.                *)
BatchOf(s) ==
    LET fits == {n \in 0..Len(s) : n <= 1 \/ BytesOf(SubSeq(s, 1, n)) <= BatchMax}
        n == CHOOSE n \in fits : \A m \in fits : m <= n
    IN  SubSeq(s, 1, n)

(* A plausible bug: `writing` is not set, so flush takes lines that are     *)
(* being written for lines written.                                         *)
TakeUnmarked ==
    /\ writerAt = "takes" /\ ~NothingToWrite
    /\ batch' = BatchOf(logLines) /\ report' = dropped
    /\ logLines' = SubSeq(logLines, Len(batch') + 1, Len(logLines))
    /\ queuedBytes' = queuedBytes - BytesOf(batch') /\ inFlight' = BytesOf(batch')
    /\ dropped' = 0 /\ logSleeping' = FALSE /\ writerAt' = "writes"
    /\ UNCHANGED <<logWriting, notifies, pushed, written, reported, flushAt, flushFrom>>

TakeBatch ==
    /\ writerAt = "takes" /\ ~NothingToWrite
    /\ batch' = BatchOf(logLines) /\ report' = dropped
    /\ logLines' = SubSeq(logLines, Len(batch') + 1, Len(logLines))
    /\ queuedBytes' = queuedBytes - BytesOf(batch') /\ inFlight' = BytesOf(batch')
    /\ dropped' = 0 /\ logSleeping' = FALSE /\ logWriting' = TRUE /\ writerAt' = "writes"
    /\ UNCHANGED <<notifies, pushed, written, reported, flushAt, flushFrom>>

(* A plausible bug: the count of drops is cleared when the report is        *)
(* written, with the drops made while it was.                               *)
WriteThenClear ==
    /\ writerAt = "writes"
    /\ written' = written \o batch
    /\ reported' = reported + report /\ batch' = <<>> /\ report' = 0 /\ dropped' = 0
    /\ writerAt' = "takes"
    /\ UNCHANGED <<logLines, queuedBytes, inFlight, logWriting, logSleeping, notifies, pushed, flushAt, flushFrom>>

(* The write, with the report of the drops first, and the pause after it.   *)
WriteBatch ==
    /\ writerAt = "writes"
    /\ written' = written \o batch
    /\ reported' = reported + report /\ batch' = <<>> /\ report' = 0
    /\ writerAt' = "takes"
    /\ UNCHANGED <<logLines, queuedBytes, inFlight, dropped, logWriting, logSleeping, notifies, pushed,
                   flushAt, flushFrom>>

(* flush, once main! has returned: it looks, and waits on `idle`.           *)
FlushStarts ==
    /\ flushAt = "no"
    /\ flushAt' = "looks" /\ flushFrom' = pushed
    /\ UNCHANGED <<logLines, queuedBytes, inFlight, dropped, logWriting, logSleeping, writerAt, batch, report,
                   notifies, pushed, written, reported>>

FlushLooks ==
    /\ flushAt = "looks"
    /\ flushAt' \in IF NothingToWrite /\ ~logWriting THEN {"flushed"} ELSE {"waits", "late"}
    /\ UNCHANGED <<logLines, queuedBytes, inFlight, dropped, logWriting, logSleeping, writerAt, batch, report,
                   notifies, pushed, written, reported, flushFrom>>

LogNext ==
    \/ \E n \in Sizes : Push(n)
    \/ NotifyReady \/ WakesAlone \/ WaitReady \/ TakeBatch \/ WriteBatch \/ FlushStarts \/ FlushLooks

LogSpec == LogInit /\ [][LogNext]_logVars

LogLine == [id : Nat, size : Nat]

LogTypeOK ==
    /\ logLines \in Seq(LogLine) /\ batch \in Seq(LogLine) /\ written \in Seq(LogLine)
    /\ queuedBytes = BytesOf(logLines) /\ inFlight \in Nat /\ (batch # <<>> => inFlight = BytesOf(batch))
    /\ dropped \in Nat /\ report \in Nat /\ reported \in Nat /\ notifies \in Nat
    /\ pushed \in Nat /\ flushFrom \in Nat
    /\ writerAt \in {"none", "failed", "takes", "waits", "writes"}
    /\ flushAt \in {"no", "looks", "waits", "flushed", "late"}

(* The lines written, being written and queued.                             *)
Logged == (written \o batch) \o logLines
InOrder(s) == \A i, j \in 1..Len(s) : i < j => s[i].id < s[j].id

(* Every line logged is written, being written, queued or counted as        *)
(* dropped, and what is written is in the order it was logged, however the  *)
(* pushes fall between the writer's batches; and the writer never sleeps on *)
(* them: while it waits with something queued, a pusher is about to notify  *)
(* it (push notifies only a writer that said it sleeps, after unlocking).   *)
LinesAccountedFor ==
    /\ InOrder(Logged)
    /\ Len(Logged) + dropped + report + reported = pushed
    /\ writerAt = "waits" /\ ~NothingToWrite => notifies > 0

(* Lines queued plus the batch being written, stuck on a stalled stderr or  *)
(* not, exceed the cap only while at most one line is queued (push keeps    *)
(* the newest whatever its size), and the batch exceeds batch_max only as a *)
(* single line.  For lines no longer than the cap that is log.rs' "give or  *)
(* take one line".  A line may be longer than the cap (64 KiB, with a cap   *)
(* of 4 KiB at least): then one can be in flight and one queued, and the    *)
(* total exceeds the cap by up to two lines.                                *)
LogStaysSmall ==
    /\ queuedBytes + inFlight <= Cap \/ Len(logLines) <= 1
    /\ inFlight <= BatchMax \/ Len(batch) <= 1

(* When flush returns before its time is up, every line logged before it    *)
(* was called is written or reported as dropped.                            *)
FlushedIsWritten == flushAt = "flushed" => Len(written) + reported >= flushFrom
=============================================================================
