------------------------------- MODULE Stdin -------------------------------
(***************************************************************************)
(* Lines of standard input (src/stdin.rs).  One thread of the host reads   *)
(* standard input, a line at a time and only when a line is wanted, and     *)
(* queues what it read; the tasks that read lines take them from the queue  *)
(* and sleep while it is empty.  Everything but the read itself happens     *)
(* under one mutex, so a step below is a critical section.  How a line is   *)
(* read from the buffers of the input is module ReadLine.                   *)
(***************************************************************************)
EXTENDS Naturals, Sequences

CONSTANTS
    StdinTasks,      \* the tasks that read lines
    MaxLines,        \* bound: lines of the input
    MaxSpawnFails    \* bound: times the thread cannot be started

ASSUME StdinAssumption == MaxLines \in Nat /\ MaxSpawnFails \in Nat

VARIABLES
    lines,           \* State.queue
    wanted,          \* State.wanted
    started,         \* State.started
    inputEnded,      \* State.ended
    lineWatchers,    \* State.watchers: the tasks whose wakers it holds
    threadAt,        \* the thread: "none", "waits" (on WANTED), "reads", "done"
    readerAt,        \* each task: "idle", "tries", "watches", "sleeps"
    linesRead,       \* how many lines the thread has read
    linesGot,        \* the lines given to the tasks, in the order they were
    spawnFails       \* how often the thread could not be started

stdinState == <<lines, wanted, started, inputEnded, lineWatchers, threadAt>>
stdinVars == <<stdinState, readerAt, linesRead, linesGot, spawnFails>>

(* What the queue holds: line n of the input (a text, or Failed or TooLong  *)
(* in its place: the queue treats the three alike), its end, or the failure *)
(* to start the thread.                                                     *)
End == 0
NoThreadErr == MaxLines + 1
Lines == 1..MaxLines

StdinInit ==
    /\ lines = <<>> /\ wanted = FALSE /\ started = FALSE /\ inputEnded = FALSE
    /\ lineWatchers = {} /\ threadAt = "none"
    /\ readerAt = [t \in StdinTasks |-> "idle"]
    /\ linesRead = 0 /\ linesGot = <<>> /\ spawnFails = 0

ReaderGoes(t, s) == readerAt' = [readerAt EXCEPT ![t] = s]

(* Ask the thread for a line, starting it the first time.  A waiting thread *)
(* is notified: it sees wanted when it next looks (TakeWanted).             *)
want ==
    \/ wanted /\ UNCHANGED <<lines, wanted, started, threadAt, spawnFails>>
    \/ ~wanted /\ started /\ wanted' = TRUE /\ UNCHANGED <<lines, started, threadAt, spawnFails>>
    \/ ~wanted /\ ~started
       /\ wanted' = TRUE /\ started' = TRUE /\ threadAt' = "waits"
       /\ UNCHANGED <<lines, spawnFails>>
    \/ ~wanted /\ ~started /\ spawnFails < MaxSpawnFails
       /\ spawnFails' = spawnFails + 1
       /\ lines' = Append(lines, NoThreadErr)
       /\ UNCHANGED <<wanted, started, threadAt>>

(* A task reads a line: it takes the first one queued.                      *)
CallNextLine(t) ==
    /\ readerAt[t] = "idle"
    /\ ReaderGoes(t, "tries")
    /\ UNCHANGED <<stdinState, linesRead, linesGot, spawnFails>>

TryLineTakes(t) ==
    /\ readerAt[t] = "tries" /\ lines # <<>>
    /\ lines' = Tail(lines)
    /\ linesGot' = IF Head(lines) \in Lines THEN Append(linesGot, Head(lines)) ELSE linesGot
    /\ ReaderGoes(t, "idle")
    /\ UNCHANGED <<wanted, started, inputEnded, lineWatchers, threadAt, linesRead, spawnFails>>

TryLineEnded(t) ==
    /\ readerAt[t] = "tries" /\ lines = <<>> /\ inputEnded
    /\ ReaderGoes(t, "idle")
    /\ UNCHANGED <<stdinState, linesRead, linesGot, spawnFails>>

TryLineWants(t) ==
    /\ readerAt[t] = "tries" /\ lines = <<>> /\ ~inputEnded
    /\ want
    /\ ReaderGoes(t, "watches")
    /\ UNCHANGED <<inputEnded, lineWatchers, linesRead, linesGot>>

WatchReady(t) ==
    /\ readerAt[t] = "watches" /\ (lines # <<>> \/ inputEnded)
    /\ ReaderGoes(t, "tries")
    /\ UNCHANGED <<stdinState, linesRead, linesGot, spawnFails>>

(* A plausible bug: watch relies on the line try_line asked for, which      *)
(* another task may have taken in the meantime.                             *)
WatchAsksNothing(t) ==
    /\ readerAt[t] = "watches" /\ lines = <<>> /\ ~inputEnded
    /\ lineWatchers' = lineWatchers \cup {t}
    /\ ReaderGoes(t, "sleeps")
    /\ UNCHANGED <<lines, wanted, started, threadAt, spawnFails, inputEnded, linesRead, linesGot>>

WatchWaits(t) ==
    /\ readerAt[t] = "watches" /\ lines = <<>> /\ ~inputEnded
    /\ want
    /\ lineWatchers' = lineWatchers \cup {t}
    /\ ReaderGoes(t, "sleeps")
    /\ UNCHANGED <<inputEnded, linesRead, linesGot>>

(* A woken task tries again (its waker left the list when it was woken); a  *)
(* cancelled one unwatches and returns without a line.                      *)
WokenTries(t) ==
    /\ readerAt[t] = "sleeps" /\ t \notin lineWatchers
    /\ ReaderGoes(t, "tries")
    /\ UNCHANGED <<stdinState, linesRead, linesGot, spawnFails>>

ReadCancelled(t) ==
    /\ readerAt[t] = "sleeps"
    /\ lineWatchers' = lineWatchers \ {t}
    /\ ReaderGoes(t, "idle")
    /\ UNCHANGED <<lines, wanted, started, inputEnded, threadAt, linesRead, linesGot, spawnFails>>

(* The thread.                                                              *)
TakeWanted ==
    /\ threadAt = "waits" /\ wanted
    /\ threadAt' = "reads"
    /\ UNCHANGED <<lines, wanted, started, inputEnded, lineWatchers, readerAt, linesRead, linesGot, spawnFails>>

QueueLine(line) ==
    /\ wanted' = FALSE
    /\ lines' = Append(lines, line)
    /\ inputEnded' = (inputEnded \/ line = End)
    /\ lineWatchers' = {}

ReadLines ==
    /\ threadAt = "reads"
    /\ \/ linesRead < MaxLines /\ linesRead' = linesRead + 1
          /\ QueueLine(linesRead') /\ threadAt' = "waits"
       \/ linesRead' = linesRead /\ QueueLine(End) /\ threadAt' = "done"
    /\ UNCHANGED <<started, readerAt, linesGot, spawnFails>>

StdinStep(t) ==
    \/ CallNextLine(t) \/ TryLineTakes(t) \/ TryLineEnded(t) \/ TryLineWants(t)
    \/ WatchReady(t) \/ WatchWaits(t) \/ WokenTries(t) \/ ReadCancelled(t)

StdinNext == (\E t \in StdinTasks : StdinStep(t)) \/ TakeWanted \/ ReadLines

StdinSpec == StdinInit /\ [][StdinNext]_stdinVars

StdinTypeOK ==
    /\ lines \in Seq(Lines \cup {End, NoThreadErr}) /\ linesGot \in Seq(Lines)
    /\ linesRead \in 0..MaxLines /\ spawnFails \in 0..MaxSpawnFails
    /\ wanted \in BOOLEAN /\ started \in BOOLEAN /\ inputEnded \in BOOLEAN
    /\ lineWatchers \subseteq StdinTasks
    /\ threadAt \in {"none", "waits", "reads", "done"}
    /\ readerAt \in [StdinTasks -> {"idle", "tries", "watches", "sleeps"}]

LineQueued(n) == \E i \in 1..Len(lines) : lines[i] = n

(* Every line the thread has read is given to a task or still queued, once  *)
(* and in the order of the input: a task cancelled while its line was being *)
(* read leaves it "to the next reader", as next_line's comment says.  And   *)
(* once the thread runs, a task that sleeps for a line has one being read   *)
(* for it, and none in the queue, whichever task's request the thread       *)
(* answered last.  (Until the thread has been started nothing is said of a  *)
(* sleeping task: WatchersFindNothing is about that case.)                  *)
LinesReachReaders ==
    /\ \A i \in 1..Len(linesGot) : linesGot[i] = i
    /\ \A n \in Lines : LineQueued(n) <=> Len(linesGot) < n /\ n <= linesRead
    /\ \A i, j \in 1..Len(lines) : i < j /\ lines[i] \in Lines /\ lines[j] \in Lines => lines[i] < lines[j]
    /\ started => \A t \in lineWatchers :
           /\ wanted /\ ~inputEnded /\ threadAt \in {"waits", "reads"}
           /\ \A n \in Lines : ~LineQueued(n)

(* A registered reader has nothing to take: watch registers it only if      *)
(* nothing is queued, and it is woken when something is.  The code breaks   *)
(* this when starting the thread fails twice: the want of try_line queues   *)
(* the first failure, another task takes it, and watch's own want queues    *)
(* the second after watch has looked and before it registers the waker,     *)
(* waking nobody.                                                           *)
WatchersFindNothing == lineWatchers # {} => lines = <<>>
=============================================================================
