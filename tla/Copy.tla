--------------------------------- MODULE Copy ---------------------------------
(***************************************************************************)
(* Pipe.copy_both! and Pipe.copy_to! (copy.rs). copy_both copies between   *)
(* streams A and B: A to B ("ab") on the calling task, B to A ("ba") on a  *)
(* helper task; copy_to copies A to B only, up to a limit, after a prefix. *)
(* Bytes are counted, not carried. The buffered loop and the splice loop   *)
(* take the same steps, so one loop stands for both. A stream's peer may   *)
(* send, end, reset or stall at any moment: what a wait, a read or a write *)
(* meets is a choice, and none of it need ever happen.                     *)
(***************************************************************************)
EXTENDS Naturals

CONSTANTS
  MaxSent,    \* bound: bytes a direction of copy_both reads
  MaxOneWay,  \* bound: bytes copy_to finds to read
  CopyLimits, \* copy_to's limits; NoLimit for none
  NoLimit

Sides == {"A", "B"}
Directions == {"ab", "ba"}
From(d) == IF d = "ab" THEN "A" ELSE "B"
To(d) == IF d = "ab" THEN "B" ELSE "A"
Other(d) == IF d = "ab" THEN "ba" ELSE "ab"

VARIABLES
  mode,                    \* "both" for copy_both, "to" for copy_to
  copyLimit,               \* copy_to's limit
  prefix,                  \* the length of copy_to's prefix
  reset, stopped, finSent, \* what was done to a stream: abort, stop_reading, shutdown_write
  progress, writers, endedInto, firstErr, \* Shared
  pos,                     \* where each direction is
  seenAt,                  \* the progress count its wait began at
  chunk,                   \* the bytes it has read and not yet passed on
  total,                   \* the bytes it has passed on
  taken,                   \* the bytes it has read
  err,                     \* the error it met
  copyCancelled,           \* the copying task has been cancelled
  lively                   \* whether the other direction was writing when its wait timed out

ends == <<reset, stopped, finSent>>
shared == <<progress, writers, endedInto, firstErr>>
loops == <<seenAt, chunk, total, taken, err>>
copyVars == <<mode, copyLimit, prefix, ends, shared, pos, loops, copyCancelled, lively>>

Each(set, v) == [x \in set |-> v]

CopyInit ==
  /\ mode \in {"both", "to"} /\ prefix \in {0, 1} /\ copyLimit \in CopyLimits
  /\ mode = "both" => prefix = 0 /\ copyLimit = NoLimit
  /\ reset = Each(Sides, FALSE) /\ stopped = Each(Sides, FALSE) /\ finSent = Each(Sides, FALSE)
  /\ progress = 0 /\ writers = 0 /\ endedInto = Each(Sides, FALSE) /\ firstErr = "none"
  /\ pos = [d \in Directions |-> IF mode = "both" THEN "spawns" ELSE
                                 IF d = "ab" THEN "prefixes" ELSE "done"]
  /\ seenAt = Each(Directions, 0) /\ chunk = Each(Directions, 0) /\ total = Each(Directions, 0)
  /\ taken = Each(Directions, 0) /\ err = Each(Directions, "none")
  /\ copyCancelled = FALSE /\ lively = Each(Directions, FALSE)

Moves(d, p) == pos' = [pos EXCEPT ![d] = p]
\* A direction's error: copy_both records it, copy_to returns it.
Errs(d, e) ==
  /\ err' = [err EXCEPT ![d] = e]
  /\ Moves(d, IF mode = "both" THEN "fails" ELSE "returned")

CancelCopy ==
  /\ ~copyCancelled /\ copyCancelled' = TRUE
  /\ UNCHANGED <<mode, copyLimit, prefix, ends, shared, pos, loops, lively>>

-----------------------------------------------------------------------------
(* wait_for_data.                                                          *)

Rest == <<mode, copyLimit, prefix, ends, copyCancelled>>

StartReadWait(d) ==
  /\ pos[d] = "starts" /\ seenAt' = [seenAt EXCEPT ![d] = progress] /\ Moves(d, "waits")
  /\ lively' = [lively EXCEPT ![d] = FALSE]
  /\ UNCHANGED <<Rest, shared, chunk, total, taken, err>>

\* Data, the end or an error arrives.
WaitFinds(d) ==
  /\ pos[d] = "waits" /\ Moves(d, "reads")
  /\ UNCHANGED <<Rest, shared, loops, lively>>

\* An aborted or stopped stream wakes its reader; so does cancelling the task.
WaitEnds(d) ==
  /\ pos[d] = "waits"
  /\ \/ (reset[From(d)] \/ stopped[From(d)]) /\ Moves(d, "reads") /\ UNCHANGED err
     \/ d = "ab" /\ copyCancelled /\ Errs(d, "Cancelled")
  /\ UNCHANGED <<Rest, shared, seenAt, chunk, total, taken, lively>>

\* The read time-out, or copy_to's deadline.
WaitTimesOut(d) ==
  /\ pos[d] = "waits"
  /\ \/ Moves(d, "asksProgress") /\ UNCHANGED err
     \/ mode = "to" /\ Errs(d, "MessageTimeout")
  /\ lively' = [lively EXCEPT ![d] = pos[Other(d)] = "writes"]
  /\ UNCHANGED <<Rest, shared, seenAt, chunk, total, taken>>

AskProgress(d) ==
  /\ pos[d] = "asksProgress"
  /\ Moves(d, IF progress # seenAt[d] THEN "starts" ELSE "asksWriting")
  /\ UNCHANGED <<Rest, shared, loops, lively>>

AskWriting(d) ==
  /\ pos[d] = "asksWriting"
  /\ IF writers > 0 THEN Moves(d, "starts") /\ UNCHANGED err ELSE Errs(d, "TimedOut")
  /\ UNCHANGED <<Rest, shared, seenAt, chunk, total, taken, lively>>

-----------------------------------------------------------------------------
(* The loop: read what there is, pass it on.                               *)

Available == IF mode = "both" THEN MaxSent ELSE MaxOneWay

\* Mutant: each read may take as much as the whole limit.
CapEachRead(d) == IF copyLimit = NoLimit THEN Available ELSE copyLimit

\* cap: no more than is left to copy up to end_at.
Cap(d) == IF copyLimit = NoLimit THEN Available ELSE prefix + copyLimit - total[d]

\* The top of the loop: at the limit or not.
Top(d, copied, p) == IF copyLimit # NoLimit /\ copied >= prefix + copyLimit THEN "returned" ELSE p

WritePrefix(d) ==
  /\ pos[d] = "prefixes"
  /\ \/ total' = [total EXCEPT ![d] = prefix] /\ Moves(d, Top(d, prefix, "starts")) /\ UNCHANGED err
     \/ prefix > 0 /\ Errs(d, "Write") /\ UNCHANGED total
     \/ prefix > 0 /\ copyCancelled /\ Errs(d, "Cancelled") /\ UNCHANGED total
  /\ UNCHANGED <<Rest, shared, seenAt, chunk, taken, lively>>

ReadSome(d) ==
  /\ pos[d] = "reads" /\ Moves(d, "counts")
  /\ \E n \in 1..Available - taken[d] :
       /\ n <= Cap(d) /\ chunk' = [chunk EXCEPT ![d] = n]
       /\ taken' = [taken EXCEPT ![d] = @ + n]
  /\ UNCHANGED <<Rest, shared, seenAt, total, err, lively>>

\* Nothing to read: an error, the end, or only nothing yet. On a stream the
\* copy has aborted or stopped there is never nothing yet.
ReadNone(d) ==
  /\ pos[d] = "reads"
  /\ \/ Errs(d, "Read")
     \/ mode = "both" /\ Moves(d, "shuts") /\ UNCHANGED err
     \/ /\ mode = "to" /\ Moves(d, "returned")
        /\ err' = [err EXCEPT ![d] = IF copyLimit = NoLimit THEN "none" ELSE "UnexpectedEof"]
     \/ ~reset[From(d)] /\ ~stopped[From(d)] /\ Moves(d, "starts") /\ UNCHANGED err
     \/ mode = "to" /\ Errs(d, "MessageTimeout")
  /\ UNCHANGED <<Rest, shared, seenAt, chunk, total, taken, lively>>

\* writing: counted, then done, then uncounted, then progress.
CountWriting(d) ==
  /\ pos[d] = "counts" /\ writers' = writers + 1 /\ Moves(d, "writes")
  /\ UNCHANGED <<Rest, progress, endedInto, firstErr, loops, lively>>

\* The stream takes it all, breaks, or times out.
WriteAll(d) ==
  /\ pos[d] = "writes" /\ Moves(d, "uncounts")
  /\ \/ ~reset[To(d)] /\ UNCHANGED err
     \/ err' = [err EXCEPT ![d] = "Write"]
  /\ UNCHANGED <<Rest, shared, seenAt, chunk, total, taken, lively>>

\* An aborted stream's writer fails; so does a cancelled task.
WriteEnds(d) ==
  /\ pos[d] = "writes" /\ Moves(d, "uncounts")
  /\ \/ reset[To(d)] /\ err' = [err EXCEPT ![d] = "Write"]
     \/ d = "ab" /\ copyCancelled /\ err' = [err EXCEPT ![d] = "Cancelled"]
  /\ UNCHANGED <<Rest, shared, seenAt, chunk, total, taken, lively>>

UncountWriting(d) ==
  /\ pos[d] = "uncounts" /\ writers' = writers - 1 /\ Moves(d, "progresses")
  /\ UNCHANGED <<Rest, progress, endedInto, firstErr, loops, lively>>

Progress(d) ==
  /\ pos[d] = "progresses" /\ progress' = progress + 1
  /\ IF err[d] # "none" THEN Errs(d, err[d]) /\ UNCHANGED total
     ELSE /\ total' = [total EXCEPT ![d] = @ + chunk[d]]
          /\ Moves(d, Top(d, total[d] + chunk[d], "reads")) /\ UNCHANGED err
  /\ chunk' = [chunk EXCEPT ![d] = 0]
  /\ UNCHANGED <<Rest, writers, endedInto, firstErr, seenAt, taken, lively>>

-----------------------------------------------------------------------------
(* direction's end, Shared::fail, and copy_both around the two directions. *)

ShutdownWrite(d) ==
  /\ pos[d] = "shuts" /\ finSent' = [finSent EXCEPT ![To(d)] = TRUE] /\ Moves(d, "marks")
  /\ UNCHANGED <<mode, copyLimit, prefix, reset, stopped, copyCancelled, shared, loops, lively>>

MarkEnded(d) ==
  /\ pos[d] = "marks" /\ endedInto' = [endedInto EXCEPT ![To(d)] = TRUE] /\ Moves(d, "done")
  /\ UNCHANGED <<Rest, progress, writers, firstErr, loops, lively>>

\* After the failure: the direction is done, or the caller waits again.
Failed(d) == IF err[d] = "joinCancelled" THEN "waitsAgain" ELSE "done"

Fail(d) ==
  /\ pos[d] = "fails"
  /\ IF firstErr = "none"
     THEN firstErr' = (IF err[d] = "joinCancelled" THEN "Cancelled" ELSE err[d]) /\ Moves(d, "abortsA")
     ELSE Moves(d, Failed(d)) /\ UNCHANGED firstErr
  /\ UNCHANGED <<Rest, progress, writers, endedInto, loops, lively>>

\* Mutant: never abort, only stop reading.
OnlyStop(s) ==
  stopped' = [stopped EXCEPT ![s] = TRUE] /\ UNCHANGED reset

\* Abort a stream, or only stop reading it if its incoming direction ended.
EndStream(s) ==
  IF endedInto[s] THEN stopped' = [stopped EXCEPT ![s] = TRUE] /\ UNCHANGED reset
  ELSE reset' = [reset EXCEPT ![s] = TRUE] /\ UNCHANGED stopped

AbortBoth(d) ==
  /\ \/ pos[d] = "abortsA" /\ EndStream("A") /\ Moves(d, "abortsB")
     \/ pos[d] = "abortsB" /\ EndStream("B") /\ Moves(d, Failed(d))
  /\ UNCHANGED <<mode, copyLimit, prefix, finSent, copyCancelled, shared, loops, lively>>

\* spawn_host: the helper starts, or the task limit is reached.
SpawnHelper(d) ==
  /\ d = "ab" /\ pos[d] = "spawns"
  /\ \/ pos' = [e \in Directions |-> "starts"] /\ UNCHANGED err
     \/ pos' = [ab |-> "returned", ba |-> "done"] /\ err' = [err EXCEPT !["ab"] = "TaskLimit"]
  /\ UNCHANGED <<Rest, shared, seenAt, chunk, total, taken, lively>>

\* wait_finished(true), and wait_finished(false) after a cancelled one.
WaitHelper(d) ==
  /\ d = "ab" /\ mode = "both"
  /\ \/ /\ pos[d] \in {"done", "waitsAgain"} /\ pos["ba"] = "done"
        /\ Moves(d, "returned") /\ UNCHANGED err
     \/ /\ pos[d] = "done" /\ pos["ba"] # "done" /\ copyCancelled
        /\ err' = [err EXCEPT ![d] = "joinCancelled"] /\ Moves(d, "fails")
  /\ UNCHANGED <<Rest, shared, seenAt, chunk, total, taken, lively>>

-----------------------------------------------------------------------------
CopyStep(d) ==
  \/ SpawnHelper(d) \/ WritePrefix(d) \/ StartReadWait(d) \/ WaitEnds(d) \/ AskProgress(d) \/ AskWriting(d)
  \/ ReadSome(d) \/ ReadNone(d) \/ CountWriting(d) \/ WriteEnds(d) \/ UncountWriting(d) \/ Progress(d)
  \/ ShutdownWrite(d) \/ MarkEnded(d) \/ Fail(d) \/ AbortBoth(d) \/ WaitHelper(d)
CopyNext ==
  \/ \E d \in Directions : CopyStep(d) \/ WaitFinds(d) \/ WaitTimesOut(d) \/ WriteAll(d)
  \/ CancelCopy
\* The tasks run; peers may stall for ever, and time-outs may never come.
CopySpec ==
  /\ CopyInit /\ [][CopyNext]_copyVars
  /\ \A d \in Directions : WF_copyVars(CopyStep(d))

-----------------------------------------------------------------------------
\* A copy passes on exactly what it takes.  copy_to never takes a byte past its
\* limit, which must stay in the stream for whatever follows; when it returns no
\* error, everything it took was passed on after the prefix and a limit was met
\* to the byte.  No direction passes an end of stream on with bytes still in hand.
CopiesWhatItTakes ==
  /\ \A d \in Directions : pos[d] = "shuts" => total[d] = taken[d]
  /\ mode = "to" /\ copyLimit # NoLimit => taken["ab"] <= copyLimit
  /\ mode = "to" /\ pos["ab"] = "returned" /\ err["ab"] = "none" =>
       /\ total["ab"] = prefix + taken["ab"]
       /\ copyLimit # NoLimit => taken["ab"] = copyLimit

\* Once a direction has failed, copy_both returns, whatever the peers do.
FailureEndsCopy == firstErr # "none" ~> pos["ab"] = "returned"

\* A read time-out that struck while the other direction was in the middle of a
\* write is never reported: the session was not idle (copy.rs:21-23).  The code
\* breaks this: writing counts `writing` down before it counts `progress` up, and
\* wait_for_data, reading `progress` first and `writing` second, can miss both.
BusyIsNotIdle ==
  [][\A d \in Directions : pos[d] = "asksWriting" /\ pos'[d] = "fails" => ~lively[d]]_copyVars

\* A stream whose incoming direction has passed its end of stream on is never
\* reset: its peer keeps what it was sent.  No run lists this, for it does not
\* hold: between shutdown_write and ended_into the other direction's fail resets
\* the stream.
CleanEndKept ==
  [][\A s \in Sides : finSent[s] /\ ~reset[s] => ~reset'[s]]_copyVars
=============================================================================
