----------------------------- MODULE NoiseStream -----------------------------
(***************************************************************************)
(* A Noise stream, from the tasks that write it at one end to the tasks    *)
(* that read it and select over it at the other: src/src/noise.rs.         *)
(*                                                                         *)
(* A frame crosses the wire in two pieces, its head and its tail, both     *)
(* named by the nonce it was sealed with; reads and writes may stop        *)
(* between pieces, and a piece may be damaged on the way.  A message holds *)
(* two bytes, which a read may take one at a time.  Opening a message      *)
(* succeeds when both of its pieces carry the receiver's nonce.            *)
(*                                                                         *)
(* The watchers of the read lock are those of TlsStream; here the mutexes  *)
(* around the cipher states are never held across a wait.                  *)
(***************************************************************************)
EXTENDS Naturals, Sequences

CONSTANTS
    NoiseReaders, NoiseWriters, NoiseSelects,
    Nobody,
    LastNonce,  \* u64::MAX
    MaxSealed   \* bound on the messages sent, past LastNonce

NoiseTasks == NoiseReaders \cup NoiseWriters \cup NoiseSelects
Damaged == LastNonce + 1

ASSUME NoiseAssumption == LastNonce \in Nat /\ MaxSealed \in Nat /\ Nobody \notin NoiseTasks

VARIABLES
    wire,       \* the pieces under way
    shut,       \* whether the sender has closed its end
    damages,    \* whether a piece was damaged
    sendNonce,  \* CipherState::nonce of the sender ...
    openNonce,  \* ... and of the receiver
    sealed,     \* the nonces of the messages sealed, in order
    ciphertext, \* Received::ciphertext
    leftOver,       \* the bytes of the last message that no read has taken
    wireEnded,  \* Received::ended
    failed,     \* Received::failed
    heard,      \* the bytes handed to readers
    reading,    \* who holds the read lock
    writing,    \* who holds the write lock
    frame,      \* what the holder has yet to write
    onWatch, newcomers, noiseAt, quiet, thence,  \* as in TlsStream
    resting, hasNews

cipher == <<sendNonce, openNonce, sealed>>
received == <<ciphertext, leftOver, wireEnded, failed, heard>>
line == <<wire, shut, damages>>
holds == <<reading, onWatch, newcomers, quiet, thence>>
rests == <<resting, hasNews>>
noiseVars == <<line, cipher, received, holds, writing, frame, noiseAt, rests>>

NoiseInit ==
    /\ wire = <<>> /\ shut = FALSE /\ damages = FALSE
    /\ sendNonce = 0 /\ openNonce = 0 /\ sealed = <<>>
    /\ ciphertext = <<>> /\ leftOver = <<>> /\ wireEnded = FALSE /\ failed = FALSE /\ heard = <<>>
    /\ reading = Nobody /\ writing = Nobody /\ frame = <<>>
    /\ onWatch = {} /\ newcomers = [t \in NoiseTasks |-> {}]
    /\ noiseAt = [t \in NoiseTasks |-> "idle"]
    /\ quiet = [t \in NoiseTasks |-> FALSE] /\ thence = [t \in NoiseTasks |-> "idle"]
    /\ resting = [t \in NoiseSelects |-> FALSE] /\ hasNews = [t \in NoiseSelects |-> FALSE]

ToStep(t, s) == noiseAt' = [noiseAt EXCEPT ![t] = s]

-----------------------------------------------------------------------------
(* The connection (external).  Whoever selects is told of what arrives.    *)

TellSelects ==
    /\ resting' = [t \in NoiseSelects |-> FALSE]
    /\ hasNews' = [t \in NoiseSelects |-> noiseAt[t] # "idle"]

Shut ==
    /\ ~shut /\ writing = Nobody /\ shut' = TRUE /\ TellSelects
    /\ UNCHANGED <<wire, damages, cipher, received, holds, writing, frame, noiseAt>>

Damage ==
    /\ ~damages /\ damages' = TRUE
    /\ \E i \in DOMAIN wire : wire' = [wire EXCEPT ![i] = <<Damaged, @[2]>>]
    /\ UNCHANGED <<shut, cipher, received, holds, writing, frame, noiseAt, rests>>

-----------------------------------------------------------------------------
(* write_all.                                                              *)

LockWriting(t) ==
    /\ noiseAt[t] = "idle" /\ t \in NoiseWriters /\ writing = Nobody /\ ~shut /\ Len(sealed) < MaxSealed
    /\ writing' = t /\ ToStep(t, "seals")
    /\ UNCHANGED <<line, cipher, received, holds, frame, rests>>

\* next_nonce and the frame; the last value of the counter is not used.
Seal(t) ==
    /\ noiseAt[t] = "seals"
    /\ IF sendNonce = LastNonce
         THEN writing' = Nobody /\ ToStep(t, "idle") /\ UNCHANGED <<sealed, sendNonce, frame>>
         ELSE /\ sealed' = Append(sealed, sendNonce) /\ sendNonce' = sendNonce + 1
              /\ frame' = <<<<sendNonce, "head">>, <<sendNonce, "tail">>>>
              /\ ToStep(t, "sends") /\ UNCHANGED writing
    /\ UNCHANGED <<line, openNonce, received, holds, rests>>

SendPiece(t) ==
    /\ noiseAt[t] = "sends" /\ frame # <<>>
    /\ wire' = Append(wire, Head(frame)) /\ frame' = Tail(frame)
    /\ TellSelects
    /\ UNCHANGED <<shut, damages, cipher, received, holds, writing, noiseAt>>

\* The next chunk of the data.
NextChunk(t) ==
    /\ noiseAt[t] = "sends" /\ frame = <<>> /\ Len(sealed) < MaxSealed
    /\ ToStep(t, "seals")
    /\ UNCHANGED <<line, cipher, received, holds, writing, frame, rests>>

\* All written, or given up part-way.
WriteEnds(t) ==
    /\ noiseAt[t] = "sends"
    /\ frame' = <<>> /\ writing' = Nobody /\ ToStep(t, "idle")
    /\ UNCHANGED <<line, cipher, received, holds, rests>>

-----------------------------------------------------------------------------
(* Reading: the held lock.                                                 *)

FirstWatcher(t) ==
    /\ noiseAt[t] = "idle" /\ t \in NoiseReaders /\ ToStep(t, "locks")
    /\ newcomers' = [newcomers EXCEPT ![t] = {}]
    /\ UNCHANGED <<line, cipher, received, reading, onWatch, quiet, thence, writing, frame, rests>>

LockReading(t) ==
    /\ noiseAt[t] = "locks" /\ reading = Nobody /\ reading' = t /\ ToStep(t, "next")
    /\ UNCHANGED <<line, cipher, received, onWatch, newcomers, quiet, thence, writing, frame, rests>>

\* Drop for Reading: unlock, and in a step of its own wake.
Unlock(t, quietly, s) ==
    /\ reading' = Nobody /\ ToStep(t, "wakes")
    /\ quiet' = [quiet EXCEPT ![t] = quietly] /\ thence' = [thence EXCEPT ![t] = s]
    /\ UNCHANGED <<onWatch, newcomers>>

WokenBy(t) == IF quiet[t] THEN newcomers[t] \cap onWatch ELSE onWatch

WakeThem(t) ==
    /\ noiseAt[t] = "wakes"
    /\ resting' = [s \in NoiseSelects |-> resting[s] /\ s \notin WokenBy(t)]
    /\ onWatch' = onWatch \ WokenBy(t)
    /\ ToStep(t, thence[t])
    /\ newcomers' = [newcomers EXCEPT ![t] = {}] /\ quiet' = [quiet EXCEPT ![t] = FALSE]
    /\ thence' = [thence EXCEPT ![t] = "idle"]
    /\ UNCHANGED <<line, cipher, received, reading, writing, frame, hasNews>>

-----------------------------------------------------------------------------
(* Received::next.                                                         *)

WholeMessage == Len(ciphertext) >= 2

\* Bytes left over.  As a mutant, earlier watchers are not told of the rest.
TakeLeftQuietly(t) ==
    /\ noiseAt[t] = "next" /\ ~failed /\ leftOver # <<>>
    /\ \E n \in 1..Len(leftOver) :
         /\ heard' = heard \o SubSeq(leftOver, 1, n)
         /\ leftOver' = SubSeq(leftOver, n + 1, Len(leftOver))
    /\ Unlock(t, TRUE, "idle")
    /\ UNCHANGED <<line, cipher, ciphertext, wireEnded, failed, writing, frame, rests>>
TakeLeft(t) ==
    /\ noiseAt[t] = "next" /\ ~failed /\ leftOver # <<>>
    /\ \E n \in 1..Len(leftOver) :
         /\ heard' = heard \o SubSeq(leftOver, 1, n)
         /\ leftOver' = SubSeq(leftOver, n + 1, Len(leftOver))
    /\ Unlock(t, FALSE, "idle")
    /\ UNCHANGED <<line, cipher, ciphertext, wireEnded, failed, writing, frame, rests>>

\* A message that does not open is the end of reading.  As a mutant, the next
\* one may be read.
OpenSkipping(t) ==
    /\ noiseAt[t] = "next" /\ ~failed /\ leftOver = <<>> /\ WholeMessage
    /\ ciphertext' = SubSeq(ciphertext, 3, Len(ciphertext))
    /\ openNonce' = openNonce + 1
    /\ IF SubSeq(ciphertext, 1, 2) = <<<<openNonce, "head">>, <<openNonce, "tail">>>>
         THEN leftOver' = <<<<openNonce, 1>>, <<openNonce, 2>>>> /\ UNCHANGED <<holds, noiseAt>>
         ELSE Unlock(t, FALSE, "idle") /\ UNCHANGED leftOver
    /\ UNCHANGED <<line, sendNonce, sealed, failed, wireEnded, heard, writing, frame, rests>>
OpenMessage(t) ==
    /\ noiseAt[t] = "next" /\ ~failed /\ leftOver = <<>> /\ WholeMessage
    /\ ciphertext' = SubSeq(ciphertext, 3, Len(ciphertext))
    /\ openNonce' = IF openNonce = LastNonce THEN openNonce ELSE openNonce + 1
    /\ IF openNonce # LastNonce /\ SubSeq(ciphertext, 1, 2) = <<<<openNonce, "head">>, <<openNonce, "tail">>>>
         THEN leftOver' = <<<<openNonce, 1>>, <<openNonce, 2>>>> /\ UNCHANGED <<failed, holds, noiseAt>>
         ELSE failed' = (openNonce # LastNonce) /\ Unlock(t, FALSE, "idle") /\ UNCHANGED leftOver
    /\ UNCHANGED <<line, sendNonce, sealed, wireEnded, heard, writing, frame, rests>>

\* The end, whole or part-way through a message, or an earlier failure.
ReadsEnd(t) ==
    /\ noiseAt[t] = "next" /\ (failed \/ (leftOver = <<>> /\ ~WholeMessage /\ wireEnded))
    /\ Unlock(t, FALSE, "idle")
    /\ UNCHANGED <<line, cipher, received, writing, frame, rests>>

NeedsMore(t) == noiseAt[t] = "next" /\ ~failed /\ leftOver = <<>> /\ ~WholeMessage /\ ~wireEnded

\* receive_more, or read_now: what has arrived, or the end.
ReceiveMore(t) ==
    /\ NeedsMore(t)
    /\ \/ \E n \in 1..Len(wire) :
            /\ ciphertext' = ciphertext \o SubSeq(wire, 1, n)
            /\ wire' = SubSeq(wire, n + 1, Len(wire))
            /\ UNCHANGED wireEnded
       \/ wire = <<>> /\ shut /\ wireEnded' = TRUE /\ UNCHANGED <<wire, ciphertext>>
    /\ UNCHANGED <<shut, damages, cipher, leftOver, failed, heard, holds, writing, frame, noiseAt, rests>>

ReadGivesUp(t) ==
    /\ NeedsMore(t) /\ Unlock(t, FALSE, "idle")
    /\ UNCHANGED <<line, cipher, received, writing, frame, rests>>

\* fill_by: a copy waits and leaves what is readable to its next try_read.
FillEnds(t) ==
    /\ noiseAt[t] = "next" /\ t \in NoiseReaders /\ ~NeedsMore(t)
    /\ Unlock(t, FALSE, "idle")
    /\ UNCHANGED <<line, cipher, received, writing, frame, rests>>

-----------------------------------------------------------------------------
(* A Select: try_read, watch, the socket, sleep.                           *)

TryReading(t) ==
    /\ t \in NoiseSelects /\ noiseAt[t] \in {"idle", "polls"}
    /\ IF reading = Nobody
         THEN reading' = t /\ newcomers' = [newcomers EXCEPT ![t] = {}] /\ ToStep(t, "next")
         ELSE ToStep(t, "watches") /\ UNCHANGED <<reading, newcomers>>
    /\ UNCHANGED <<line, cipher, received, onWatch, quiet, thence, writing, frame, rests>>

TryFindsNothing(t) ==
    /\ NeedsMore(t) /\ t \in NoiseSelects /\ wire = <<>> /\ ~shut
    /\ Unlock(t, TRUE, "watches")
    /\ UNCHANGED <<line, cipher, received, writing, frame, rests>>

WatchReading(t) ==
    /\ noiseAt[t] = "watches" /\ ToStep(t, "asks")
    /\ onWatch' = onWatch \cup {t}
    /\ newcomers' = [u \in NoiseTasks |-> IF u = t THEN {} ELSE newcomers[u] \cup {t}]
    /\ resting' = [resting EXCEPT ![t] = ~hasNews[t]]
    /\ UNCHANGED <<line, cipher, received, reading, quiet, thence, writing, frame, hasNews>>

\* Whether a poll would find something: Received::readable, or on the socket.
Readable == leftOver # <<>> \/ WholeMessage \/ wireEnded \/ failed \/ wire # <<>> \/ shut

AskLocked(t) ==
    /\ noiseAt[t] = "asks" /\ ToStep(t, IF reading = Nobody THEN "peeks" ELSE "sleeps")
    /\ UNCHANGED <<line, cipher, received, holds, writing, frame, rests>>

PeekReadable(t) ==
    /\ noiseAt[t] = "peeks"
    /\ IF Readable
         THEN /\ onWatch' = onWatch \ {t} /\ resting' = [resting EXCEPT ![t] = FALSE]
              /\ ToStep(t, "polls")
         ELSE ToStep(t, "sleeps") /\ UNCHANGED <<onWatch, resting>>
    /\ UNCHANGED <<line, cipher, received, reading, newcomers, quiet, thence, writing, frame, hasNews>>

SelectWakes(t) ==
    /\ noiseAt[t] = "sleeps"
    /\ \/ ~resting[t] /\ ToStep(t, "polls")
       \/ ToStep(t, "idle")
    /\ onWatch' = onWatch \ {t} /\ resting' = [resting EXCEPT ![t] = FALSE]
    /\ hasNews' = [hasNews EXCEPT ![t] = FALSE]
    /\ UNCHANGED <<line, cipher, received, reading, newcomers, quiet, thence, writing, frame>>

-----------------------------------------------------------------------------

NoiseNext ==
    \/ Shut \/ Damage
    \/ \E t \in NoiseTasks :
         \/ LockWriting(t) \/ Seal(t) \/ SendPiece(t) \/ NextChunk(t) \/ WriteEnds(t)
         \/ FirstWatcher(t) \/ LockReading(t) \/ WakeThem(t)
         \/ TakeLeft(t) \/ OpenMessage(t) \/ ReadsEnd(t) \/ ReceiveMore(t) \/ ReadGivesUp(t) \/ FillEnds(t)
         \/ TryReading(t) \/ TryFindsNothing(t) \/ WatchReading(t) \/ AskLocked(t) \/ PeekReadable(t)
    \/ \E t \in NoiseSelects : SelectWakes(t)

NoiseSpec == NoiseInit /\ [][NoiseNext]_noiseVars

-----------------------------------------------------------------------------
(* Properties.                                                             *)

\* The bytes read are the first bytes that were sealed, in order and each once,
\* whoever read them, though pieces were damaged and writes ended part-way; and
\* no nonce is used for two messages.
HeardIsPrefix ==
    /\ \A i \in 1..Len(heard) : heard[i] = <<(i - 1) \div 2, 2 - (i % 2)>> /\ (i - 1) \div 2 < Len(sealed)
    /\ \A i, j \in 1..Len(sealed) : sealed[i] = sealed[j] => i = j

\* No Select sleeps while a read would find something, unless a task that holds
\* the read lock or has just released it will wake it.
NoReadMissed ==
    \A t \in NoiseSelects : noiseAt[t] = "sleeps" /\ resting[t] /\ Readable =>
        reading # Nobody \/ \E u \in NoiseTasks : noiseAt[u] = "wakes" /\ t \in WokenBy(u)
=============================================================================
