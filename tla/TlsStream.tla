------------------------------ MODULE TlsStream ------------------------------
(***************************************************************************)
(* One TLS stream shared by tasks that read it, write it and select over   *)
(* it: src/src/tls.rs.                                                     *)
(*                                                                         *)
(* rustls is one state machine behind the mutex `inner`; three             *)
(* sched::Locks (a Pool of one place each) serialise readers, senders and  *)
(* the handshake, and a hold of one ends by waking the Selects that watch  *)
(* the stream.  Instead of numbering watchers, the model keeps for each    *)
(* hold the ones that came since its first id was read, which is what      *)
(* `wake_from` wakes.                                                      *)
(*                                                                         *)
(* A step inside `inner` is one action, but `watch`, which only tries that *)
(* mutex, may find it held by any task about to take such a step.  A       *)
(* Select is told of what arrives while it runs or sleeps (its worker      *)
(* handles no event before it suspends, see Sockets); the event for what   *)
(* was there before it ran may have gone to nobody.                        *)
(***************************************************************************)
EXTENDS Naturals, Sequences, FiniteSets

CONSTANTS
    Readers,     \* tasks in read_stream
    Writers,     \* tasks in write_all and shutdown
    Selects,     \* tasks in a Select on the stream
    Inspectors,  \* tasks that ask for the server name, certificates or protocol
    NoTask,
    MaxRecords   \* bound on what the peer sends

TlsTasks == Readers \cup Writers \cup Selects \cup Inspectors

ASSUME TlsAssumption == NoTask \notin TlsTasks /\ MaxRecords \in Nat

VARIABLES
    net,        \* the records on the socket
    sends,      \* how many the peer has sent
    room,       \* whether the socket takes more
    pending,    \* Inner::pending
    plain,      \* plaintext that rustls holds
    owed,       \* Connection::wants_write
    ended,      \* the session is over, however it ended
    shaking,    \* Connection::is_handshaking
    handshaken,
    holder,     \* who holds read_lock, write_lock, handshake_lock and inner
    watchers,
    since,      \* the watchers that came during a task's hold
    step,       \* where a task is
    idle,       \* Held::idle
    after,      \* where it goes once it has woken the watchers
    asleep,     \* a Select's wait that nothing has ended
    alsoWrite,  \* whether it waits for the socket to be writable too
    told,       \* whether something has arrived since it runs
    misled      \* the Selects whose watch met `inner` held without a lock

rustls == <<pending, plain, owed, ended, shaking>>
socket == <<net, sends, room>>
held == <<holder, watchers, since, idle, after>>
sleeps == <<asleep, alsoWrite, told, misled>>
tlsVars == <<socket, rustls, handshaken, held, step, sleeps>>

TlsInit ==
    /\ net = <<>> /\ sends = 0 /\ room = TRUE
    /\ pending = <<>> /\ plain = 0 /\ owed = FALSE /\ ended = FALSE /\ shaking = TRUE
    /\ handshaken = FALSE
    /\ holder = [read |-> NoTask, write |-> NoTask, shake |-> NoTask, inner |-> NoTask]
    /\ watchers = {} /\ since = [t \in TlsTasks |-> {}]
    /\ step = [t \in TlsTasks |-> "idle"]
    /\ idle = [t \in TlsTasks |-> FALSE] /\ after = [t \in TlsTasks |-> "idle"]
    /\ asleep = [t \in Selects |-> FALSE] /\ alsoWrite = [t \in Selects |-> FALSE]
    /\ told = [t \in Selects |-> FALSE] /\ misled = {}

-----------------------------------------------------------------------------
(* The socket and rustls (external).                                       *)

\* The handshake's message comes first; an "update" is one that rustls answers.
PeerSends(r) ==
    /\ sends < MaxRecords
    /\ r = "hello" <=> sends = 0
    /\ \A i \in DOMAIN net : net[i] # "bye"
    /\ ~ended /\ "bye" \notin {pending[i] : i \in DOMAIN pending}
    /\ net' = Append(net, r) /\ sends' = sends + 1
    /\ asleep' = [t \in Selects |-> FALSE]
    /\ told' = [t \in Selects |-> step[t] # "idle"]
    /\ UNCHANGED <<room, rustls, handshaken, held, step, alsoWrite, misled>>

PeerDrains ==
    /\ ~room /\ room' = TRUE
    /\ asleep' = [t \in Selects |-> asleep[t] /\ ~alsoWrite[t]]
    /\ UNCHANGED <<net, sends, rustls, handshaken, held, step, alsoWrite, told, misled>>

\* A write leaves room for more, or does not.
Writes == room /\ room' \in BOOLEAN /\ UNCHANGED <<net, sends>>

\* A read takes what is there, or a part of it.  The end of the stream without
\* a "bye" is told to rustls the same way, and ends it too.
ReadSocket ==
    \E n \in 1..Len(net) : pending' = pending \o SubSeq(net, 1, n) /\ net' = SubSeq(net, n + 1, Len(net))

\* read_tls and process_new_packets; what one record brings takes two reads.
Feed(rs) ==
    /\ plain' = plain + 2 * Cardinality({i \in DOMAIN rs : rs[i] = "data"})
    /\ owed' = (owed \/ \E i \in DOMAIN rs : rs[i] \in {"hello", "update"})
    /\ ended' = (ended \/ \E i \in DOMAIN rs : rs[i] = "bye")
    /\ shaking' = (shaking /\ rs = <<>>)

-----------------------------------------------------------------------------
(* Holding a lock: Held.                                                   *)

TlsGoes(t, s) == step' = [step EXCEPT ![t] = s]

\* lock_read, lock_write and lock_handshake: the first id is read before the
\* lock is waited for.
FirstId(t, s) ==
    /\ since' = [since EXCEPT ![t] = {}]
    /\ idle' = [idle EXCEPT ![t] = FALSE]
    /\ TlsGoes(t, s)
    /\ UNCHANGED <<holder, watchers, after>>

Acquire(t, l) ==
    /\ holder[l] = NoTask
    /\ holder' = [holder EXCEPT ![l] = t]

TryLock(t, l, s) ==
    /\ Acquire(t, l)
    /\ since' = [since EXCEPT ![t] = {}]
    /\ idle' = [idle EXCEPT ![t] = l = "shake"]
    /\ TlsGoes(t, s)
    /\ UNCHANGED <<watchers, after>>

\* The locks are released; then, as the next step, watchers are woken: all of
\* them, or those that came since if nothing came of the hold.
Release(t, quietly, s) ==
    /\ holder' = [l \in DOMAIN holder |-> IF holder[l] = t THEN NoTask ELSE holder[l]]
    /\ idle' = [idle EXCEPT ![t] = quietly]
    /\ after' = [after EXCEPT ![t] = s]
    /\ TlsGoes(t, "wakes")
    /\ UNCHANGED <<watchers, since>>

Wakes(t) == IF idle[t] THEN since[t] \cap watchers ELSE watchers

WakeWatchers(t) ==
    /\ step[t] = "wakes"
    /\ asleep' = [s \in Selects |-> asleep[s] /\ s \notin Wakes(t)]
    /\ watchers' = watchers \ Wakes(t)
    /\ since' = [since EXCEPT ![t] = {}] /\ idle' = [idle EXCEPT ![t] = FALSE]
    /\ TlsGoes(t, after[t]) /\ after' = [after EXCEPT ![t] = "idle"]
    /\ UNCHANGED <<socket, rustls, handshaken, holder, alsoWrite, told, misled>>

\* Steps that lock `inner`, each as one action.
InnerSteps == {"takes", "looks", "takesRecords", "looksNow", "writesNow", "inspects"}
InnerFree(t) == step[t] \in InnerSteps /\ holder.inner = NoTask

-----------------------------------------------------------------------------
(* Calls, and try_read.                                                    *)

TlsCall(t) ==
       /\ step[t] = "idle"
       /\ \/ t \in Readers \cup Selects /\ TlsGoes(t, "tries")
          \/ t \in Writers \cup Inspectors /\ TlsGoes(t, "handshake")
          \/ t \in Writers /\ handshaken /\ TlsGoes(t, "sender")
       /\ UNCHANGED <<socket, rustls, handshaken, held, sleeps>>

\* What follows when try_read has nothing: fill, or for a Select fill_now.
FillWire(t) == IF t \in Selects THEN "fillsNow" ELSE "fills"

TryRead(t) ==
    /\ step[t] = "tries"
    /\ IF handshaken /\ holder.read = NoTask
         THEN TryLock(t, "read", "takes")
         ELSE TlsGoes(t, FillWire(t)) /\ UNCHANGED held
    /\ UNCHANGED <<socket, rustls, handshaken, sleeps>>

\* Plaintext or the end of the session: the call is over.  As a mutant, earlier
\* watchers are not told that some may be left.
TakeQuietly(t) ==
    /\ step[t] = "takes" /\ InnerFree(t)
    /\ \/ plain > 0 /\ plain' = plain - 1
       \/ plain = 0 /\ ended /\ UNCHANGED plain
    /\ Release(t, TRUE, "idle")
    /\ UNCHANGED <<socket, pending, owed, ended, shaking, handshaken, sleeps>>
TakePlain(t) ==
         /\ step[t] = "takes" /\ InnerFree(t)
         /\ \/ plain > 0 /\ plain' = plain - 1
            \/ plain = 0 /\ ended /\ UNCHANGED plain
         /\ Release(t, FALSE, "idle")
         /\ UNCHANGED <<socket, pending, owed, ended, shaking, handshaken, sleeps>>

TakeNothing(t) ==
    /\ step[t] = "takes" /\ InnerFree(t)
    /\ plain = 0 /\ ~ended /\ pending = <<>>
    /\ Release(t, TRUE, FillWire(t))
    /\ UNCHANGED <<socket, rustls, handshaken, sleeps>>

Decrypt(t) ==
    /\ step[t] = "takes" /\ InnerFree(t)
    /\ plain = 0 /\ ~ended
    /\ \E n \in 1..Len(pending) :
         /\ Feed(SubSeq(pending, 1, n))
         /\ pending' = SubSeq(pending, n + 1, Len(pending))
    /\ IF owed' THEN Release(t, FALSE, FillWire(t)) ELSE UNCHANGED <<held, step>>
    /\ UNCHANGED <<socket, handshaken, sleeps>>

-----------------------------------------------------------------------------
(* fill_by and send_pending.                                               *)

FillStarts(t) ==
    /\ step[t] = "fills"
    /\ IF handshaken THEN FirstId(t, "reader") ELSE TlsGoes(t, "handshake") /\ UNCHANGED held
    /\ UNCHANGED <<socket, rustls, handshaken, sleeps>>

LockRead(t) ==
    /\ step[t] = "reader" /\ Acquire(t, "read") /\ TlsGoes(t, "looks")
    /\ UNCHANGED <<socket, rustls, handshaken, watchers, since, idle, after, sleeps>>

\* Records to send first; or something is there; or the socket must bring it.
Look(t) ==
    /\ step[t] = "looks" /\ InnerFree(t)
    /\ IF owed THEN TlsGoes(t, "locksWrite") /\ UNCHANGED held
       ELSE IF pending # <<>> \/ plain > 0 \/ ended THEN Release(t, FALSE, "tries")
       ELSE TlsGoes(t, "receives") /\ UNCHANGED held
    /\ UNCHANGED <<socket, rustls, handshaken, sleeps>>

Receive(t) ==
    /\ step[t] = "receives" /\ ReadSocket
    /\ Release(t, FALSE, "tries")
    /\ UNCHANGED <<sends, room, plain, owed, ended, shaking, handshaken, sleeps>>

\* Timed out, cancelled, or a failure of the socket; a write too may give up.
GiveUp(t) ==
    /\ step[t] \in {"receives", "sends", "receivesNow"}
    /\ Release(t, FALSE, "idle")
    /\ UNCHANGED <<socket, rustls, handshaken, sleeps>>

LockWrite(t) ==
    /\ step[t] = "locksWrite" /\ Acquire(t, "write") /\ TlsGoes(t, "takesRecords")
    /\ UNCHANGED <<socket, rustls, handshaken, watchers, since, idle, after, sleeps>>

\* take_records, after the encryption of a chunk if there is one.
TakeRecords(t) ==
    /\ step[t] = "takesRecords" /\ InnerFree(t)
    /\ owed' = FALSE /\ TlsGoes(t, "sends")
    /\ UNCHANGED <<socket, pending, plain, ended, shaking, handshaken, held, sleeps>>

Send(t) ==
    /\ step[t] = "sends" /\ Writes
    /\ Release(t, FALSE, IF t \in Writers THEN "idle" ELSE "tries")
    /\ UNCHANGED <<rustls, handshaken, sleeps>>

SenderStarts(t) ==
    /\ step[t] = "sender" /\ FirstId(t, "locksWrite")
    /\ UNCHANGED <<socket, rustls, handshaken, sleeps>>

\* server_name, peer_certificates, alpn_protocol.
Inspect(t) ==
    /\ step[t] = "inspects" /\ InnerFree(t) /\ TlsGoes(t, "idle")
    /\ UNCHANGED <<socket, rustls, handshaken, held, sleeps>>

-----------------------------------------------------------------------------
(* handshake, run_handshake and handshake_now.                             *)

\* Where a call goes on once the handshake is done: where it was made from.
Shaken(t) == {s \in {"sender", "inspects", "tries"} :
                 t \in CASE s = "sender" -> Writers [] s = "inspects" -> Inspectors [] OTHER -> Readers \cup Selects}

ShakeLock(t) == "shake"

Handshake(t) ==
    /\ step[t] = "handshake"
    /\ IF handshaken THEN (\E s \in Shaken(t) : TlsGoes(t, s)) /\ UNCHANGED held ELSE FirstId(t, "locksShake")
    /\ UNCHANGED <<socket, rustls, handshaken, sleeps>>

LockHandshake(t) ==
    /\ step[t] = "locksShake" /\ Acquire(t, ShakeLock(t)) /\ TlsGoes(t, "locksInner")
    /\ UNCHANGED <<socket, rustls, handshaken, watchers, since, idle, after, sleeps>>

LockInner(t) ==
    /\ step[t] = "locksInner"
    /\ IF handshaken
         THEN holder.inner = NoTask /\ \E s \in Shaken(t) : Release(t, FALSE, s)
         ELSE Acquire(t, "inner") /\ TlsGoes(t, "shakes") /\ UNCHANGED <<watchers, since, idle, after>>
    /\ UNCHANGED <<socket, rustls, handshaken, sleeps>>

ShakeWrite(t) ==
    /\ step[t] = "shakes" /\ owed /\ Writes
    /\ owed' = FALSE /\ idle' = [idle EXCEPT ![t] = FALSE]
    /\ UNCHANGED <<pending, plain, ended, shaking, handshaken, holder, watchers, since, after, step, sleeps>>

ShakeRead(t) ==
    /\ step[t] = "shakes" /\ ~owed /\ shaking /\ net # <<>>
    /\ Feed(net) /\ net' = <<>> /\ idle' = [idle EXCEPT ![t] = FALSE]
    /\ UNCHANGED <<sends, room, pending, handshaken, holder, watchers, since, after, step, sleeps>>

\* The flag is set when nothing is left to send.  As a mutant, when nothing is
\* left to receive.
ShakeDoneEarly(t) ==
    /\ step[t] = "shakes" /\ ~shaking
    /\ handshaken' = TRUE
    /\ IF owed THEN UNCHANGED <<held, step>> ELSE \E s \in Shaken(t) : Release(t, FALSE, s)
    /\ UNCHANGED <<socket, rustls, sleeps>>
ShakeDone(t) ==
    /\ step[t] = "shakes" /\ ~shaking /\ ~owed
    /\ handshaken' = TRUE /\ \E s \in Shaken(t) : Release(t, FALSE, s)
    /\ UNCHANGED <<socket, rustls, sleeps>>

ShakeBlocked == IF owed THEN ~room ELSE shaking /\ net = <<>>

\* Out of time, cancelled, refused by rustls or cut off.
ShakeFails(t) ==
    /\ step[t] = "shakes" /\ (ShakeBlocked => t \notin Selects)
    /\ Release(t, FALSE, "idle")
    /\ UNCHANGED <<socket, rustls, handshaken, sleeps>>

HandshakeNow(t) ==
    /\ step[t] = "fillsNow" /\ ~handshaken
    /\ IF holder.shake = NoTask THEN TryLock(t, "shake", "locksInner") ELSE TlsGoes(t, "watches") /\ UNCHANGED held
    /\ UNCHANGED <<socket, rustls, handshaken, sleeps>>

ShakeNowBlocks(t) ==
    /\ step[t] = "shakes" /\ t \in Selects /\ ShakeBlocked
    /\ Release(t, idle[t], IF idle[t] THEN "watches" ELSE "tries")
    /\ UNCHANGED <<socket, rustls, handshaken, sleeps>>

-----------------------------------------------------------------------------
(* fill_now.                                                               *)

FillNow(t) ==
    /\ step[t] = "fillsNow" /\ handshaken
    /\ IF holder.read = NoTask THEN TryLock(t, "read", "looksNow") ELSE TlsGoes(t, "watches") /\ UNCHANGED held
    /\ UNCHANGED <<socket, rustls, handshaken, sleeps>>

\* With records to send and the write lock to be had, they are written.
LookNowOwing(t) ==
    /\ step[t] = "looksNow" /\ InnerFree(t) /\ owed
    /\ IF holder.write = NoTask
         THEN Acquire(t, "write") /\ TlsGoes(t, "writesNow") /\ UNCHANGED <<watchers, since, idle, after>>
         ELSE Release(t, FALSE, "watches")
    /\ UNCHANGED <<socket, rustls, handshaken, sleeps>>

WriteNow(t) ==
    /\ step[t] = "writesNow" /\ InnerFree(t)
    /\ \/ Writes /\ owed' = FALSE /\ Release(t, FALSE, "tries")
       \/ ~room /\ Release(t, TRUE, "watches") /\ UNCHANGED <<socket, owed>>
    /\ UNCHANGED <<pending, plain, ended, shaking, handshaken, sleeps>>

LookNow(t) ==
    /\ step[t] = "looksNow" /\ InnerFree(t) /\ ~owed
    /\ IF pending # <<>> \/ plain > 0 \/ ended
         THEN Release(t, FALSE, "tries")
         ELSE TlsGoes(t, "receivesNow") /\ UNCHANGED held
    /\ UNCHANGED <<socket, rustls, handshaken, sleeps>>

ReceiveNow(t) ==
    /\ step[t] = "receivesNow"
    /\ \/ net = <<>> /\ Release(t, TRUE, "watches") /\ UNCHANGED <<net, pending>>
       \/ ReadSocket /\ Release(t, FALSE, "tries")
    /\ UNCHANGED <<sends, room, plain, owed, ended, shaking, handshaken, sleeps>>

-----------------------------------------------------------------------------
(* A Select's wait: watch, then the socket, then sleep.                    *)

WatchTls(t) ==
    /\ step[t] = "watches"
    /\ watchers' = watchers \cup {t}
    /\ since' = [u \in TlsTasks |-> IF u = t THEN {} ELSE since[u] \cup {t}]
    /\ asleep' = [asleep EXCEPT ![t] = ~told[t]] /\ TlsGoes(t, "asksShaken")
    /\ UNCHANGED <<alsoWrite, told, misled, socket, rustls, handshaken, holder, idle, after>>

\* `handshaken` is read once, for both looks at the locks.
AskShaken(t) ==
    /\ step[t] = "asksShaken"
    /\ TlsGoes(t, IF handshaken THEN "asksReading" ELSE "asksShaking")
    /\ UNCHANGED <<socket, rustls, handshaken, held, sleeps>>

Busy(t) == IF step[t] \in {"asksReading", "peeksShaken"} THEN holder.read # NoTask ELSE holder.shake # NoTask

WatchBusy(t) ==
    /\ step[t] \in {"asksReading", "asksShaking"}
    /\ TlsGoes(t, IF Busy(t) THEN "registers" ELSE IF step[t] = "asksReading" THEN "peeksShaken" ELSE "peeks")
    /\ UNCHANGED <<socket, rustls, handshaken, held, sleeps>>

Peeking == {"peeks", "peeksShaken"}

\* try_lock on inner fails.
PeekFails(t) ==
    /\ step[t] \in Peeking
    /\ \E u \in TlsTasks \ {t} :
         /\ holder.inner = u \/ step[u] \in InnerSteps \cup Peeking
         /\ misled' = IF u \in {holder.read, holder.write, holder.shake} THEN misled ELSE misled \cup {t}
    /\ TlsGoes(t, "registers")
    /\ UNCHANGED <<socket, rustls, handshaken, held, asleep, alsoWrite, told>>

\* Whether a poll would find something, in rustls or on the socket.
Takable == pending # <<>> \/ plain > 0 \/ ended \/ net # <<>>

Peek(t) ==
    /\ step[t] \in Peeking /\ holder.inner = NoTask
    /\ IF Takable /\ ~Busy(t)
         THEN /\ watchers' = watchers \ {t}
              /\ asleep' = [asleep EXCEPT ![t] = FALSE]
              /\ TlsGoes(t, "tries") /\ UNCHANGED alsoWrite
         ELSE /\ alsoWrite' = [alsoWrite EXCEPT ![t] = owed]
              /\ TlsGoes(t, "registers") /\ UNCHANGED <<watchers, asleep>>
    /\ UNCHANGED <<socket, rustls, handshaken, holder, since, idle, after, told, misled>>

RegisterSocket(t) ==
    /\ step[t] = "registers" /\ TlsGoes(t, "sleeps")
    /\ UNCHANGED <<socket, rustls, handshaken, held, sleeps>>

\* Woken by a watcher's wake-up, the socket, or another arm; that arm may end
\* the Select.
Awake(t) ==
    /\ step[t] = "sleeps"
    /\ \/ TlsGoes(t, "tries") /\ ~asleep[t]
       \/ TlsGoes(t, "idle")
    /\ watchers' = watchers \ {t} /\ asleep' = [asleep EXCEPT ![t] = FALSE]
    /\ alsoWrite' = [alsoWrite EXCEPT ![t] = FALSE] /\ told' = [told EXCEPT ![t] = FALSE]
    /\ misled' = misled \ {t}
    /\ UNCHANGED <<socket, rustls, handshaken, holder, since, idle, after>>

-----------------------------------------------------------------------------

Reads(t) ==
    TryRead(t) \/ TakePlain(t) \/ TakeNothing(t) \/ Decrypt(t) \/ FillStarts(t) \/ LockRead(t) \/ Look(t) \/ Receive(t)
Sends(t) == SenderStarts(t) \/ LockWrite(t) \/ TakeRecords(t) \/ Send(t) \/ Inspect(t)
Shakes(t) ==
    \/ Handshake(t) \/ LockHandshake(t) \/ LockInner(t) \/ HandshakeNow(t)
    \/ ShakeWrite(t) \/ ShakeRead(t) \/ ShakeDone(t) \/ ShakeNowBlocks(t)
Polls(t) == FillNow(t) \/ LookNowOwing(t) \/ WriteNow(t) \/ LookNow(t) \/ ReceiveNow(t)
Waits(t) == WatchTls(t) \/ AskShaken(t) \/ WatchBusy(t) \/ PeekFails(t) \/ Peek(t) \/ RegisterSocket(t)

\* What a task does without being let down.
Works(t) == WakeWatchers(t) \/ Reads(t) \/ Sends(t) \/ Shakes(t) \/ (t \in Selects /\ (Polls(t) \/ Waits(t)))

TlsNext ==
    \/ \E r \in {"hello", "data", "update", "bye"} : PeerSends(r)
    \/ PeerDrains
    \/ \E t \in TlsTasks : TlsCall(t) \/ Works(t) \/ GiveUp(t) \/ ShakeFails(t)
    \/ \E t \in Selects : Awake(t)

TlsSpec == TlsInit /\ [][TlsNext]_tlsVars

-----------------------------------------------------------------------------
(* Properties.                                                             *)

\* A Select that sleeps while a poll would find something, and that no task is
\* going to wake: none holds one of the stream's locks or has just released it,
\* and nobody found rustls empty and is about to look at the socket.
Stranded(t) ==
    /\ step[t] = "sleeps" /\ asleep[t] /\ Takable
    /\ \A u \in TlsTasks \ {t} :
         /\ u \notin {holder.read, holder.write, holder.shake}
         /\ step[u] = "wakes" => t \notin Wakes(u) /\ after[u] \notin {"fills", "fillsNow"}
         /\ step[u] \notin {"fills", "fillsNow", "reader"}

\* No Select on the stream is stranded, if its watch met `inner` free or held by
\* a task that holds one of the stream's locks.
NoSelectStranded == \A t \in Selects \ misled : ~Stranded(t)

\* "Held means a handshake (or a moment's processing) is under way; its locks'
\* release wakes this watcher" (the comment in watch): no Select is stranded,
\* whoever held `inner`.
HeldMeansWoken == \A t \in Selects : ~Stranded(t)

\* Nobody is held up by a task that waits for the peer's data, but by readers:
\* no task blocks its thread on `inner` while another holds it across a wait
\* for the socket, and a task that waits for the handshake or for its turn to
\* send is not behind one that receives.
NobodyHeldUp ==
    /\ \A t \in TlsTasks : holder.inner = t =>
         \A u \in TlsTasks \ {t} : step[u] \notin InnerSteps \cup {"locksInner"}
    /\ \A t \in TlsTasks :
         LET l == IF step[t] = "locksShake" THEN ShakeLock(t) ELSE IF step[t] = "locksWrite" THEN "write" ELSE "inner"
         IN  step[t] \in {"locksShake", "locksWrite", "locksInner"} /\ holder[l] # NoTask =>
                 step[holder[l]] # "receives"
=============================================================================
