---------------------------- MODULE StreamsProofs ----------------------------
(***************************************************************************)
(* What reaches tasks from outside: signals, and the streams on top of     *)
(* sockets.  They share no state; each has a section and an inductive      *)
(* invariant.                                                              *)
(*                                                                         *)
(* Signals, for any codes and any threads that handle them: the thread     *)
(* that passes them on loses none (SigInv).  Noise, for any tasks and      *)
(* messages: the bytes arrive in order (OrderInv), and no Select misses    *)
(* any (WatchInv).  TLS, for any tasks: who holds a lock is at a step that *)
(* has it, so nobody waits behind a task that receives (LockInv); and a    *)
(* Select that sleeps while there is something to take has a task that is  *)
(* going to wake it (SelInv).                                              *)
(***************************************************************************)
EXTENDS Signals, NoiseStream, TlsStream, TLAPS

-----------------------------------------------------------------------------
(* Sequences.                                                              *)

\* What is where in one sequence behind another,
LEMMA ConcatPlaces ==
    ASSUME NEW T, NEW a \in Seq(T), NEW b \in Seq(T)
    PROVE  /\ a \o b \in Seq(T) /\ Len(a \o b) = Len(a) + Len(b)
           /\ \A i \in 1..Len(a) : i \in 1..Len(a \o b) /\ (a \o b)[i] = a[i]
           /\ \A i \in 1..Len(b) : Len(a) + i \in 1..Len(a \o b) /\ (a \o b)[Len(a) + i] = b[i]
  OBVIOUS

\* with one element more,
LEMMA AppendPlaces ==
    ASSUME NEW T, NEW a \in Seq(T), NEW x \in T
    PROVE  /\ Append(a, x) \in Seq(T) /\ Len(Append(a, x)) = Len(a) + 1
           /\ Append(a, x)[Len(a) + 1] = x
           /\ \A i \in 1..Len(a) : i \in 1..Len(Append(a, x)) /\ Append(a, x)[i] = a[i]
  OBVIOUS

\* without the first n,
LEMMA SuffixPlaces ==
    ASSUME NEW T, NEW a \in Seq(T), NEW n \in 0..Len(a)
    PROVE  /\ SubSeq(a, n + 1, Len(a)) \in Seq(T) /\ Len(SubSeq(a, n + 1, Len(a))) = Len(a) - n
           /\ \A i \in 1..(Len(a) - n) : n + i \in 1..Len(a) /\ SubSeq(a, n + 1, Len(a))[i] = a[n + i]
  OBVIOUS

\* Sequences with the same elements at the same places are the same,
LEMMA SameSequence ==
    ASSUME NEW T, NEW a \in Seq(T), NEW b \in Seq(T), Len(a) = Len(b), \A i \in 1..Len(a) : a[i] = b[i]
    PROVE  a = b
  OBVIOUS

\* so that the first n elements and the others are the sequence again,
LEMMA PrefixAndSuffix ==
    ASSUME NEW T, NEW a \in Seq(T), NEW n \in 0..Len(a)
    PROVE  SubSeq(a, 1, n) \o SubSeq(a, n + 1, Len(a)) = a
<1> DEFINE p == SubSeq(a, 1, n)
           q == SubSeq(a, n + 1, Len(a))
<1>1. /\ p \in Seq(T) /\ Len(p) = n /\ \A i \in 1..n : p[i] = a[i]
      /\ q \in Seq(T) /\ Len(q) = Len(a) - n /\ \A i \in 1..(Len(a) - n) : q[i] = a[n + i]
  BY SMTT(40)
<1>2. p \in Seq(T) /\ q \in Seq(T)
  BY ZenonT(60), <1>1
<1> HIDE DEF p, q
<1>3. /\ p \o q \in Seq(T) /\ Len(p \o q) = Len(a)
      /\ \A i \in 1..n : (p \o q)[i] = a[i]
      /\ \A i \in 1..(Len(a) - n) : (p \o q)[n + i] = a[n + i]
  <2>1. /\ p \o q \in Seq(T) /\ Len(p \o q) = Len(p) + Len(q)
        /\ \A i \in 1..Len(p) : (p \o q)[i] = p[i]
        /\ \A i \in 1..Len(q) : (p \o q)[Len(p) + i] = q[i]
    BY <1>2, ConcatPlaces
  <2>2. Len(a) \in Nat /\ n \in Nat /\ Len(p) = n /\ Len(q) = Len(a) - n
    BY <1>1
  <2> QED BY SMTT(40), <1>1, <2>1, <2>2
<1>4. ASSUME NEW i \in 1..Len(a) PROVE (p \o q)[i] = a[i]
  <2>1. i \in 1..n \/ (i - n \in 1..(Len(a) - n) /\ n + (i - n) = i)
    OBVIOUS
  <2> QED BY ZenonT(60), <1>3, <2>1
<1> QED BY ZenonT(60), <1>2, <1>3, <1>4, SameSequence DEF p, q

\* and how three are put together does not matter,
LEMMA ConcatThree ==
    ASSUME NEW T, NEW a \in Seq(T), NEW b \in Seq(T), NEW c \in Seq(T)
    PROVE  (a \o b) \o c = a \o (b \o c)
  BY SMTT(40)

\* nor does an empty one.
LEMMA ConcatNothing ==
    ASSUME NEW T, NEW a \in Seq(T)
    PROVE  a \o <<>> = a
  OBVIOUS

\* What is where in what is left behind the head,
LEMMA TailPlaces ==
    ASSUME NEW T, NEW a \in Seq(T), a # <<>>
    PROVE  /\ Tail(a) \in Seq(T) /\ Len(a) \in Nat \ {0} /\ Len(Tail(a)) = Len(a) - 1
           /\ Head(a) = a[1] /\ Head(a) \in T
           /\ \A i \in 1..Len(Tail(a)) : i + 1 \in 1..Len(a) /\ Tail(a)[i] = a[i + 1]
           /\ \A i \in 2..Len(a) : i - 1 \in 1..Len(Tail(a)) /\ Tail(a)[i - 1] = a[i]
  OBVIOUS

\* and in the first n.
LEMMA PrefixPlaces ==
    ASSUME NEW T, NEW a \in Seq(T), NEW n \in 0..Len(a)
    PROVE  /\ SubSeq(a, 1, n) \in Seq(T) /\ Len(SubSeq(a, 1, n)) = n
           /\ \A i \in 1..n : i \in 1..Len(a) /\ SubSeq(a, 1, n)[i] = a[i]
  OBVIOUS

\* leave the two together as they were.
LEMMA TakenFromFront ==
    ASSUME NEW T, NEW a \in Seq(T), NEW b \in Seq(T), NEW n \in 0..Len(b)
    PROVE  (a \o SubSeq(b, 1, n)) \o SubSeq(b, n + 1, Len(b)) = a \o b
<1> DEFINE p == SubSeq(b, 1, n)
           q == SubSeq(b, n + 1, Len(b))
<1>1. p \in Seq(T) /\ q \in Seq(T)
  BY ZenonT(60), PrefixPlaces, SuffixPlaces
<1>3. p \o q = b
  BY ZenonT(60), PrefixAndSuffix
<1> HIDE DEF p, q
<1>2. (a \o p) \o q = a \o (p \o q)
  BY SMTT(40), <1>1, ConcatThree
<1> QED BY ZenonT(60), <1>2, <1>3 DEF p, q

\* A sequence of two.
LEMMA OfTwo ==
    ASSUME NEW s, NEW x, NEW y, s = <<x, y>>
    PROVE  Len(s) = 2 /\ s[1] = x /\ s[2] = y
  OBVIOUS

\* A sequence over a set is one over a larger set.
LEMMA MoreElements ==
    ASSUME NEW S, NEW T, S \subseteq T, NEW s \in Seq(S)
    PROVE  s \in Seq(T)
  OBVIOUS

-----------------------------------------------------------------------------
(* Signals.                                                                *)

\* What a signal's way through the handler and the thread rests on: a handler
\* runs only for a caught code, which needs the pipe's write end stored; the
\* thread holds drained codes only until it queues them.
SigInv ==
    /\ SigTypeOK
    /\ catching = "rest" => pipeWrite
    /\ caught # {} => catching = "rest"
    /\ \A h \in Handlers : handlersAt[h] # "none" => h[1] \in caught
    /\ drained # {} => drainAt = "queues"
    /\ catching = "no" => drainAt = "none"
    /\ unseen \subseteq Codes
    /\ SignalsArrive

\* SigInv holds at the start.
LEMMA SigStart == SigInit => SigInv
  BY SignalsAssumption DEF SigInit, SigInv, SigTypeOK, SignalsArrive, IsQueued

\* Every step keeps SigInv: one step per action.
LEMMA SigStep == SigInv /\ [SigNext]_sigVars => SigInv'
<1> SUFFICES ASSUME SigInv, [SigNext]_sigVars PROVE SigInv'
  OBVIOUS
<1> USE SignalsAssumption
<1> USE DEF SigInv, SigTypeOK, SignalsArrive
<1>1. CASE UNCHANGED sigVars
  BY ZenonT(60), <1>1 DEF sigVars, IsQueued
<1>2. CASE MakePipe
  BY ZenonT(60), <1>2 DEF MakePipe, IsQueued
<1>3. CASE StorePipe
  BY ZenonT(60), <1>3 DEF StorePipe, IsQueued
<1>4. ASSUME NEW c \in Codes, Catch(c) PROVE SigInv'
  BY ZenonT(60), <1>4 DEF Catch, IsQueued
<1>0. \A h \in Handlers : h[1] \in Codes
  BY DEF Handlers
<1>5. ASSUME NEW h \in Handlers, DeliverSignal(h) PROVE SigInv'
  BY ZenonT(60), <1>0, <1>5 DEF DeliverSignal, IsQueued
<1>6. ASSUME NEW h \in Handlers, SetPending(h) PROVE SigInv'
  BY ZenonT(60), <1>0, <1>6 DEF SetPending, IsQueued
<1>7. ASSUME NEW h \in Handlers, WriteByte(h) PROVE SigInv'
  BY SMTT(40), <1>0, <1>7 DEF WriteByte, IsQueued
<1>8. CASE ReadPipe
  BY <1>8 DEF ReadPipe, IsQueued
<1>9. CASE SwapPending
  BY ZenonT(60), <1>9 DEF SwapPending, IsQueued
<1>10. CASE QueueSignals
  <2> DEFINE new == {c \in drained : ~IsQueued(c)}
  <2>0. PICK n \in 0..NumSignals : \E s \in [1..n -> new] :
          /\ \A c \in new : \E i \in DOMAIN s : s[i] = c
          /\ signals' = signals \o s
    BY ZenonT(60), <1>10 DEF QueueSignals
  <2>1. PICK s \in [1..n -> new] :
          /\ \A c \in new : \E i \in DOMAIN s : s[i] = c
          /\ signals' = signals \o s
    BY ZenonT(60), <2>0
  <2>2. new \subseteq Codes
    BY SMTT(40)
  <2> HIDE DEF new
  <2>3. s \in Seq(Codes) /\ DOMAIN s = 1..Len(s)
    BY SMTT(40), <2>2
  <2>4. /\ signals' \in Seq(Codes) /\ signals \in Seq(Codes)
        /\ \A i \in 1..Len(signals) : i \in 1..Len(signals') /\ signals'[i] = signals[i]
        /\ \A i \in 1..Len(s) : Len(signals) + i \in 1..Len(signals') /\ signals'[Len(signals) + i] = s[i]
    BY <2>1, <2>3, ConcatPlaces
  <2>5. \A c : IsQueued(c) => IsQueued(c)'
    BY ZenonT(60), <2>4 DEF IsQueued
  <2>6. ASSUME NEW c \in new PROVE IsQueued(c)'
    <3>1. PICK i \in 1..Len(s) : s[i] = c
      BY ZenonT(60), <2>1, <2>3
    <3> QED BY ZenonT(60), <2>4, <3>1 DEF IsQueued
  <2>7. \A c \in drained : IsQueued(c) \/ c \in new
    BY ZenonT(60) DEF new
  <2> QED BY ZenonT(60), <1>10, <2>4, <2>5, <2>6, <2>7 DEF QueueSignals
<1>11. ASSUME NEW t \in SignalTasks, CallNext(t) PROVE SigInv'
  BY ZenonT(60), <1>11 DEF CallNext, IsQueued, NextGoes
<1>12. ASSUME NEW t \in SignalTasks, TryNext(t) PROVE SigInv'
  <2>1. CASE signals = <<>>
    BY <1>12, <2>1 DEF TryNext, IsQueued, NextGoes
  <2>2. CASE signals # <<>>
    <3>1. Tail(signals) \in Seq(Codes) /\ \A c : IsQueued(c) => c = Head(signals) \/ IsQueued(c)'
      <4>1. signals' = Tail(signals) /\ signals \in Seq(Codes)
        BY ZenonT(60), <1>12, <2>2 DEF TryNext
      <4>2. ASSUME NEW c, IsQueued(c), c # Head(signals) PROVE IsQueued(c)'
        <5>1. PICK i \in 1..Len(signals) : signals[i] = c
          BY ZenonT(60), <4>2 DEF IsQueued
        <5>2. i \in 2..Len(signals)
          BY SMTT(40), <2>2, <4>1, <4>2, <5>1, TailPlaces
        <5>3. i - 1 \in 1..Len(signals') /\ signals'[i - 1] = c
          BY SMTT(40), <2>2, <4>1, <5>1, <5>2, TailPlaces
        <5> QED BY ZenonT(60), <5>3 DEF IsQueued
      <4> QED BY ZenonT(60), <2>2, <4>1, <4>2, TailPlaces
    <3> QED BY ZenonT(60), <1>12, <2>2, <3>1 DEF TryNext, NextGoes
  <2> QED BY ZenonT(60), <2>1, <2>2
<1>13. ASSUME NEW t \in SignalTasks, WatchSignals(t) PROVE SigInv'
  BY <1>13 DEF WatchSignals, IsQueued, NextGoes
<1>14. ASSUME NEW t \in SignalTasks, NextWakes(t) PROVE SigInv'
  BY ZenonT(60), <1>14 DEF NextWakes, IsQueued, NextGoes
<1> QED
  BY ZenonT(60), <1>1, <1>2, <1>3, <1>4, <1>5, <1>6, <1>7, <1>8, <1>9, <1>10, <1>11, <1>12, <1>13, <1>14
  DEF SigNext, Handles, Drains, NextStep

\* A signal that arrived and that no next! returned yet is on its way: in its
\* handler, pending with the thread woken or awake, taken by it, or queued.
THEOREM SignalsAreNotLost == SigSpec => []SignalsArrive
<1>1. SigInv => SignalsArrive
  BY ZenonT(60) DEF SigInv
<1> QED BY SigStart, SigStep, <1>1, PTL DEF SigSpec

-----------------------------------------------------------------------------
(* Noise streams: the order of the bytes.                                  *)

\* The pieces of messages that may be under way,
Sent == ((0..(sendNonce - 1)) \cup {Damaged}) \X {"head", "tail"}

\* the bytes that messages are read as,
Byte == Nat \X {1, 2}

\* the i-th byte of the stream, two to a message,
ByteAt(i) == <<(i - 1) \div 2, 2 - (i % 2)>>

\* and the bytes that were decrypted, handed out or left over.
Opened == heard \o leftOver

\* What was decrypted is a prefix of what was sealed, and ends at the next
\* message to open unless the stream failed.
OrderInv ==
    /\ sendNonce \in 0..LastNonce /\ openNonce \in 0..LastNonce
    /\ sealed \in Seq(Nat) /\ Len(sealed) = sendNonce /\ \A i \in 1..Len(sealed) : sealed[i] = i - 1
    /\ wire \in Seq(Sent) /\ ciphertext \in Seq(Sent) /\ frame \in Seq(Sent)
    /\ heard \in Seq(Byte) /\ leftOver \in Seq(Byte)
    /\ \A i \in 1..Len(Opened) : Opened[i] = ByteAt(i)
    /\ Len(Opened) <= 2 * sendNonce
    /\ ~failed => Len(Opened) = 2 * openNonce

\* The two bytes of message n.
LEMMA Halves ==
    ASSUME NEW n \in Nat
    PROVE  ByteAt(2 * n + 1) = <<n, 1>> /\ ByteAt(2 * n + 2) = <<n, 2>>
  BY DEF ByteAt

\* The message of a byte among the first n messages.
LEMMA HalfBelow ==
    ASSUME NEW n \in Nat, NEW i \in 1..(2 * n)
    PROVE  (i - 1) \div 2 < n
  OBVIOUS

\* The variables OrderInv is about.
orderVars == <<wire, sendNonce, openNonce, sealed, ciphertext, leftOver, failed, heard, frame>>

\* OrderInv holds at the start.
LEMMA OrderStart == NoiseInit => OrderInv
<1> SUFFICES ASSUME NoiseInit PROVE OrderInv
  OBVIOUS
<1>1. Opened = <<>>
  BY ConcatNothing DEF NoiseInit, Opened
<1>2. <<>> \in Seq(Sent) /\ <<>> \in Seq(Byte) /\ <<>> \in Seq(Nat)
  OBVIOUS
<1> QED BY SMTT(40), <1>1, <1>2, NoiseAssumption DEF NoiseInit, OrderInv

\* Every step keeps OrderInv: one step per action that touches orderVars.
LEMMA OrderStep == OrderInv /\ [NoiseNext]_noiseVars => OrderInv'
<1> SUFFICES ASSUME OrderInv, [NoiseNext]_noiseVars PROVE OrderInv'
  OBVIOUS
<1> USE NoiseAssumption
<1>1. CASE UNCHANGED orderVars
  BY ZenonT(60), <1>1 DEF orderVars, OrderInv, Opened, Sent, Byte
<1>2. CASE Damage
  <2>1. UNCHANGED <<sendNonce, openNonce, sealed, ciphertext, leftOver, failed, heard, frame>>
    BY ZenonT(60), <1>2 DEF Damage, cipher, received
  <2>2. wire' \in Seq(Sent)
    <3>1. PICK i \in DOMAIN wire : wire' = [wire EXCEPT ![i] = <<Damaged, @[2]>>]
      BY ZenonT(60), <1>2 DEF Damage
    <3>2. wire[i] \in Sent /\ i \in 1..Len(wire) /\ wire \in Seq(Sent)
      BY SMTT(40) DEF OrderInv
    <3>3. <<Damaged, wire[i][2]>> \in Sent
      BY ZenonT(60), <3>2 DEF Sent
    <3> HIDE DEF Sent
    <3> QED BY SMTT(40), <3>1, <3>2, <3>3
  <2> QED BY ZenonT(60), <2>1, <2>2 DEF OrderInv, Opened, Sent
<1>3. ASSUME NEW t \in NoiseTasks, Seal(t) PROVE OrderInv'
  <2>1. CASE sendNonce = LastNonce
    BY ZenonT(60), <1>1, <1>3, <2>1 DEF Seal, orderVars, line, received
  <2>2. CASE sendNonce # LastNonce
    <3>1. /\ sealed' = Append(sealed, sendNonce) /\ sendNonce' = sendNonce + 1
          /\ frame' = <<<<sendNonce, "head">>, <<sendNonce, "tail">>>>
          /\ UNCHANGED <<wire, openNonce, ciphertext, leftOver, failed, heard>>
      BY ZenonT(60), <1>3, <2>2 DEF Seal, line, received
    <3>2. sendNonce' \in 0..LastNonce /\ Sent \subseteq Sent' /\ sendNonce \in 0..(sendNonce' - 1)
      <4>1. sendNonce \in 0..LastNonce
        BY ZenonT(60) DEF OrderInv
      <4>2. /\ sendNonce' \in 0..LastNonce
            /\ 0..(sendNonce - 1) \subseteq 0..(sendNonce' - 1) /\ sendNonce \in 0..(sendNonce' - 1)
        BY SMTT(40), <2>2, <3>1, <4>1, NoiseAssumption
      <4> QED BY ZenonT(60), <4>2 DEF Sent
    <3>3. frame' \in Seq(Sent')
      <4>1. <<sendNonce, "head">> \in Sent' /\ <<sendNonce, "tail">> \in Sent'
        BY ZenonT(60), <3>2 DEF Sent
      <4> QED BY <3>1, <4>1
    <3>4. wire' \in Seq(Sent') /\ ciphertext' \in Seq(Sent')
      BY ZenonT(60), <3>1, <3>2, MoreElements DEF OrderInv
    <3>5. sealed' \in Seq(Nat) /\ Len(sealed') = sendNonce' /\ \A i \in 1..Len(sealed') : sealed'[i] = i - 1
      <4>1. sealed \in Seq(Nat) /\ Len(sealed) = sendNonce /\ sendNonce \in Nat
        BY SMTT(40) DEF OrderInv
      <4>2. /\ sealed' \in Seq(Nat) /\ Len(sealed') = Len(sealed) + 1 /\ sealed'[Len(sealed) + 1] = sendNonce
            /\ \A i \in 1..Len(sealed) : sealed'[i] = sealed[i]
        BY SMTT(40), <3>1, <4>1, AppendPlaces
      <4> QED BY SMTT(40), <3>1, <4>1, <4>2 DEF OrderInv
    <3>6. Len(Opened) \in Nat /\ Opened' = Opened
      BY SMTT(40), <3>1, ConcatPlaces DEF OrderInv, Opened
    <3> QED BY SMTT(40), <3>1, <3>2, <3>3, <3>4, <3>5, <3>6 DEF OrderInv
  <2> QED BY ZenonT(60), <2>1, <2>2
<1>4. ASSUME NEW t \in NoiseTasks, SendPiece(t) PROVE OrderInv'
  <2>1. /\ frame # <<>> /\ wire' = Append(wire, Head(frame)) /\ frame' = Tail(frame)
        /\ UNCHANGED <<sendNonce, openNonce, sealed, ciphertext, leftOver, failed, heard>>
    BY ZenonT(60), <1>4 DEF SendPiece, cipher, received
  <2>2. frame \in Seq(Sent) /\ wire \in Seq(Sent)
    BY ZenonT(60) DEF OrderInv
  <2>3. wire' \in Seq(Sent) /\ frame' \in Seq(Sent)
    BY ZenonT(60), <2>1, <2>2, AppendPlaces, TailPlaces
  <2> QED BY ZenonT(60), <2>1, <2>3 DEF OrderInv, Opened, Sent
<1>5. ASSUME NEW t \in NoiseTasks, WriteEnds(t) PROVE OrderInv'
  <2>1. frame' = <<>> /\ UNCHANGED <<wire, sendNonce, openNonce, sealed, ciphertext, leftOver, failed, heard>>
    BY ZenonT(60), <1>5 DEF WriteEnds, line, cipher, received
  <2>2. frame' \in Seq(Sent)
    BY <2>1
  <2> QED BY ZenonT(60), <2>1, <2>2 DEF OrderInv, Opened, Sent
<1>6. ASSUME NEW t \in NoiseTasks, TakeLeft(t) PROVE OrderInv'
  <2>1. PICK n \in 1..Len(leftOver) :
          /\ heard' = heard \o SubSeq(leftOver, 1, n)
          /\ leftOver' = SubSeq(leftOver, n + 1, Len(leftOver))
    BY ZenonT(60), <1>6 DEF TakeLeft
  <2>2. heard \in Seq(Byte) /\ leftOver \in Seq(Byte) /\ n \in 0..Len(leftOver)
    BY DEF OrderInv
  <2>3. SubSeq(leftOver, 1, n) \in Seq(Byte) /\ leftOver' \in Seq(Byte)
    BY ZenonT(60), <2>1, <2>2, PrefixPlaces, SuffixPlaces
  <2>4. heard' \in Seq(Byte)
    BY ZenonT(60), <2>1, <2>2, <2>3, ConcatPlaces
  <2>5. Opened' = Opened
    BY ZenonT(60), <2>1, <2>2, TakenFromFront DEF Opened
  <2>8. UNCHANGED <<wire, sendNonce, openNonce, sealed, ciphertext, failed, frame>>
    BY ZenonT(60), <1>6 DEF TakeLeft, line, cipher
  <2> QED BY ZenonT(60), <2>3, <2>4, <2>5, <2>8 DEF OrderInv, Sent
<1>7. ASSUME NEW t \in NoiseTasks, OpenMessage(t) PROVE OrderInv'
  <2>1. /\ ~failed /\ leftOver = <<>> /\ Len(ciphertext) >= 2
        /\ ciphertext' = SubSeq(ciphertext, 3, Len(ciphertext))
        /\ openNonce' = IF openNonce = LastNonce THEN openNonce ELSE openNonce + 1
        /\ UNCHANGED <<wire, sendNonce, sealed, heard, frame>>
    BY ZenonT(60), <1>7 DEF OpenMessage, WholeMessage, line
  <2>2. ciphertext \in Seq(Sent) /\ ciphertext' \in Seq(Sent) /\ Sent' = Sent
    <3>1. ciphertext \in Seq(Sent) /\ 2 \in 0..Len(ciphertext)
      BY SMTT(40), <2>1 DEF OrderInv
    <3> QED BY SMTT(40), <2>1, <3>1, SuffixPlaces DEF Sent
  <2>3. heard \in Seq(Byte) /\ Opened = heard /\ Len(heard) = 2 * openNonce /\ openNonce' \in 0..LastNonce
    BY SMTT(40), <2>1, ConcatNothing DEF OrderInv, Opened
  <2>4. CASE /\ openNonce # LastNonce /\ SubSeq(ciphertext, 1, 2) = <<<<openNonce, "head">>, <<openNonce, "tail">>>>
             /\ leftOver' = <<<<openNonce, 1>>, <<openNonce, 2>>>> /\ UNCHANGED failed
    <3>1. openNonce < sendNonce
      <4>1. ciphertext[1] \in Sent
        BY SMTT(40), <2>1, <2>2
      <4>2. SubSeq(ciphertext, 1, 2)[1] = ciphertext[1]
        BY SMTT(40), <2>1, <2>2, PrefixPlaces
      <4>3. <<openNonce, "head">> \in Sent
        <5>1. SubSeq(ciphertext, 1, 2)[1] = <<openNonce, "head">>
          BY ZenonT(60), <2>4, OfTwo
        <5> QED BY ZenonT(60), <4>1, <4>2, <5>1
      <4> QED BY SMTT(40), <4>3 DEF Sent, OrderInv, Damaged
    <3>2. /\ leftOver' \in Seq(Byte) /\ Len(leftOver') = 2
          /\ leftOver'[1] = <<openNonce, 1>> /\ leftOver'[2] = <<openNonce, 2>>
      BY <2>4, OfTwo DEF Byte, OrderInv
    <3>3. /\ Opened' \in Seq(Byte) /\ Len(Opened') = 2 * openNonce + 2
          /\ \A i \in 1..Len(heard) : Opened'[i] = heard[i]
          /\ Opened'[2 * openNonce + 1] = <<openNonce, 1>> /\ Opened'[2 * openNonce + 2] = <<openNonce, 2>>
      <4>1. Opened' = heard \o leftOver'
        BY ZenonT(60), <2>1 DEF Opened
      <4>2. /\ Opened' \in Seq(Byte) /\ Len(Opened') = Len(heard) + Len(leftOver')
            /\ \A i \in 1..Len(heard) : Opened'[i] = heard[i]
            /\ \A i \in 1..Len(leftOver') : Opened'[Len(heard) + i] = leftOver'[i]
        <5>1. heard \in Seq(Byte) /\ leftOver' \in Seq(Byte)
          BY ZenonT(60), <2>3, <3>2
        <5> QED BY SMTT(40), <4>1, <5>1, ConcatPlaces
      <4>3. 1 \in 1..Len(leftOver') /\ 2 \in 1..Len(leftOver')
        BY SMTT(40), <3>2
      <4> QED BY ZenonT(60), <2>3, <3>2, <4>2, <4>3
    <3>4. openNonce \in Nat /\ sendNonce \in Nat
      BY DEF OrderInv
    <3>5. ASSUME NEW i \in 1..Len(Opened') PROVE Opened'[i] = ByteAt(i)
      <4>1. i \in 1..Len(heard) \/ i = 2 * openNonce + 1 \/ i = 2 * openNonce + 2
        BY SMTT(40), <2>3, <3>3, <3>4
      <4>2. CASE i \in 1..Len(heard)
        BY ZenonT(60), <2>3, <3>3, <4>2 DEF OrderInv
      <4> QED BY ZenonT(60), <3>3, <3>4, <4>1, <4>2, Halves
    <3>6. Len(Opened') <= 2 * sendNonce /\ Len(Opened') = 2 * openNonce'
      BY SMTT(40), <2>1, <2>4, <3>1, <3>3, <3>4
    <3> QED BY ZenonT(60), <2>1, <2>2, <2>3, <3>2, <3>5, <3>6 DEF OrderInv
  <2>5. CASE failed' = (openNonce # LastNonce) /\ UNCHANGED leftOver
    <3>1. Opened' = Opened
      BY ZenonT(60), <2>1, <2>5 DEF Opened
    <3>2. ~failed' => openNonce' = openNonce
      BY ZenonT(60), <2>1, <2>5
    <3> QED BY ZenonT(60), <2>1, <2>2, <2>3, <2>5, <3>1, <3>2 DEF OrderInv
  <2> QED BY ZenonT(60), <1>7, <2>4, <2>5 DEF OpenMessage
<1>8. ASSUME NEW t \in NoiseTasks, ReceiveMore(t) PROVE OrderInv'
  <2>1. UNCHANGED <<sendNonce, openNonce, sealed, leftOver, failed, heard, frame>>
    BY ZenonT(60), <1>8 DEF ReceiveMore, cipher
  <2>2. wire \in Seq(Sent) /\ ciphertext \in Seq(Sent)
    BY ZenonT(60) DEF OrderInv
  <2>3. CASE UNCHANGED <<wire, ciphertext>>
    BY ZenonT(60), <1>1, <2>1, <2>3 DEF orderVars
  <2>4. ASSUME NEW n \in 1..Len(wire),
               ciphertext' = ciphertext \o SubSeq(wire, 1, n), wire' = SubSeq(wire, n + 1, Len(wire))
        PROVE  wire' \in Seq(Sent) /\ ciphertext' \in Seq(Sent)
    <3>1. n \in 0..Len(wire)
      BY <2>2
    <3>2. SubSeq(wire, 1, n) \in Seq(Sent) /\ wire' \in Seq(Sent)
      BY ZenonT(60), <2>2, <2>4, <3>1, PrefixPlaces, SuffixPlaces
    <3> QED BY ZenonT(60), <2>2, <2>4, <3>2, ConcatPlaces
  <2>5. CASE wire' \in Seq(Sent) /\ ciphertext' \in Seq(Sent)
    BY ZenonT(60), <2>1, <2>5 DEF OrderInv, Opened, Sent
  <2> QED BY ZenonT(60), <1>8, <2>3, <2>4, <2>5 DEF ReceiveMore
<1>9. CASE UNCHANGED noiseVars
  BY ZenonT(60), <1>1, <1>9 DEF noiseVars, orderVars, line, cipher, received
<1>10. CASE Shut
  BY ZenonT(60), <1>1, <1>10 DEF Shut, orderVars, cipher, received
<1>11. ASSUME NEW t \in NoiseTasks,
              \/ LockWriting(t) \/ NextChunk(t) \/ FirstWatcher(t) \/ LockReading(t) \/ WakeThem(t)
              \/ ReadsEnd(t) \/ ReadGivesUp(t) \/ FillEnds(t) \/ TryReading(t) \/ TryFindsNothing(t)
              \/ WatchReading(t) \/ AskLocked(t) \/ PeekReadable(t) \/ SelectWakes(t)
       PROVE  OrderInv'
  <2>1. UNCHANGED <<line, cipher, received, frame>>
    BY ZenonT(60), <1>11 DEF LockWriting, NextChunk, FirstWatcher, LockReading, WakeThem, ReadsEnd, ReadGivesUp, FillEnds,
                 TryReading, TryFindsNothing, WatchReading, AskLocked, PeekReadable, SelectWakes
  <2> QED BY ZenonT(60), <1>1, <2>1 DEF orderVars, line, cipher, received
<1> QED
  BY ZenonT(60), <1>2, <1>3, <1>4, <1>5, <1>6, <1>7, <1>8, <1>9, <1>10, <1>11 DEF NoiseNext, NoiseTasks

\* Whatever is damaged or cut short on the way, and however reads and writes
\* interleave, the bytes read are a prefix of the bytes written, and no nonce
\* seals two messages.
THEOREM BytesInOrder == NoiseSpec => []HeardIsPrefix
<1>1. OrderInv => HeardIsPrefix
  <2> SUFFICES ASSUME OrderInv PROVE HeardIsPrefix
    BY SMTT(40)
  <2>1. \A i, j \in 1..Len(sealed) : sealed[i] = sealed[j] => i = j
    BY SMTT(40) DEF OrderInv
  <2>2. ASSUME NEW i \in 1..Len(heard)
        PROVE  heard[i] = <<(i - 1) \div 2, 2 - (i % 2)>> /\ (i - 1) \div 2 < Len(sealed)
    <3>1. i \in 1..Len(Opened) /\ Opened[i] = heard[i]
      BY ConcatPlaces DEF OrderInv, Opened
    <3>2. heard[i] = ByteAt(i)
      BY ZenonT(60), <3>1 DEF OrderInv
    <3>3. sendNonce \in Nat /\ i \in 1..(2 * sendNonce) /\ Len(sealed) = sendNonce
      <4>1. Len(Opened) \in Nat /\ Len(Opened) <= 2 * sendNonce /\ sendNonce \in Nat /\ Len(sealed) = sendNonce
        BY ConcatPlaces DEF OrderInv, Opened
      <4> QED BY SMTT(40), <3>1, <4>1
    <3> QED BY ZenonT(60), <3>2, <3>3, HalfBelow DEF ByteAt
  <2> QED BY ZenonT(60), <2>1, <2>2 DEF HeardIsPrefix
<1> QED BY OrderStart, OrderStep, <1>1, PTL DEF NoiseSpec

-----------------------------------------------------------------------------
(* Noise streams: the wake-ups of a Select.                                *)

\* A task that looks at what was received holds the read lock, and a Select
\* that sleeps is on the list that whoever releases the lock wakes.
WatchInv ==
    /\ noiseAt \in [NoiseTasks -> {"idle", "seals", "sends", "locks", "next", "wakes", "watches", "asks",
                                   "peeks", "sleeps", "polls"}]
    /\ thence \in [NoiseTasks -> {"idle", "watches"}] /\ quiet \in [NoiseTasks -> BOOLEAN]
    /\ newcomers \in [NoiseTasks -> SUBSET NoiseTasks] /\ onWatch \subseteq NoiseTasks
    /\ resting \in [NoiseSelects -> BOOLEAN] /\ hasNews \in [NoiseSelects -> BOOLEAN]
    /\ \A t \in NoiseTasks : noiseAt[t] = "next" => reading = t
    /\ \A t \in NoiseSelects : resting[t] => t \in onWatch
    /\ NoReadMissed

\* WatchInv holds at the start.
LEMMA WatchStart == NoiseInit => WatchInv
  BY ZenonT(60) DEF NoiseInit, WatchInv, NoReadMissed

\* Whoever releases the lock with a report wakes every Select that sleeps.
LEMMA UnlockReports ==
    ASSUME WatchInv, NEW t \in NoiseTasks, noiseAt[t] = "next", Unlock(t, FALSE, "idle"), UNCHANGED rests
    PROVE  WatchInv'
<1> USE DEF WatchInv
<1>1. /\ reading = t /\ reading' = Nobody /\ UNCHANGED <<onWatch, newcomers, resting, hasNews>>
      /\ noiseAt' = [noiseAt EXCEPT ![t] = "wakes"] /\ quiet' = [quiet EXCEPT ![t] = FALSE]
      /\ thence' = [thence EXCEPT ![t] = "idle"]
  BY ZenonT(60) DEF Unlock, ToStep, rests
<1>2. NoReadMissed'
  <2> SUFFICES ASSUME NEW s \in NoiseSelects, noiseAt'[s] = "sleeps", resting'[s]
               PROVE  \E u \in NoiseTasks : noiseAt'[u] = "wakes" /\ s \in WokenBy(u)'
    BY ZenonT(60) DEF NoReadMissed
  <2>1. noiseAt'[t] = "wakes" /\ s \in WokenBy(t)'
    BY ZenonT(60), <1>1 DEF WokenBy
  <2> QED BY ZenonT(60), <2>1
<1> QED BY ZenonT(60), <1>1, <1>2

\* A step that neither a Select's sleep nor what it waits for depends on.
LEMMA WatchUnaffected ==
    ASSUME WatchInv, NEW t \in NoiseTasks, NEW s \in {"idle", "seals", "sends", "locks", "next", "polls", "watches"},
           noiseAt[t] # "wakes", ToStep(t, s), s = "next" => reading' = t,
           \A u \in NoiseTasks : noiseAt[u] = "next" => u = t \/ reading' = reading,
           reading # Nobody => reading' # Nobody,
           newcomers' = newcomers \/ newcomers' = [newcomers EXCEPT ![t] = {}],
           UNCHANGED <<onWatch, quiet, thence, rests>>,
           Readable' => Readable \/ reading' # Nobody
    PROVE  WatchInv'
<1> USE DEF WatchInv, ToStep, rests
<1>1. NoReadMissed'
  <2> SUFFICES ASSUME NEW v \in NoiseSelects, noiseAt'[v] = "sleeps", resting'[v], Readable', reading' = Nobody
               PROVE  \E u \in NoiseTasks : noiseAt'[u] = "wakes" /\ v \in WokenBy(u)'
    BY ZenonT(60) DEF NoReadMissed
  <2>1. v # t /\ noiseAt[v] = "sleeps" /\ resting[v] /\ Readable /\ reading = Nobody
    BY ZenonT(60) DEF NoiseTasks
  <2>2. PICK u \in NoiseTasks : noiseAt[u] = "wakes" /\ v \in WokenBy(u)
    BY ZenonT(60), <2>1 DEF NoReadMissed
  <2>3. u # t /\ noiseAt'[u] = "wakes" /\ v \in WokenBy(u)'
    BY ZenonT(60), <2>2 DEF WokenBy
  <2> QED BY ZenonT(60), <2>3
<1> QED BY ZenonT(60), <1>1

\* Every step keeps WatchInv: one step per action.
LEMMA WatchStep == WatchInv /\ [NoiseNext]_noiseVars => WatchInv'
<1> SUFFICES ASSUME WatchInv, [NoiseNext]_noiseVars PROVE WatchInv'
  OBVIOUS
<1> USE NoiseAssumption
<1>1. CASE UNCHANGED <<reading, onWatch, newcomers, noiseAt, quiet, thence, resting, hasNews>> /\ (Readable' => Readable)
  BY ZenonT(60), <1>1 DEF WatchInv, NoReadMissed, WokenBy
<1>2. CASE UNCHANGED noiseVars
  BY ZenonT(60), <1>1, <1>2 DEF noiseVars, line, cipher, received, holds, rests, Readable, WholeMessage
<1>3. CASE TellSelects /\ UNCHANGED <<holds, noiseAt>>
  BY ZenonT(60), <1>3 DEF TellSelects, holds, WatchInv, NoReadMissed
<1>20. ASSUME NEW t \in NoiseTasks, noiseAt[t] # "wakes", NEW s \in {"asks", "peeks", "polls", "idle"},
              noiseAt' = [noiseAt EXCEPT ![t] = s], UNCHANGED <<reading, quiet>>, Readable' <=> Readable,
              \A u \in NoiseTasks : u # t => newcomers[u] \subseteq newcomers'[u],
              \A v \in NoiseTasks : v # t => (v \in onWatch <=> v \in onWatch'),
              \A v \in NoiseSelects : v # t => resting'[v] = resting[v]
       PROVE  NoReadMissed'
  <2> SUFFICES ASSUME NEW v \in NoiseSelects, noiseAt'[v] = "sleeps", resting'[v], Readable', reading' = Nobody
               PROVE  \E u \in NoiseTasks : noiseAt'[u] = "wakes" /\ v \in WokenBy(u)'
    BY ZenonT(60) DEF NoReadMissed
  <2>1. v \in NoiseTasks /\ v # t /\ noiseAt[v] = "sleeps" /\ resting[v]
    BY ZenonT(60), <1>20 DEF WatchInv, NoiseTasks
  <2>2. PICK u \in NoiseTasks : noiseAt[u] = "wakes" /\ v \in WokenBy(u)
    BY ZenonT(60), <1>20, <2>1 DEF WatchInv, NoReadMissed
  <2>3. u # t /\ noiseAt'[u] = "wakes"
    BY ZenonT(60), <1>20, <2>2 DEF WatchInv
  <2>4. v \in WokenBy(u)'
    BY ZenonT(60), <1>20, <2>1, <2>2, <2>3 DEF WokenBy
  <2> QED BY ZenonT(60), <2>3, <2>4
<1>4. CASE Shut
  BY ZenonT(60), <1>3, <1>4 DEF Shut
<1>5. CASE Damage
  <2>1. UNCHANGED <<shut, received, holds, noiseAt, rests>> /\ wire # <<>>
    BY <1>5 DEF Damage
  <2>2. Readable
    BY ZenonT(60), <2>1 DEF Readable
  <2> QED BY ZenonT(60), <1>1, <2>1, <2>2 DEF holds, rests
<1>6. ASSUME NEW t \in NoiseTasks, SendPiece(t) PROVE WatchInv'
  BY ZenonT(60), <1>3, <1>6 DEF SendPiece
<1>7. ASSUME NEW t \in NoiseTasks, LockWriting(t) \/ Seal(t) \/ NextChunk(t) \/ WriteEnds(t) PROVE WatchInv'
  <2>1. /\ noiseAt[t] \in {"idle", "seals", "sends"}
        /\ UNCHANGED <<line, received, holds, rests>>
        /\ \/ UNCHANGED noiseAt
           \/ \E s \in {"seals", "sends", "idle"} : ToStep(t, s)
    BY ZenonT(60), <1>7 DEF LockWriting, Seal, NextChunk, WriteEnds
  <2>2. Readable' <=> Readable
    BY ZenonT(60), <2>1 DEF line, received, Readable, WholeMessage
  <2>3. CASE UNCHANGED noiseAt
    BY ZenonT(60), <1>1, <2>1, <2>2, <2>3 DEF holds, rests
  <2>4. ASSUME NEW s \in {"seals", "sends", "idle"}, ToStep(t, s) PROVE WatchInv'
    BY ZenonT(60), <2>1, <2>2, <2>4, WatchUnaffected DEF holds
  <2> QED BY ZenonT(60), <2>1, <2>3, <2>4
<1>8. ASSUME NEW t \in NoiseTasks, FirstWatcher(t) PROVE WatchInv'
  BY ZenonT(60), <1>8, WatchUnaffected DEF FirstWatcher, line, received, rests, Readable, WholeMessage
<1>9. ASSUME NEW t \in NoiseTasks, LockReading(t) PROVE WatchInv'
  <2>1. \A u \in NoiseTasks : noiseAt[u] # "next"
    BY ZenonT(60), <1>9 DEF LockReading, WatchInv
  <2> QED BY ZenonT(60), <1>9, <2>1, WatchUnaffected DEF LockReading, line, received, rests, Readable, WholeMessage
<1>10. ASSUME NEW t \in NoiseTasks, WakeThem(t) PROVE WatchInv'
  <2>1. /\ noiseAt[t] = "wakes" /\ (Readable' <=> Readable) /\ UNCHANGED <<reading, hasNews>>
        /\ noiseAt' = [noiseAt EXCEPT ![t] = thence[t]] /\ onWatch' = onWatch \ WokenBy(t)
        /\ resting' = [s \in NoiseSelects |-> resting[s] /\ s \notin WokenBy(t)]
        /\ newcomers' = [newcomers EXCEPT ![t] = {}] /\ quiet' = [quiet EXCEPT ![t] = FALSE]
        /\ thence' = [thence EXCEPT ![t] = "idle"]
    BY ZenonT(60), <1>10 DEF WakeThem, ToStep, line, received, Readable, WholeMessage
  <2>2. NoReadMissed'
    <3> SUFFICES ASSUME NEW v \in NoiseSelects, noiseAt'[v] = "sleeps", resting'[v], Readable', reading' = Nobody
                 PROVE  \E u \in NoiseTasks : noiseAt'[u] = "wakes" /\ v \in WokenBy(u)'
      BY ZenonT(60) DEF NoReadMissed
    <3>1. v \in NoiseTasks /\ v # t /\ noiseAt[v] = "sleeps" /\ resting[v] /\ v \notin WokenBy(t) /\ v \in onWatch
      BY ZenonT(60), <2>1 DEF WatchInv, NoiseTasks
    <3>2. PICK u \in NoiseTasks : noiseAt[u] = "wakes" /\ v \in WokenBy(u)
      BY ZenonT(60), <2>1, <3>1 DEF WatchInv, NoReadMissed
    <3>3. u # t /\ v \in onWatch' /\ noiseAt'[u] = "wakes"
      BY ZenonT(60), <2>1, <3>1, <3>2 DEF WatchInv
    <3>4. newcomers'[u] = newcomers[u] /\ quiet'[u] = quiet[u]
      BY ZenonT(60), <2>1, <3>3 DEF WatchInv
    <3>5. v \in WokenBy(u)'
      BY ZenonT(60), <3>2, <3>3, <3>4 DEF WokenBy
    <3> QED BY ZenonT(60), <3>3, <3>5
  <2> QED BY ZenonT(60), <2>1, <2>2 DEF WatchInv
<1>11. ASSUME NEW t \in NoiseTasks, TakeLeft(t) \/ ReadsEnd(t) \/ ReadGivesUp(t) \/ FillEnds(t) PROVE WatchInv'
  <2>1. noiseAt[t] = "next" /\ Unlock(t, FALSE, "idle") /\ UNCHANGED rests
    BY ZenonT(60), <1>11 DEF TakeLeft, ReadsEnd, ReadGivesUp, FillEnds, NeedsMore
  <2> QED BY ZenonT(60), <2>1, UnlockReports
<1>12. ASSUME NEW t \in NoiseTasks, OpenMessage(t) PROVE WatchInv'
  <2>1. noiseAt[t] = "next" /\ UNCHANGED rests
    BY ZenonT(60), <1>12 DEF OpenMessage
  <2>2. CASE Unlock(t, FALSE, "idle")
    BY ZenonT(60), <2>1, <2>2, UnlockReports
  <2>3. CASE UNCHANGED <<holds, noiseAt>>
    BY ZenonT(60), <2>1, <2>3 DEF holds, rests, WatchInv, NoReadMissed
  <2> QED BY ZenonT(60), <1>12, <2>2, <2>3 DEF OpenMessage
<1>13. ASSUME NEW t \in NoiseTasks, ReceiveMore(t) PROVE WatchInv'
  BY ZenonT(60), <1>13 DEF ReceiveMore, NeedsMore, holds, rests, WatchInv, NoReadMissed
<1>14. ASSUME NEW t \in NoiseTasks, TryReading(t) PROVE WatchInv'
  <2>1. /\ noiseAt[t] \in {"idle", "polls"} /\ UNCHANGED <<line, received, onWatch, quiet, thence, rests>>
        /\ \/ reading = Nobody /\ reading' = t /\ newcomers' = [newcomers EXCEPT ![t] = {}] /\ ToStep(t, "next")
           \/ ToStep(t, "watches") /\ UNCHANGED <<reading, newcomers>>
    BY ZenonT(60), <1>14 DEF TryReading
  <2>2. reading = Nobody => \A u \in NoiseTasks : noiseAt[u] # "next"
    BY ZenonT(60) DEF WatchInv
  <2> QED BY ZenonT(60), <2>1, <2>2, WatchUnaffected DEF line, received, rests, Readable, WholeMessage
<1>15. ASSUME NEW t \in NoiseTasks, TryFindsNothing(t) PROVE WatchInv'
  <2>1. ~Readable'
    BY ZenonT(60), <1>15 DEF TryFindsNothing, NeedsMore, line, received, Readable, WholeMessage
  <2> QED BY ZenonT(60), <1>15, <2>1 DEF TryFindsNothing, NeedsMore, Unlock, ToStep, rests, WatchInv, NoReadMissed
<1>16. ASSUME NEW t \in NoiseTasks, WatchReading(t) PROVE WatchInv'
  <2>1. /\ noiseAt[t] = "watches" /\ (Readable' <=> Readable) /\ UNCHANGED <<reading, quiet, thence, hasNews>>
        /\ noiseAt' = [noiseAt EXCEPT ![t] = "asks"] /\ onWatch' = onWatch \cup {t}
        /\ newcomers' = [u \in NoiseTasks |-> IF u = t THEN {} ELSE newcomers[u] \cup {t}]
        /\ resting' = [resting EXCEPT ![t] = ~hasNews[t]]
    BY ZenonT(60), <1>16 DEF WatchReading, ToStep, line, received, Readable, WholeMessage
  <2>2. \A u \in NoiseTasks : u # t => newcomers[u] \subseteq newcomers'[u]
    BY ZenonT(60), <2>1
  <2>3. NoReadMissed'
    BY ZenonT(60), <1>20, <2>1, <2>2 DEF WatchInv
  <2>4. newcomers' \in [NoiseTasks -> SUBSET NoiseTasks]
    BY ZenonT(60), <2>1 DEF WatchInv
  <2>5. \A v \in NoiseSelects : resting'[v] => v \in onWatch'
    BY ZenonT(60), <2>1 DEF WatchInv
  <2> QED BY ZenonT(60), <2>1, <2>3, <2>4, <2>5 DEF WatchInv
<1>17. ASSUME NEW t \in NoiseTasks, AskLocked(t) PROVE WatchInv'
  <2>1. /\ noiseAt[t] = "asks" /\ (Readable' <=> Readable)
        /\ UNCHANGED <<reading, onWatch, newcomers, quiet, thence, resting, hasNews>>
        /\ noiseAt' = [noiseAt EXCEPT ![t] = IF reading = Nobody THEN "peeks" ELSE "sleeps"]
    BY ZenonT(60), <1>17 DEF AskLocked, ToStep, line, received, holds, rests, Readable, WholeMessage
  <2>2. CASE reading # Nobody
    BY ZenonT(60), <2>1, <2>2 DEF WatchInv, NoReadMissed
  <2>3. CASE reading = Nobody
    BY ZenonT(60), <1>20, <2>1, <2>3 DEF WatchInv
  <2> QED BY ZenonT(60), <2>2, <2>3
<1>18. ASSUME NEW t \in NoiseTasks, PeekReadable(t) PROVE WatchInv'
  <2>1. /\ noiseAt[t] = "peeks" /\ (Readable' <=> Readable) /\ UNCHANGED <<reading, newcomers, quiet, thence, hasNews>>
    BY ZenonT(60), <1>18 DEF PeekReadable, line, received, Readable, WholeMessage
  <2>2. CASE Readable
    <3>1. /\ onWatch' = onWatch \ {t} /\ resting' = [resting EXCEPT ![t] = FALSE]
          /\ noiseAt' = [noiseAt EXCEPT ![t] = "polls"]
      BY ZenonT(60), <1>18, <2>2 DEF PeekReadable, ToStep
    <3> QED BY ZenonT(60), <1>20, <2>1, <3>1 DEF WatchInv
  <2>3. CASE ~Readable
    <3>1. UNCHANGED <<onWatch, resting>> /\ noiseAt' = [noiseAt EXCEPT ![t] = "sleeps"]
      BY ZenonT(60), <1>18, <2>3 DEF PeekReadable, ToStep
    <3> QED BY ZenonT(60), <2>1, <2>3, <3>1 DEF WatchInv, NoReadMissed
  <2> QED BY ZenonT(60), <2>2, <2>3
<1>19. ASSUME NEW t \in NoiseSelects, SelectWakes(t) PROVE WatchInv'
  <2>1. /\ noiseAt[t] = "sleeps" /\ (Readable' <=> Readable) /\ UNCHANGED <<reading, newcomers, quiet, thence>>
        /\ onWatch' = onWatch \ {t} /\ resting' = [resting EXCEPT ![t] = FALSE]
        /\ hasNews' \in [NoiseSelects -> BOOLEAN]
    BY ZenonT(60), <1>19 DEF SelectWakes, line, received, Readable, WholeMessage, WatchInv
  <2>2. t \in NoiseTasks /\ \E s \in {"polls", "idle"} : noiseAt' = [noiseAt EXCEPT ![t] = s]
    BY ZenonT(60), <1>19 DEF SelectWakes, ToStep, NoiseTasks
  <2> QED BY ZenonT(60), <1>20, <2>1, <2>2 DEF WatchInv
<1> QED
  BY ZenonT(60), <1>2, <1>4, <1>5, <1>6, <1>7, <1>8, <1>9, <1>10, <1>11, <1>12, <1>13, <1>14, <1>15, <1>16, <1>17,
     <1>18, <1>19
  DEF NoiseNext

\* A Select that sleeps although the stream is readable and nobody holds the
\* read lock is one that a task is about to wake.
THEOREM NoSelectMissesARead == NoiseSpec => []NoReadMissed
<1>1. WatchInv => NoReadMissed
  BY ZenonT(60) DEF WatchInv
<1> QED BY WatchStart, WatchStep, <1>1, PTL DEF NoiseSpec

-----------------------------------------------------------------------------
(* TLS: locks and watchers.                                                *)

\* Where a task can be, and where it can go once it has woken the watchers.
TlsSteps == {"idle", "wakes", "tries", "takes", "fills", "reader", "looks", "receives", "locksWrite", "takesRecords",
             "sends", "sender", "inspects", "handshake", "locksShake", "locksInner", "shakes", "fillsNow", "looksNow",
             "writesNow", "receivesNow", "watches", "asksShaken", "asksReading", "asksShaking", "peeks", "peeksShaken",
             "registers", "sleeps"}
TlsAfters == {"idle", "tries", "fills", "fillsNow", "watches", "sender", "inspects"}

\* The steps of a task that may hold a lock, and those after the handshake.
Holding == {"takes", "looks", "receives", "locksWrite", "takesRecords", "sends", "looksNow", "writesNow", "receivesNow",
            "locksInner", "shakes"}
Settled == {"takes", "reader", "looks", "receives", "locksWrite", "takesRecords", "sends", "sender", "inspects",
            "looksNow", "writesNow", "receivesNow"}

\* The stream's locks.
Locks == {"read", "write", "shake", "inner"}

\* The types of what the argument is about.
LockTypes ==
    /\ step \in [TlsTasks -> TlsSteps] /\ after \in [TlsTasks -> TlsAfters]
    /\ holder \in [Locks -> TlsTasks \cup {NoTask}] /\ handshaken \in BOOLEAN

\* Which locks a task has, by where it is; and where the handshake is over.
LockAt(t) ==
    /\ holder["inner"] = t <=> step[t] = "shakes"
    /\ holder["shake"] = t <=> step[t] \in {"locksInner", "shakes"}
    /\ holder["write"] = t => step[t] \in {"takesRecords", "sends", "writesNow"}
    /\ holder["read"] = t => step[t] \in Holding
    /\ step[t] = "shakes" => ~handshaken
    /\ step[t] \in Settled => handshaken
    /\ step[t] = "wakes" /\ after[t] \in {"sender", "inspects"} => handshaken

\* The inductive invariant behind NobodyHeldUp.
LockInv == LockTypes /\ \A t \in TlsTasks : LockAt(t)

\* A task that is going to wake the watchers, or to read what there is: it holds
\* a lock whose release wakes them, is waking them, or is about to read.
Helps(u, t) ==
    \/ u \in {holder["read"], holder["write"], holder["shake"]}
    \/ step[u] = "wakes" /\ (t \in Wakes(u) \/ (handshaken /\ after[u] = "fills"))
    \/ handshaken /\ step[u] \in {"fills", "reader"}

\* The types of what a Select's watch is made of.
SelTypes ==
    /\ asleep \in [Selects -> BOOLEAN] /\ told \in [Selects -> BOOLEAN]
    /\ idle \in [TlsTasks -> BOOLEAN] /\ since \in [TlsTasks -> SUBSET Selects]

\* The inductive invariant behind NoSelectStranded: a sleeping Select is among
\* the watchers, and if there is something to take another task helps.
SelInv ==
    /\ SelTypes
    /\ \A s \in Selects : asleep[s] => s \in watchers
    /\ \A t \in Selects \ misled :
         step[t] \in {"registers", "sleeps"} /\ asleep[t] /\ Takable => \E u \in TlsTasks \ {t} : Helps(u, t)

\* A read that takes something takes it from the socket.
LEMMA ReadsSomething == ReadSocket => net # <<>>
  BY DEF ReadSocket

\* At most one task selects on the stream; the others read, write and inspect.
OneSelect == \A s, u \in Selects : s = u

\* What the parts of actions do: a task goes to a step,
LEMMA TlsGoesFacts ==
    ASSUME LockTypes, NEW t \in TlsTasks, NEW s \in TlsSteps, TlsGoes(t, s)
    PROVE  /\ step' \in [TlsTasks -> TlsSteps] /\ step'[t] = s
           /\ \A u \in TlsTasks \ {t} : step'[u] = step[u]
  BY ZenonT(60) DEF LockTypes, TlsGoes

\* takes a lock,
LEMMA AcquireFacts ==
    ASSUME LockTypes, NEW t \in TlsTasks, NEW l \in Locks, Acquire(t, l)
    PROVE  /\ holder' \in [Locks -> TlsTasks \cup {NoTask}] /\ holder[l] = NoTask /\ holder'[l] = t
           /\ \A k \in Locks \ {l} : holder'[k] = holder[k]
           /\ \A k \in Locks : \A u \in TlsTasks \ {t} : holder'[k] = u <=> holder[k] = u
  BY ZenonT(60), TlsAssumption DEF LockTypes, Acquire

\* and releases its locks,
LEMMA ReleaseHolds ==
    ASSUME LockTypes, NEW t \in TlsTasks, NEW q, NEW s, Release(t, q, s)
    PROVE  /\ holder' \in [Locks -> TlsTasks \cup {NoTask}]
           /\ \A k \in Locks : \A u \in TlsTasks \ {t} : holder'[k] = u <=> holder[k] = u
           /\ \A k \in Locks : holder'[k] # t
<1>1. DOMAIN holder = Locks
  BY ZenonT(60) DEF LockTypes
<1>2. holder' = [l \in Locks |-> IF holder[l] = t THEN NoTask ELSE holder[l]]
  BY ZenonT(60), <1>1 DEF Release
<1>3. \A k \in Locks : holder'[k] = IF holder[k] = t THEN NoTask ELSE holder[k]
  BY ZenonT(60), <1>2
<1>4. holder' \in [Locks -> TlsTasks \cup {NoTask}]
  BY ZenonT(60), <1>2 DEF LockTypes
<1>5. \A k \in Locks : holder'[k] # t
  BY ZenonT(60), <1>3, TlsAssumption
<1>6. \A k \in Locks : \A u \in TlsTasks \ {t} : holder'[k] = u <=> holder[k] = u
  BY ZenonT(60), <1>3, TlsAssumption
<1> QED BY ZenonT(60), <1>4, <1>5, <1>6

\* with a place to go on at.
LEMMA ReleaseFacts ==
    ASSUME LockTypes, NEW t \in TlsTasks, NEW q, NEW s \in TlsAfters, Release(t, q, s)
    PROVE  /\ after' \in [TlsTasks -> TlsAfters]
           /\ step' \in [TlsTasks -> TlsSteps] /\ step'[t] = "wakes" /\ after'[t] = s
           /\ \A u \in TlsTasks \ {t} : step'[u] = step[u] /\ after'[u] = after[u]
<1>1. TlsGoes(t, "wakes") /\ after' = [after EXCEPT ![t] = s]
  BY ZenonT(60) DEF Release
<1>2. /\ after' \in [TlsTasks -> TlsAfters] /\ after'[t] = s
      /\ \A u \in TlsTasks \ {t} : after'[u] = after[u]
  BY ZenonT(60), <1>1 DEF LockTypes
<1>3. "wakes" \in TlsSteps
  BY ZenonT(60) DEF TlsSteps
<1> QED BY ZenonT(60), <1>1, <1>2, <1>3, TlsGoesFacts

\* A step of one task, if the task itself is afterwards where its locks say.
LEMMA LockKeeps ==
    ASSUME LockInv, NEW t \in TlsTasks, LockTypes', LockAt(t)',
           \A u \in TlsTasks \ {t} : step'[u] = step[u] /\ after'[u] = after[u],
           \A k \in Locks : \A u \in TlsTasks \ {t} : holder'[k] = u <=> holder[k] = u,
           handshaken' = handshaken \/ (handshaken' /\ step[t] = "shakes")
    PROVE  LockInv'
<1> SUFFICES ASSUME NEW u \in TlsTasks \ {t} PROVE LockAt(u)'
  BY ZenonT(60) DEF LockInv
<1>1. LockAt(u) /\ LockAt(t)
  BY ZenonT(60) DEF LockInv
<1>2. {"read", "write", "shake", "inner"} \subseteq Locks
  BY ZenonT(60) DEF Locks
<1>3. step'[u] = step[u] /\ after'[u] = after[u]
  BY ZenonT(60)
<1>4. /\ holder'["read"] = u <=> holder["read"] = u
      /\ holder'["write"] = u <=> holder["write"] = u
      /\ holder'["shake"] = u <=> holder["shake"] = u
      /\ holder'["inner"] = u <=> holder["inner"] = u
  BY ZenonT(60), <1>2
<1>5. step[u] = "shakes" => handshaken' = handshaken
  BY ZenonT(60), <1>1 DEF LockAt
<1> QED BY ZenonT(60), <1>1, <1>3, <1>4, <1>5 DEF LockAt

\* Kinds of steps: the locks are released,
LEMMA ReleaseKeeps ==
    ASSUME LockInv, NEW t \in TlsTasks, NEW q, NEW s \in TlsAfters, Release(t, q, s),
           handshaken' = handshaken \/ (handshaken' /\ step[t] = "shakes"),
           handshaken' \in BOOLEAN, s \in {"sender", "inspects"} => handshaken'
    PROVE  LockInv'
<1>1. LockTypes
  BY ZenonT(60) DEF LockInv
<1>2. LockTypes'
  BY ZenonT(60), <1>1, ReleaseFacts, ReleaseHolds DEF LockTypes
<1>3. step'[t] = "wakes" /\ after'[t] = s
  BY ZenonT(60), <1>1, ReleaseFacts
<1>5. \A k \in Locks : holder'[k] # t
  BY ZenonT(60), <1>1, ReleaseHolds
<1>4. LockAt(t)'
  BY ZenonT(60), <1>3, <1>5 DEF LockAt, Locks, Settled
<1>6. \A u \in TlsTasks \ {t} : step'[u] = step[u] /\ after'[u] = after[u]
  BY ZenonT(60), <1>1, ReleaseFacts
<1>7. \A k \in Locks : \A u \in TlsTasks \ {t} : holder'[k] = u <=> holder[k] = u
  BY ZenonT(60), <1>1, ReleaseHolds
<1> QED BY ZenonT(60), <1>2, <1>4, <1>6, <1>7, LockKeeps

\* the task goes on with the locks it has,
LEMMA GoKeeps ==
    ASSUME LockInv, NEW t \in TlsTasks, NEW s \in TlsSteps \ {"wakes", "locksInner", "shakes"}, TlsGoes(t, s),
           step[t] \notin {"locksInner", "shakes"}, UNCHANGED <<holder, after, handshaken>>,
           step[t] \in Holding => s \in Holding,
           step[t] \in {"takesRecords", "sends", "writesNow"} => s \in {"takesRecords", "sends", "writesNow"},
           s \in Settled => handshaken
    PROVE  LockInv'
<1>1. LockTypes /\ LockAt(t)
  BY ZenonT(60) DEF LockInv
<1>2. LockTypes'
  BY ZenonT(60), <1>1, TlsGoesFacts DEF LockTypes
<1>3. step'[t] = s /\ \A u \in TlsTasks \ {t} : step'[u] = step[u]
  BY ZenonT(60), <1>1, TlsGoesFacts
<1>4. LockAt(t)'
  BY ZenonT(60), <1>1, <1>3 DEF LockAt
<1> QED BY ZenonT(60), <1>2, <1>3, <1>4, LockKeeps

\* and it takes one more.
LEMMA AcquireKeeps ==
    ASSUME LockInv, NEW t \in TlsTasks, NEW l \in Locks, NEW s \in TlsSteps, Acquire(t, l), TlsGoes(t, s),
           UNCHANGED <<after, handshaken>>, s # "wakes", s \in Settled => handshaken, s \in Holding,
           l = "inner" <=> s = "shakes", l = "shake" <=> s = "locksInner", step[t] # "shakes",
           s = "shakes" => step[t] = "locksInner" /\ ~handshaken,
           step[t] = "locksInner" => s = "shakes",
           l = "write" \/ step[t] \in {"takesRecords", "sends", "writesNow"} => s \in {"takesRecords", "sends", "writesNow"}
    PROVE  LockInv'
<1>1. LockTypes /\ LockAt(t)
  BY ZenonT(60) DEF LockInv
<1>2. /\ step'[t] = s /\ \A u \in TlsTasks \ {t} : step'[u] = step[u]
      /\ step' \in [TlsTasks -> TlsSteps]
  BY ZenonT(60), <1>1, TlsGoesFacts
<1>3. /\ holder' \in [Locks -> TlsTasks \cup {NoTask}] /\ holder'[l] = t
      /\ \A k \in Locks \ {l} : holder'[k] = holder[k]
      /\ \A k \in Locks : \A u \in TlsTasks \ {t} : holder'[k] = u <=> holder[k] = u
  BY ZenonT(60), <1>1, AcquireFacts
<1>4. LockTypes'
  BY ZenonT(60), <1>1, <1>2, <1>3 DEF LockTypes
<1>5. LockAt(t)'
  <2>1. /\ l # "read" => holder'["read"] = holder["read"]
        /\ l # "write" => holder'["write"] = holder["write"]
        /\ l # "shake" => holder'["shake"] = holder["shake"]
        /\ l # "inner" => holder'["inner"] = holder["inner"]
    BY ZenonT(60), <1>3 DEF Locks
  <2> QED BY ZenonT(60), <1>1, <1>2, <1>3, <2>1 DEF LockAt
<1> QED BY ZenonT(60), <1>2, <1>3, <1>4, <1>5, LockKeeps

\* The locks, initially and after a step of each kind.
LEMMA LockStarts ==
    TlsInit => LockInv
<1> SUFFICES ASSUME TlsInit PROVE LockInv
  OBVIOUS
<1>1. holder \in [Locks -> TlsTasks \cup {NoTask}] /\ \A l \in Locks : holder[l] = NoTask
  BY SMTT(40) DEF TlsInit, Locks
<1>2. /\ step \in [TlsTasks -> TlsSteps] /\ after \in [TlsTasks -> TlsAfters] /\ handshaken \in BOOLEAN
      /\ \A t \in TlsTasks : step[t] = "idle"
  BY ZenonT(60) DEF TlsInit, TlsSteps, TlsAfters
<1>3. ASSUME NEW t \in TlsTasks PROVE LockAt(t)
  BY ZenonT(60), <1>1, <1>2, TlsAssumption DEF LockAt, Locks, Settled
<1> QED BY ZenonT(60), <1>1, <1>2, <1>3 DEF LockInv, LockTypes

\* Where a handshake's caller goes on is somewhere it may be.
LEMMA ShakenFacts ==
    ASSUME NEW t \in TlsTasks, NEW s \in Shaken(t)
    PROVE  /\ s \in TlsAfters /\ s \in TlsSteps \ {"wakes", "locksInner", "shakes"}
           /\ s \in {"sender", "inspects", "tries"}
  BY ZenonT(60) DEF Shaken, TlsAfters, TlsSteps

\* One step per action of a task.
LEMMA LockStep ==
    ASSUME LockInv, NEW t \in TlsTasks, TlsCall(t) \/ Works(t) \/ GiveUp(t) \/ ShakeFails(t)
    PROVE  LockInv'
<1>1. LockTypes /\ LockAt(t) /\ handshaken \in BOOLEAN
  BY ZenonT(60) DEF LockInv, LockTypes
<1> USE DEF held, sleeps, rustls, socket
<1>2. CASE TlsCall(t)
  <2>1. PICK s \in {"tries", "handshake", "sender"} : TlsGoes(t, s) /\ (s \in Settled => handshaken)
    BY ZenonT(60), <1>2, <1>1 DEF TlsCall, Settled, LockAt
  <2>2. s \in TlsSteps \ {"wakes", "locksInner", "shakes"}
    BY ZenonT(60) DEF TlsSteps
  <2>3. UNCHANGED <<holder, after, handshaken>>
    BY ZenonT(60), <1>2 DEF TlsCall
  <2>4. step[t] \notin Holding
    BY ZenonT(60), <1>2 DEF TlsCall, Holding
  <2>5. step[t] \notin {"locksInner", "shakes", "takesRecords", "sends", "writesNow"}
    BY ZenonT(60), <2>4 DEF Holding
  <2> QED BY ZenonT(60), <2>1, <2>2, <2>3, <2>4, <2>5, GoKeeps
<1>3. CASE WakeWatchers(t)
  <2>1. step[t] = "wakes" /\ TlsGoes(t, after[t]) /\ after' = [after EXCEPT ![t] = "idle"] /\ UNCHANGED <<holder, handshaken>>
    BY ZenonT(60), <1>3 DEF WakeWatchers
  <2>2. after[t] \in TlsAfters /\ after[t] \in TlsSteps
    BY ZenonT(60), <1>1 DEF LockTypes, TlsAfters, TlsSteps
  <2>3. /\ step'[t] = after[t] /\ step' \in [TlsTasks -> TlsSteps]
        /\ \A u \in TlsTasks \ {t} : step'[u] = step[u]
    BY ZenonT(60), <1>1, <2>1, <2>2, TlsGoesFacts
  <2>4. after' \in [TlsTasks -> TlsAfters] /\ \A u \in TlsTasks \ {t} : after'[u] = after[u]
    BY ZenonT(60), <1>1, <2>1 DEF LockTypes, TlsAfters
  <2>5. \A l \in Locks : holder[l] # t
    BY ZenonT(60), <1>1, <2>1 DEF LockAt, Locks, Holding
  <2>6. LockTypes'
    BY ZenonT(60), <1>1, <2>1, <2>3, <2>4 DEF LockTypes
  <2>7. LockAt(t)'
    BY ZenonT(60), <1>1, <2>1, <2>2, <2>3, <2>5 DEF LockAt, Locks, TlsAfters, Settled
  <2> QED BY ZenonT(60), <2>1, <2>3, <2>4, <2>6, <2>7, LockKeeps
<1>4. CASE TryRead(t)
  <2>1. /\ step[t] = "tries" /\ UNCHANGED <<after, handshaken>>
        /\ \/ Acquire(t, "read") /\ TlsGoes(t, "takes") /\ handshaken
           \/ TlsGoes(t, FillWire(t)) /\ UNCHANGED holder
    BY ZenonT(60), <1>4 DEF TryRead, TryLock
  <2>2. CASE Acquire(t, "read") /\ TlsGoes(t, "takes") /\ handshaken
    BY ZenonT(60), <1>1, <2>1, <2>2, AcquireKeeps DEF Locks, TlsSteps, Settled, Holding
  <2>3. CASE TlsGoes(t, FillWire(t)) /\ UNCHANGED holder
    BY ZenonT(60), <2>1, <2>3, GoKeeps DEF TlsSteps, Settled, Holding, FillWire
  <2> QED BY ZenonT(60), <2>1, <2>2, <2>3
<1>5. CASE TakePlain(t)
  <2>1. Release(t, FALSE, "idle") /\ handshaken' = handshaken
    BY ZenonT(60), <1>5 DEF TakePlain
  <2>2. ("idle") \in TlsAfters \ {"sender", "inspects"}
    BY ZenonT(60) DEF TlsAfters
  <2> QED BY ZenonT(60), <1>1, <2>1, <2>2, ReleaseKeeps
<1>6. CASE TakeNothing(t)
  <2>1. Release(t, TRUE, FillWire(t)) /\ handshaken' = handshaken
    BY ZenonT(60), <1>6 DEF TakeNothing
  <2>2. (FillWire(t)) \in TlsAfters \ {"sender", "inspects"}
    BY ZenonT(60) DEF TlsAfters, FillWire
  <2> QED BY ZenonT(60), <1>1, <2>1, <2>2, ReleaseKeeps
<1>7. CASE Decrypt(t)
  <2>1. handshaken' = handshaken /\ (Release(t, FALSE, FillWire(t)) \/ UNCHANGED <<held, step>>)
    BY ZenonT(60), <1>7 DEF Decrypt
  <2>2. FillWire(t) \in TlsAfters \ {"sender", "inspects"}
    BY ZenonT(60) DEF TlsAfters, FillWire
  <2>3. CASE Release(t, FALSE, FillWire(t))
    BY ZenonT(60), <1>1, <2>1, <2>2, <2>3, ReleaseKeeps
  <2>4. CASE UNCHANGED <<held, step>>
    BY ZenonT(60), <2>1, <2>4 DEF LockInv, LockTypes, LockAt
  <2> QED BY ZenonT(60), <2>1, <2>3, <2>4
<1>8. CASE FillStarts(t)
  <2>1. PICK s \in {"reader", "handshake"} : TlsGoes(t, s) /\ (s \in Settled => handshaken)
    BY ZenonT(60), <1>8, <1>1 DEF FillStarts, FirstId, Settled, LockAt
  <2>2. s \in TlsSteps \ {"wakes", "locksInner", "shakes"}
    BY ZenonT(60) DEF TlsSteps
  <2>3. UNCHANGED <<holder, after, handshaken>>
    BY ZenonT(60), <1>8 DEF FillStarts, FirstId
  <2>4. step[t] \notin Holding
    BY ZenonT(60), <1>8 DEF FillStarts, Holding
  <2>5. step[t] \notin {"locksInner", "shakes", "takesRecords", "sends", "writesNow"}
    BY ZenonT(60), <2>4 DEF Holding
  <2> QED BY ZenonT(60), <2>1, <2>2, <2>3, <2>4, <2>5, GoKeeps
<1>9. CASE LockRead(t)
  <2>1. Acquire(t, "read") /\ TlsGoes(t, "looks") /\ UNCHANGED <<after, handshaken>>
    BY ZenonT(60), <1>9 DEF LockRead
  <2>2. step[t] = "reader"
    BY ZenonT(60), <1>9 DEF LockRead
  <2> QED BY ZenonT(60), <1>1, <2>1, <2>2, AcquireKeeps DEF Locks, TlsSteps, Settled, Holding, LockAt
<1>10. CASE Look(t)
  <2>1. /\ step[t] = "looks" /\ handshaken' = handshaken
        /\ \/ Release(t, FALSE, "tries")
           \/ \E s \in {"locksWrite", "receives"} : TlsGoes(t, s) /\ UNCHANGED <<holder, after>>
    BY ZenonT(60), <1>10 DEF Look
  <2>2. CASE Release(t, FALSE, "tries")
    BY ZenonT(60), <1>1, <2>1, <2>2, ReleaseKeeps DEF TlsAfters
  <2>3. CASE \E s \in {"locksWrite", "receives"} : TlsGoes(t, s) /\ UNCHANGED <<holder, after>>
    BY ZenonT(60), <1>1, <2>1, <2>3, GoKeeps DEF TlsSteps, Settled, Holding, LockAt
  <2> QED BY ZenonT(60), <2>1, <2>2, <2>3
<1>11. CASE Receive(t)
  <2>1. Release(t, FALSE, "tries") /\ handshaken' = handshaken
    BY ZenonT(60), <1>11 DEF Receive
  <2>2. ("tries") \in TlsAfters \ {"sender", "inspects"}
    BY ZenonT(60) DEF TlsAfters
  <2> QED BY ZenonT(60), <1>1, <2>1, <2>2, ReleaseKeeps
<1>12. CASE SenderStarts(t)
  <2>1. PICK s \in {"locksWrite"} : TlsGoes(t, s) /\ (s \in Settled => handshaken)
    BY ZenonT(60), <1>12, <1>1 DEF SenderStarts, FirstId, Settled, LockAt
  <2>2. s \in TlsSteps \ {"wakes", "locksInner", "shakes"}
    BY ZenonT(60) DEF TlsSteps
  <2>3. UNCHANGED <<holder, after, handshaken>>
    BY ZenonT(60), <1>12 DEF SenderStarts, FirstId
  <2>4. step[t] \notin Holding
    BY ZenonT(60), <1>12 DEF SenderStarts, Holding
  <2>5. step[t] \notin {"locksInner", "shakes", "takesRecords", "sends", "writesNow"}
    BY ZenonT(60), <2>4 DEF Holding
  <2> QED BY ZenonT(60), <2>1, <2>2, <2>3, <2>4, <2>5, GoKeeps
<1>13. CASE LockWrite(t)
  <2>1. Acquire(t, "write") /\ TlsGoes(t, "takesRecords") /\ UNCHANGED <<after, handshaken>>
    BY ZenonT(60), <1>13 DEF LockWrite
  <2>2. step[t] = "locksWrite"
    BY ZenonT(60), <1>13 DEF LockWrite
  <2> QED BY ZenonT(60), <1>1, <2>1, <2>2, AcquireKeeps DEF Locks, TlsSteps, Settled, Holding, LockAt
<1>14. CASE TakeRecords(t)
  <2>1. step[t] = "takesRecords" /\ TlsGoes(t, "sends") /\ UNCHANGED <<holder, after, handshaken>>
    BY ZenonT(60), <1>14 DEF TakeRecords
  <2> QED BY ZenonT(60), <1>1, <2>1, GoKeeps DEF Holding, TlsSteps, Settled, LockAt
<1>15. CASE Send(t)
  <2>1. Release(t, FALSE, IF t \in Writers THEN "idle" ELSE "tries") /\ handshaken' = handshaken
    BY ZenonT(60), <1>15 DEF Send
  <2>2. (IF t \in Writers THEN "idle" ELSE "tries") \in TlsAfters \ {"sender", "inspects"}
    BY ZenonT(60) DEF TlsAfters
  <2> QED BY ZenonT(60), <1>1, <2>1, <2>2, ReleaseKeeps
<1>16. CASE Inspect(t)
  <2>1. PICK s \in {"idle"} : TlsGoes(t, s) /\ (s \in Settled => handshaken)
    BY ZenonT(60), <1>16, <1>1 DEF Inspect, InnerFree, InnerSteps, Settled, LockAt
  <2>2. s \in TlsSteps \ {"wakes", "locksInner", "shakes"}
    BY ZenonT(60) DEF TlsSteps
  <2>3. UNCHANGED <<holder, after, handshaken>>
    BY ZenonT(60), <1>16 DEF Inspect, InnerFree, InnerSteps
  <2>4. step[t] \notin Holding
    BY ZenonT(60), <1>16 DEF Inspect, Holding
  <2>5. step[t] \notin {"locksInner", "shakes", "takesRecords", "sends", "writesNow"}
    BY ZenonT(60), <2>4 DEF Holding
  <2> QED BY ZenonT(60), <2>1, <2>2, <2>3, <2>4, <2>5, GoKeeps
<1>17. CASE Handshake(t)
  <2>1. PICK s \in {"sender", "inspects", "tries", "locksShake"} : TlsGoes(t, s) /\ (s \in Settled => handshaken)
    BY ZenonT(60), <1>17, <1>1, ShakenFacts DEF Handshake, FirstId, Settled, LockAt
  <2>2. s \in TlsSteps \ {"wakes", "locksInner", "shakes"}
    BY ZenonT(60) DEF TlsSteps
  <2>3. UNCHANGED <<holder, after, handshaken>>
    BY ZenonT(60), <1>17 DEF Handshake, FirstId
  <2>4. step[t] \notin Holding
    BY ZenonT(60), <1>17 DEF Handshake, Holding
  <2>5. step[t] \notin {"locksInner", "shakes", "takesRecords", "sends", "writesNow"}
    BY ZenonT(60), <2>4 DEF Holding
  <2> QED BY ZenonT(60), <2>1, <2>2, <2>3, <2>4, <2>5, GoKeeps
<1>18. CASE LockHandshake(t)
  <2>1. Acquire(t, "shake") /\ TlsGoes(t, "locksInner") /\ UNCHANGED <<after, handshaken>>
    BY ZenonT(60), <1>18 DEF LockHandshake, ShakeLock
  <2>2. step[t] = "locksShake"
    BY ZenonT(60), <1>18 DEF LockHandshake
  <2> QED BY ZenonT(60), <1>1, <2>1, <2>2, AcquireKeeps DEF Locks, TlsSteps, Settled, Holding, LockAt
<1>19. CASE LockInner(t)
  <2>1. /\ step[t] = "locksInner" /\ handshaken' = handshaken
        /\ \/ handshaken /\ \E s \in Shaken(t) : Release(t, FALSE, s)
           \/ ~handshaken /\ Acquire(t, "inner") /\ TlsGoes(t, "shakes") /\ UNCHANGED after
    BY ZenonT(60), <1>19 DEF LockInner
  <2>2. CASE handshaken /\ \E s \in Shaken(t) : Release(t, FALSE, s)
    BY ZenonT(60), <1>1, <2>1, <2>2, ShakenFacts, ReleaseKeeps
  <2>3. CASE ~handshaken /\ Acquire(t, "inner") /\ TlsGoes(t, "shakes") /\ UNCHANGED after
    BY ZenonT(60), <1>1, <2>1, <2>3, AcquireKeeps DEF Locks, TlsSteps, Settled, Holding
  <2> QED BY ZenonT(60), <2>1, <2>2, <2>3
<1>20. CASE HandshakeNow(t)
  <2>1. /\ step[t] = "fillsNow" /\ UNCHANGED <<after, handshaken>>
        /\ \/ Acquire(t, "shake") /\ TlsGoes(t, "locksInner")
           \/ TlsGoes(t, "watches") /\ UNCHANGED holder
    BY ZenonT(60), <1>20 DEF HandshakeNow, TryLock
  <2>2. CASE Acquire(t, "shake") /\ TlsGoes(t, "locksInner")
    BY ZenonT(60), <1>1, <2>1, <2>2, AcquireKeeps DEF Locks, TlsSteps, Settled, Holding
  <2>3. CASE TlsGoes(t, "watches") /\ UNCHANGED holder
    BY ZenonT(60), <2>1, <2>3, GoKeeps DEF TlsSteps, Settled, Holding
  <2> QED BY ZenonT(60), <2>1, <2>2, <2>3
<1>21. CASE ShakeWrite(t)
  BY ZenonT(60), <1>21, <1>1 DEF ShakeWrite, LockInv, LockTypes, LockAt
<1>22. CASE ShakeRead(t)
  BY ZenonT(60), <1>22, <1>1 DEF ShakeRead, LockInv, LockTypes, LockAt
<1>23. CASE ShakeDone(t)
  <2>1. PICK s \in Shaken(t) : Release(t, FALSE, s)
    BY ZenonT(60), <1>23 DEF ShakeDone
  <2>2. handshaken' = TRUE /\ step[t] = "shakes"
    BY ZenonT(60), <1>23 DEF ShakeDone
  <2>3. s \in TlsAfters
    BY ZenonT(60), ShakenFacts
  <2> QED BY ZenonT(60), <2>1, <2>2, <2>3, ReleaseKeeps
<1>24. CASE ShakeNowBlocks(t)
  <2>1. Release(t, idle[t], IF idle[t] THEN "watches" ELSE "tries") /\ handshaken' = handshaken
    BY ZenonT(60), <1>24 DEF ShakeNowBlocks
  <2>2. (IF idle[t] THEN "watches" ELSE "tries") \in TlsAfters \ {"sender", "inspects"}
    BY ZenonT(60) DEF TlsAfters
  <2> QED BY ZenonT(60), <1>1, <2>1, <2>2, ReleaseKeeps
<1>25. CASE FillNow(t)
  <2>1. /\ step[t] = "fillsNow" /\ UNCHANGED <<after, handshaken>>
        /\ \/ Acquire(t, "read") /\ TlsGoes(t, "looksNow") /\ handshaken
           \/ TlsGoes(t, "watches") /\ UNCHANGED holder
    BY ZenonT(60), <1>25 DEF FillNow, TryLock
  <2>2. CASE Acquire(t, "read") /\ TlsGoes(t, "looksNow") /\ handshaken
    BY ZenonT(60), <1>1, <2>1, <2>2, AcquireKeeps DEF Locks, TlsSteps, Settled, Holding
  <2>3. CASE TlsGoes(t, "watches") /\ UNCHANGED holder
    BY ZenonT(60), <2>1, <2>3, GoKeeps DEF TlsSteps, Settled, Holding
  <2> QED BY ZenonT(60), <2>1, <2>2, <2>3
<1>26. CASE LookNowOwing(t)
  <2>1. /\ step[t] = "looksNow" /\ handshaken' = handshaken
        /\ \/ Acquire(t, "write") /\ TlsGoes(t, "writesNow") /\ UNCHANGED after
           \/ Release(t, FALSE, "watches")
    BY ZenonT(60), <1>26 DEF LookNowOwing
  <2>2. CASE Acquire(t, "write") /\ TlsGoes(t, "writesNow") /\ UNCHANGED after
    BY ZenonT(60), <1>1, <2>1, <2>2, AcquireKeeps DEF Locks, TlsSteps, Settled, Holding, LockAt
  <2>3. CASE Release(t, FALSE, "watches")
    BY ZenonT(60), <1>1, <2>1, <2>3, ReleaseKeeps DEF TlsAfters
  <2> QED BY ZenonT(60), <2>1, <2>2, <2>3
<1>27. CASE WriteNow(t)
  <2>1. \E q \in BOOLEAN, s \in {"tries", "watches"} : Release(t, q, s) /\ handshaken' = handshaken
    BY ZenonT(60), <1>27 DEF WriteNow
  <2>2. {"tries", "watches"} \subseteq TlsAfters \ {"sender", "inspects"}
    BY ZenonT(60) DEF TlsAfters
  <2> QED BY ZenonT(60), <1>1, <2>1, <2>2, ReleaseKeeps
<1>28. CASE LookNow(t)
  <2>1. /\ step[t] = "looksNow" /\ handshaken' = handshaken
        /\ \/ Release(t, FALSE, "tries")
           \/ \E s \in {"receivesNow"} : TlsGoes(t, s) /\ UNCHANGED <<holder, after>>
    BY ZenonT(60), <1>28 DEF LookNow
  <2>2. CASE Release(t, FALSE, "tries")
    BY ZenonT(60), <1>1, <2>1, <2>2, ReleaseKeeps DEF TlsAfters
  <2>3. CASE \E s \in {"receivesNow"} : TlsGoes(t, s) /\ UNCHANGED <<holder, after>>
    BY ZenonT(60), <1>1, <2>1, <2>3, GoKeeps DEF TlsSteps, Settled, Holding, LockAt
  <2> QED BY ZenonT(60), <2>1, <2>2, <2>3
<1>29. CASE ReceiveNow(t)
  <2>1. \E q \in BOOLEAN, s \in {"tries", "watches"} : Release(t, q, s) /\ handshaken' = handshaken
    BY ZenonT(60), <1>29 DEF ReceiveNow
  <2>2. {"tries", "watches"} \subseteq TlsAfters \ {"sender", "inspects"}
    BY ZenonT(60) DEF TlsAfters
  <2> QED BY ZenonT(60), <1>1, <2>1, <2>2, ReleaseKeeps
<1>30. CASE WatchTls(t)
  <2>1. PICK s \in {"asksShaken"} : TlsGoes(t, s) /\ (s \in Settled => handshaken)
    BY ZenonT(60), <1>30, <1>1 DEF WatchTls, Settled, LockAt
  <2>2. s \in TlsSteps \ {"wakes", "locksInner", "shakes"}
    BY ZenonT(60) DEF TlsSteps
  <2>3. UNCHANGED <<holder, after, handshaken>>
    BY ZenonT(60), <1>30 DEF WatchTls
  <2>4. step[t] \notin Holding
    BY ZenonT(60), <1>30 DEF WatchTls, Holding
  <2>5. step[t] \notin {"locksInner", "shakes", "takesRecords", "sends", "writesNow"}
    BY ZenonT(60), <2>4 DEF Holding
  <2> QED BY ZenonT(60), <2>1, <2>2, <2>3, <2>4, <2>5, GoKeeps
<1>31. CASE AskShaken(t)
  <2>1. PICK s \in {"asksReading", "asksShaking"} : TlsGoes(t, s) /\ (s \in Settled => handshaken)
    BY ZenonT(60), <1>31, <1>1 DEF AskShaken, Settled, LockAt
  <2>2. s \in TlsSteps \ {"wakes", "locksInner", "shakes"}
    BY ZenonT(60) DEF TlsSteps
  <2>3. UNCHANGED <<holder, after, handshaken>>
    BY ZenonT(60), <1>31 DEF AskShaken
  <2>4. step[t] \notin Holding
    BY ZenonT(60), <1>31 DEF AskShaken, Holding
  <2>5. step[t] \notin {"locksInner", "shakes", "takesRecords", "sends", "writesNow"}
    BY ZenonT(60), <2>4 DEF Holding
  <2> QED BY ZenonT(60), <2>1, <2>2, <2>3, <2>4, <2>5, GoKeeps
<1>32. CASE WatchBusy(t)
  <2>1. PICK s \in {"registers", "peeksShaken", "peeks"} : TlsGoes(t, s) /\ (s \in Settled => handshaken)
    BY ZenonT(60), <1>32, <1>1 DEF WatchBusy, Settled, LockAt
  <2>2. s \in TlsSteps \ {"wakes", "locksInner", "shakes"}
    BY ZenonT(60) DEF TlsSteps
  <2>3. UNCHANGED <<holder, after, handshaken>>
    BY ZenonT(60), <1>32 DEF WatchBusy
  <2>4. step[t] \notin Holding
    BY ZenonT(60), <1>32 DEF WatchBusy, Holding
  <2>5. step[t] \notin {"locksInner", "shakes", "takesRecords", "sends", "writesNow"}
    BY ZenonT(60), <2>4 DEF Holding
  <2> QED BY ZenonT(60), <2>1, <2>2, <2>3, <2>4, <2>5, GoKeeps
<1>33. CASE PeekFails(t)
  <2>1. PICK s \in {"registers"} : TlsGoes(t, s) /\ (s \in Settled => handshaken)
    BY ZenonT(60), <1>33, <1>1 DEF PeekFails, Peeking, Settled, LockAt
  <2>2. s \in TlsSteps \ {"wakes", "locksInner", "shakes"}
    BY ZenonT(60) DEF TlsSteps
  <2>3. UNCHANGED <<holder, after, handshaken>>
    BY ZenonT(60), <1>33 DEF PeekFails, Peeking
  <2>4. step[t] \notin Holding
    BY ZenonT(60), <1>33 DEF PeekFails, Holding, Peeking
  <2>5. step[t] \notin {"locksInner", "shakes", "takesRecords", "sends", "writesNow"}
    BY ZenonT(60), <2>4 DEF Holding
  <2> QED BY ZenonT(60), <2>1, <2>2, <2>3, <2>4, <2>5, GoKeeps
<1>34. CASE Peek(t)
  <2>1. PICK s \in {"tries", "registers"} : TlsGoes(t, s) /\ (s \in Settled => handshaken)
    BY ZenonT(60), <1>34, <1>1 DEF Peek, Peeking, Settled, LockAt
  <2>2. s \in TlsSteps \ {"wakes", "locksInner", "shakes"}
    BY ZenonT(60) DEF TlsSteps
  <2>3. UNCHANGED <<holder, after, handshaken>>
    BY ZenonT(60), <1>34 DEF Peek, Peeking
  <2>4. step[t] \notin Holding
    BY ZenonT(60), <1>34 DEF Peek, Holding, Peeking
  <2>5. step[t] \notin {"locksInner", "shakes", "takesRecords", "sends", "writesNow"}
    BY ZenonT(60), <2>4 DEF Holding
  <2> QED BY ZenonT(60), <2>1, <2>2, <2>3, <2>4, <2>5, GoKeeps
<1>35. CASE RegisterSocket(t)
  <2>1. PICK s \in {"sleeps"} : TlsGoes(t, s) /\ (s \in Settled => handshaken)
    BY ZenonT(60), <1>35, <1>1 DEF RegisterSocket, Settled, LockAt
  <2>2. s \in TlsSteps \ {"wakes", "locksInner", "shakes"}
    BY ZenonT(60) DEF TlsSteps
  <2>3. UNCHANGED <<holder, after, handshaken>>
    BY ZenonT(60), <1>35 DEF RegisterSocket
  <2>4. step[t] \notin Holding
    BY ZenonT(60), <1>35 DEF RegisterSocket, Holding
  <2>5. step[t] \notin {"locksInner", "shakes", "takesRecords", "sends", "writesNow"}
    BY ZenonT(60), <2>4 DEF Holding
  <2> QED BY ZenonT(60), <2>1, <2>2, <2>3, <2>4, <2>5, GoKeeps
<1>36. CASE GiveUp(t)
  <2>1. Release(t, FALSE, "idle") /\ handshaken' = handshaken
    BY ZenonT(60), <1>36 DEF GiveUp
  <2>2. ("idle") \in TlsAfters \ {"sender", "inspects"}
    BY ZenonT(60) DEF TlsAfters
  <2> QED BY ZenonT(60), <1>1, <2>1, <2>2, ReleaseKeeps
<1>37. CASE ShakeFails(t)
  <2>1. Release(t, FALSE, "idle") /\ handshaken' = handshaken
    BY ZenonT(60), <1>37 DEF ShakeFails
  <2>2. ("idle") \in TlsAfters \ {"sender", "inspects"}
    BY ZenonT(60) DEF TlsAfters
  <2> QED BY ZenonT(60), <1>1, <2>1, <2>2, ReleaseKeeps
<1> QED BY ZenonT(60), <1>2, <1>3, <1>4, <1>5, <1>6, <1>7, <1>8, <1>9, <1>10, <1>11, <1>12, <1>13, <1>14, <1>15,
           <1>16, <1>17, <1>18, <1>19, <1>20, <1>21, <1>22, <1>23, <1>24, <1>25, <1>26, <1>27, <1>28, <1>29, <1>30,
           <1>31, <1>32, <1>33, <1>34, <1>35, <1>36, <1>37
    DEF Works, Reads, Sends, Shakes, Polls, Waits

\* Every step keeps the invariant.
LEMMA LockNext ==
    ASSUME LockInv, [TlsNext]_tlsVars
    PROVE  LockInv'
<1>1. CASE \E r \in {"hello", "data", "update", "bye"} : PeerSends(r)
  <2>1. UNCHANGED <<holder, after, step, handshaken>>
    BY ZenonT(60), <1>1 DEF PeerSends, held
  <2> QED BY ZenonT(60), <2>1 DEF LockInv, LockTypes, LockAt
<1>2. CASE PeerDrains
  BY ZenonT(60), <1>2 DEF PeerDrains, held, LockInv, LockTypes, LockAt
<1>3. CASE \E t \in TlsTasks : TlsCall(t) \/ Works(t) \/ GiveUp(t) \/ ShakeFails(t)
  BY ZenonT(60), <1>3, LockStep
<1>4. ASSUME NEW t \in Selects, Awake(t) PROVE LockInv'
  <2>1. step[t] = "sleeps" /\ (TlsGoes(t, "tries") \/ TlsGoes(t, "idle")) /\ UNCHANGED <<holder, after, handshaken>>
    BY ZenonT(60), <1>4 DEF Awake
  <2> QED BY ZenonT(60), <2>1, GoKeeps DEF TlsTasks, TlsSteps, Settled, Holding
<1>5. CASE UNCHANGED tlsVars
  BY ZenonT(60), <1>5 DEF tlsVars, held, LockInv, LockTypes, LockAt
<1> QED BY ZenonT(60), <1>1, <1>2, <1>3, <1>4, <1>5 DEF TlsNext

\* Nobody is held up by a task that waits for the peer's data.
THEOREM TlsWaitsAreShort ==
    TlsSpec => []NobodyHeldUp
<1>1. LockInv => NobodyHeldUp
  <2> SUFFICES ASSUME LockInv PROVE NobodyHeldUp
    OBVIOUS
  <2>1. ASSUME NEW t \in TlsTasks, holder["inner"] = t, NEW u \in TlsTasks \ {t}
        PROVE  step[u] \notin InnerSteps \cup {"locksInner"}
    BY ZenonT(60), <2>1 DEF LockInv, LockAt, InnerSteps, Settled
  <2>2. ASSUME NEW t \in TlsTasks, NEW l \in {"shake", "write", "inner"}, holder[l] # NoTask
        PROVE  step[holder[l]] # "receives"
    <3>1. holder[l] \in TlsTasks
      BY ZenonT(60), <2>2 DEF LockInv, LockTypes, Locks
    <3> QED BY ZenonT(60), <3>1 DEF LockInv, LockAt
  <2> QED BY ZenonT(60), <2>1, <2>2 DEF NobodyHeldUp, ShakeLock
<1>2. LockInv /\ [TlsNext]_tlsVars => LockInv'
  BY LockNext
<1> QED BY LockStarts, <1>1, <1>2, PTL DEF TlsSpec

\* The waits of a Select: someone who helps it still does after a step of another.
LEMMA HelpLasts ==
    ASSUME NEW u \in TlsTasks, NEW t \in Selects, Helps(u, t),
           step'[u] = step[u], after'[u] = after[u], since'[u] = since[u], idle'[u] = idle[u],
           \A k \in Locks : holder'[k] = u <=> holder[k] = u,
           handshaken => handshaken', t \in watchers => t \in watchers'
    PROVE  Helps(u, t)'
<1>1. CASE u \in {holder["read"], holder["write"], holder["shake"]}
  BY ZenonT(60), <1>1 DEF Helps, Locks
<1>2. CASE step[u] = "wakes" /\ (t \in Wakes(u) \/ (handshaken /\ after[u] = "fills"))
  <2>1. t \in Wakes(u) => t \in Wakes(u)'
    BY ZenonT(60) DEF Wakes
  <2> QED BY ZenonT(60), <1>2, <2>1 DEF Helps
<1>3. CASE handshaken /\ step[u] \in {"fills", "reader"}
  BY ZenonT(60), <1>3 DEF Helps
<1> QED BY ZenonT(60), <1>1, <1>2, <1>3 DEF Helps

\* A step of a task after which it helps whom it helped before.
LEMMA SelKeeps ==
    ASSUME OneSelect, SelInv, NEW a \in TlsTasks, SelTypes',
           UNCHANGED <<asleep, watchers, misled>>,
           \A u \in TlsTasks \ {a} : /\ step'[u] = step[u] /\ after'[u] = after[u]
                                     /\ since'[u] = since[u] /\ idle'[u] = idle[u],
           \A k \in Locks : \A u \in TlsTasks \ {a} : holder'[k] = u <=> holder[k] = u,
           handshaken => handshaken', Takable' => Takable,
           step'[a] \notin {"registers", "sleeps"},
           \A t \in Selects \ {a} : t \in watchers /\ Helps(a, t) => Helps(a, t)'
    PROVE  SelInv'
<1> SUFFICES ASSUME NEW t \in Selects \ misled, step'[t] \in {"registers", "sleeps"}, asleep[t], Takable'
             PROVE  \E u \in TlsTasks \ {t} : Helps(u, t)'
  BY ZenonT(60) DEF SelInv
<1>1. t # a /\ t \in TlsTasks /\ t \in watchers
  BY ZenonT(60) DEF TlsTasks, SelInv
<1>2. PICK u \in TlsTasks \ {t} : Helps(u, t)
  BY ZenonT(60), <1>1 DEF SelInv
<1>3. ASSUME u # a PROVE Helps(u, t)'
  <2>1. u \in TlsTasks /\ t \in Selects /\ Helps(u, t)
    BY ZenonT(60), <1>2
  <2>2. step'[u] = step[u] /\ after'[u] = after[u] /\ since'[u] = since[u] /\ idle'[u] = idle[u]
    BY ZenonT(60), <1>3, <2>1
  <2>3. \A k \in Locks : holder'[k] = u <=> holder[k] = u
    BY ZenonT(60), <1>3, <2>1
  <2>4. t \in watchers => t \in watchers'
    BY ZenonT(60)
  <2> QED BY ZenonT(60), <2>1, <2>2, <2>3, <2>4, HelpLasts
<1> QED BY ZenonT(60), <1>1, <1>2, <1>3

\* Its place in the watchers' numbers as a task begins a hold, or goes on.
FromNow(a) ==
    \/ UNCHANGED <<since, idle>>
    \/ \E q \in BOOLEAN : since' = [since EXCEPT ![a] = {}] /\ idle' = [idle EXCEPT ![a] = q]

\* Other tasks' numbers stay, and all keep their types.
LEMMA FromNowFacts ==
    ASSUME SelTypes, NEW a \in TlsTasks, FromNow(a), UNCHANGED <<asleep, told>>
    PROVE  SelTypes' /\ \A u \in TlsTasks \ {a} : since'[u] = since[u] /\ idle'[u] = idle[u]
<1>1. {} \in SUBSET Selects
  BY ZenonT(60)
<1> QED BY ZenonT(60), <1>1 DEF SelTypes, FromNow

\* Who releases a lock goes on to wake the watchers, or reads itself.
LEMMA SelRelease ==
    ASSUME OneSelect, LockInv, SelInv, NEW a \in TlsTasks, NEW q \in BOOLEAN, NEW s \in TlsAfters, Release(a, q, s),
           UNCHANGED <<asleep, told, misled>>, handshaken => handshaken', Takable' => Takable,
           q /\ a \notin Selects => s = "fills" /\ handshaken'
    PROVE  SelInv'
<1>1. LockTypes /\ SelTypes
  BY ZenonT(60) DEF LockInv, SelInv
<1>2. idle' = [idle EXCEPT ![a] = q] /\ UNCHANGED <<watchers, since>>
  BY ZenonT(60) DEF Release
<1>3. SelTypes' /\ idle'[a] = q /\ \A u \in TlsTasks \ {a} : since'[u] = since[u] /\ idle'[u] = idle[u]
  BY ZenonT(60), <1>1, <1>2 DEF SelTypes
<1>4. /\ step'[a] = "wakes" /\ after'[a] = s
      /\ \A u \in TlsTasks \ {a} : step'[u] = step[u] /\ after'[u] = after[u]
  BY ZenonT(60), <1>1, ReleaseFacts
<1>7. \A k \in Locks : \A u \in TlsTasks \ {a} : holder'[k] = u <=> holder[k] = u
  BY ZenonT(60), <1>1, ReleaseHolds
<1>5. ASSUME NEW t \in Selects \ {a}, t \in watchers PROVE Helps(a, t)'
  <2>1. a \notin Selects
    BY ZenonT(60) DEF OneSelect
  <2>2. ~q => t \in Wakes(a)'
    BY ZenonT(60), <1>2, <1>3, <1>5 DEF Wakes
  <2> QED BY ZenonT(60), <1>4, <2>1, <2>2 DEF Helps
<1>6. step'[a] \notin {"registers", "sleeps"}
  BY ZenonT(60), <1>4
<1> QED BY ZenonT(60), <1>2, <1>3, <1>4, <1>5, <1>6, <1>7, SelKeeps

\* Who goes on without a lock was no help, or still is.
LEMMA SelGo ==
    ASSUME OneSelect, LockInv, SelInv, NEW a \in TlsTasks, NEW s \in TlsSteps \ {"registers", "sleeps"}, TlsGoes(a, s),
           FromNow(a), UNCHANGED <<holder, watchers, after, asleep, told, misled, handshaken>>, Takable' => Takable,
           step[a] # "wakes", handshaken /\ step[a] \in {"fills", "reader"} => s = "reader"
    PROVE  SelInv'
<1>1. LockTypes /\ SelTypes
  BY ZenonT(60) DEF LockInv, SelInv
<1>2. step'[a] = s /\ \A u \in TlsTasks \ {a} : step'[u] = step[u]
  BY ZenonT(60), <1>1, TlsGoesFacts
<1>3. SelTypes' /\ \A u \in TlsTasks \ {a} : since'[u] = since[u] /\ idle'[u] = idle[u]
  BY ZenonT(60), <1>1, FromNowFacts
<1>4. ASSUME NEW t \in Selects, Helps(a, t) PROVE Helps(a, t)'
  BY ZenonT(60), <1>2, <1>4 DEF Helps
<1> QED BY ZenonT(60), <1>2, <1>3, <1>4, SelKeeps

\* Who takes a lock helps.
LEMMA SelAcquire ==
    ASSUME OneSelect, LockInv, SelInv, NEW a \in TlsTasks, NEW s \in TlsSteps \ {"registers", "sleeps"}, TlsGoes(a, s),
           NEW l \in Locks, Acquire(a, l), l = "inner" => step[a] = "locksInner",
           FromNow(a), UNCHANGED <<watchers, after, asleep, told, misled, handshaken>>, Takable' => Takable
    PROVE  SelInv'
<1>1. LockTypes /\ SelTypes /\ LockAt(a)
  BY ZenonT(60) DEF LockInv, SelInv
<1>2. step'[a] = s /\ \A u \in TlsTasks \ {a} : step'[u] = step[u]
  BY ZenonT(60), <1>1, TlsGoesFacts
<1>3. SelTypes' /\ \A u \in TlsTasks \ {a} : since'[u] = since[u] /\ idle'[u] = idle[u]
  BY ZenonT(60), <1>1, FromNowFacts
<1>4. /\ holder'[l] = a /\ \A k \in Locks \ {l} : holder'[k] = holder[k]
      /\ \A k \in Locks : \A u \in TlsTasks \ {a} : holder'[k] = u <=> holder[k] = u
  BY ZenonT(60), <1>1, AcquireFacts
<1>5. l = "inner" => holder'["shake"] = a
  BY ZenonT(60), <1>1, <1>4 DEF LockAt, Locks
<1>6. ASSUME NEW t \in Selects PROVE Helps(a, t)'
  BY ZenonT(60), <1>4, <1>5 DEF Helps, Locks
<1>7. step'[a] \notin {"registers", "sleeps"} /\ UNCHANGED <<asleep, watchers, misled>>
  BY ZenonT(60), <1>2
<1>8. \A u \in TlsTasks \ {a} : /\ step'[u] = step[u] /\ after'[u] = after[u]
                               /\ since'[u] = since[u] /\ idle'[u] = idle[u]
  BY ZenonT(60), <1>2, <1>3
<1>9. handshaken => handshaken'
  BY ZenonT(60)
<1> QED BY ZenonT(60), <1>3, <1>4, <1>6, <1>7, <1>8, <1>9, SelKeeps

\* A Select's wait after a step that only a Select takes,
LEMMA SelPolls ==
    ASSUME OneSelect, LockInv, SelInv, NEW t \in Selects, Polls(t) \/ Waits(t)
    PROVE  SelInv'
<1>0. t \in Selects /\ t \in TlsTasks
  BY ZenonT(60) DEF TlsTasks
<1>1. LockTypes /\ LockAt(t) /\ SelTypes
  BY ZenonT(60), <1>0 DEF LockInv, SelInv
<1> USE DEF held, sleeps, rustls, socket
<1>2. CASE FillNow(t)
  <2>0. Takable' => Takable
    BY ZenonT(60), <1>0, <1>2 DEF FillNow, Takable
  <2>1. /\ step[t] = "fillsNow" /\ UNCHANGED <<watchers, after, asleep, told, misled, handshaken>>
        /\ \/ Acquire(t, "read") /\ TlsGoes(t, "looksNow")
           \/ TlsGoes(t, "watches") /\ UNCHANGED holder
    BY ZenonT(60), <1>0, <1>2 DEF FillNow, TryLock
  <2>2. FromNow(t)
    BY ZenonT(60), <1>0, <1>2 DEF FillNow, TryLock, FromNow
  <2>3. "read" \in Locks /\ {"looksNow", "watches"} \subseteq TlsSteps \ {"registers", "sleeps"} /\ "read" # "inner"
    BY ZenonT(60) DEF Locks, TlsSteps
  <2>4. CASE Acquire(t, "read") /\ TlsGoes(t, "looksNow")
    BY ZenonT(60), <1>0, <2>0, <2>1, <2>2, <2>3, <2>4, SelAcquire
  <2>5. CASE TlsGoes(t, "watches") /\ UNCHANGED holder
    BY ZenonT(60), <1>0, <2>0, <2>1, <2>2, <2>3, <2>5, SelGo
  <2> QED BY ZenonT(60), <1>0, <2>1, <2>4, <2>5
<1>3. CASE LookNowOwing(t)
  <2>0. Takable' => Takable
    BY ZenonT(60), <1>0, <1>3 DEF LookNowOwing, Takable
  <2>1. /\ step[t] = "looksNow" /\ UNCHANGED <<asleep, told, misled>> /\ handshaken' = handshaken
        /\ \/ Acquire(t, "write") /\ TlsGoes(t, "writesNow") /\ UNCHANGED <<watchers, since, idle, after>>
           \/ Release(t, FALSE, "watches")
    BY ZenonT(60), <1>0, <1>3 DEF LookNowOwing
  <2>2. CASE Acquire(t, "write") /\ TlsGoes(t, "writesNow") /\ UNCHANGED <<watchers, since, idle, after>>
    BY ZenonT(60), <1>0, <2>0, <2>1, <2>2, SelAcquire DEF Locks, TlsSteps, FromNow
  <2>3. CASE Release(t, FALSE, "watches")
    BY ZenonT(60), <1>0, <2>0, <2>1, <2>3, SelRelease DEF TlsAfters
  <2> QED BY ZenonT(60), <1>0, <2>1, <2>2, <2>3
<1>4. CASE WriteNow(t)
  <2>0. Takable' => Takable
    BY ZenonT(60), <1>0, <1>4 DEF WriteNow, Takable, Writes
  <2>1. PICK q \in BOOLEAN, s \in {"tries", "watches"} : Release(t, q, s)
    BY ZenonT(60), <1>0, <1>4 DEF WriteNow
  <2>2. s \in TlsAfters
    BY ZenonT(60) DEF TlsAfters
  <2>3. handshaken' = handshaken /\ UNCHANGED <<asleep, told, misled>>
    BY ZenonT(60), <1>0, <1>4 DEF WriteNow
  <2> QED BY ZenonT(60), <1>0, <2>0, <2>1, <2>2, <2>3, SelRelease
<1>5. CASE LookNow(t)
  <2>0. Takable' => Takable
    BY ZenonT(60), <1>0, <1>5 DEF LookNow, Takable
  <2>1. /\ step[t] = "looksNow" /\ UNCHANGED <<asleep, told, misled>> /\ handshaken' = handshaken
        /\ Release(t, FALSE, "tries") \/ ((\E s \in {"receivesNow"} : TlsGoes(t, s)) /\ UNCHANGED held)
    BY ZenonT(60), <1>0, <1>5 DEF LookNow
  <2>2. CASE Release(t, FALSE, "tries")
    BY ZenonT(60), <1>0, <2>0, <2>1, <2>2, SelRelease DEF TlsAfters
  <2>3. ASSUME NEW s \in {"receivesNow"}, TlsGoes(t, s), UNCHANGED held PROVE SelInv'
    <3>1. s \in TlsSteps \ {"registers", "sleeps"} /\ FromNow(t)
      BY ZenonT(60), <1>0, <2>3 DEF TlsSteps, FromNow
    <3> QED BY ZenonT(60), <1>0, <2>0, <2>1, <2>3, <3>1, SelGo
  <2> QED BY ZenonT(60), <1>0, <2>1, <2>2, <2>3
<1>6. CASE ReceiveNow(t)
  <2>0. Takable' => Takable
    BY ZenonT(60), <1>0, <1>6, ReadsSomething DEF ReceiveNow, Takable
  <2>1. PICK q \in BOOLEAN, s \in {"tries", "watches"} : Release(t, q, s)
    BY ZenonT(60), <1>0, <1>6 DEF ReceiveNow
  <2>2. s \in TlsAfters
    BY ZenonT(60) DEF TlsAfters
  <2>3. handshaken' = handshaken /\ UNCHANGED <<asleep, told, misled>>
    BY ZenonT(60), <1>0, <1>6 DEF ReceiveNow
  <2> QED BY ZenonT(60), <1>0, <2>0, <2>1, <2>2, <2>3, SelRelease
<1>7. CASE WatchTls(t)
  <2>1. TlsGoes(t, "asksShaken") /\ UNCHANGED <<told, idle, misled>> /\ watchers' = watchers \cup {t}
    BY ZenonT(60), <1>0, <1>7 DEF WatchTls
  <2>2. since' = [u \in TlsTasks |-> IF u = t THEN {} ELSE since[u] \cup {t}] /\ asleep' = [asleep EXCEPT ![t] = ~told[t]]
    BY ZenonT(60), <1>0, <1>7 DEF WatchTls
  <2>3. SelTypes'
    <3>1. \A u \in TlsTasks : (IF u = t THEN {} ELSE since[u] \cup {t}) \in SUBSET Selects
      BY ZenonT(60), <1>0, <1>1, <1>0 DEF SelTypes
    <3>2. since' \in [TlsTasks -> SUBSET Selects]
      BY ZenonT(60), <1>0, <2>2, <3>1
    <3>3. asleep' \in [Selects -> BOOLEAN]
      BY ZenonT(60), <1>0, <1>1, <2>2 DEF SelTypes
    <3> QED BY ZenonT(60), <1>0, <1>1, <2>1, <3>2, <3>3 DEF SelTypes
  <2>4. \A s \in Selects : asleep'[s] => s \in watchers'
    BY ZenonT(60), <1>0, <2>1 DEF OneSelect
  <2>5. \A s \in Selects : step'[s] = "asksShaken"
    BY ZenonT(60), <1>0, <1>1, <2>1, TlsGoesFacts DEF OneSelect, TlsSteps
  <2> QED BY ZenonT(60), <1>0, <2>3, <2>4, <2>5 DEF SelInv
<1>8. CASE AskShaken(t)
  <2>0. Takable' => Takable
    BY ZenonT(60), <1>0, <1>8 DEF AskShaken, Takable
  <2>1. PICK s \in {"asksReading", "asksShaking"} : TlsGoes(t, s) /\ (handshaken /\ step[t] \in {"fills", "reader"} => s = "reader")
    BY ZenonT(60), <1>0, <1>8 DEF AskShaken
  <2>2. s \in TlsSteps \ {"registers", "sleeps"}
    BY ZenonT(60) DEF TlsSteps
  <2>3. UNCHANGED <<holder, watchers, after, asleep, told, misled, handshaken>> /\ step[t] # "wakes"
    BY ZenonT(60), <1>0, <1>8 DEF AskShaken
  <2>4. FromNow(t)
    BY ZenonT(60), <1>0, <1>8 DEF AskShaken, FromNow
  <2> QED BY ZenonT(60), <1>0, <2>0, <2>1, <2>2, <2>3, <2>4, SelGo
<1>9. CASE WatchBusy(t)
  <2>1. step[t] \in {"asksReading", "asksShaking"} /\ UNCHANGED <<held, handshaken, socket, rustls, asleep, told, misled>>
    BY ZenonT(60), <1>0, <1>9 DEF WatchBusy
  <2>2. TlsGoes(t, IF Busy(t) THEN "registers" ELSE IF step[t] = "asksReading" THEN "peeksShaken" ELSE "peeks")
    BY ZenonT(60), <1>0, <1>9 DEF WatchBusy
  <2>3. PICK s \in {"registers", "peeksShaken", "peeks"} : TlsGoes(t, s) /\ (s = "registers" => Busy(t))
    BY ZenonT(60), <1>0, <2>2
  <2>4. step'[t] = s
    BY ZenonT(60), <1>0, <1>1, <2>3, TlsGoesFacts DEF TlsSteps
  <2>5. ASSUME s = "registers" PROVE \E u \in TlsTasks \ {t} : Helps(u, t)'
    <3>1. PICK l \in {"read", "shake"} : holder[l] # NoTask
      BY ZenonT(60), <1>0, <2>3, <2>5 DEF Busy
    <3>6. holder[l] \in TlsTasks
      BY ZenonT(60), <1>0, <1>1, <3>1 DEF LockTypes, Locks
    <3>2. PICK u \in TlsTasks : u = holder[l]
      BY ZenonT(60), <1>0, <3>6
    <3>3. u # t
      BY ZenonT(60), <1>0, <1>1, <2>1, <3>2 DEF LockAt, Holding
    <3>4. Helps(u, t)'
      BY ZenonT(60), <1>0, <2>1, <3>2 DEF Helps
    <3> QED BY ZenonT(60), <1>0, <3>2, <3>3, <3>4
  <2>6. SelTypes' /\ \A u \in Selects : asleep'[u] => u \in watchers'
    BY ZenonT(60), <1>0, <1>1, <2>1 DEF SelInv, SelTypes
  <2> QED BY ZenonT(60), <1>0, <2>4, <2>5, <2>6 DEF SelInv, OneSelect
<1>10. CASE PeekFails(t)
  <2>1. PICK u \in TlsTasks \ {t} : misled' = IF u \in {holder["read"], holder["write"], holder["shake"]} THEN misled ELSE misled \cup {t}
    BY ZenonT(60), <1>0, <1>10 DEF PeekFails
  <2>2. UNCHANGED <<held, asleep, told>>
    BY ZenonT(60), <1>0, <1>10 DEF PeekFails
  <2>3. t \notin misled' => Helps(u, t)'
    BY ZenonT(60), <1>0, <2>1, <2>2 DEF Helps
  <2>4. SelTypes' /\ \A s \in Selects : asleep'[s] => s \in watchers'
    BY ZenonT(60), <1>0, <1>1, <2>2 DEF SelInv, SelTypes
  <2> QED BY ZenonT(60), <1>0, <2>1, <2>3, <2>4 DEF SelInv, OneSelect
<1>11. CASE Peek(t)
  <2>1. step[t] \in Peeking /\ UNCHANGED <<holder, since, idle, told, pending, plain, ended, net>>
    BY ZenonT(60), <1>0, <1>11 DEF Peek
  <2>2. \/ /\ watchers' = watchers \ {t} /\ asleep' = [asleep EXCEPT ![t] = FALSE] /\ TlsGoes(t, "tries")
        \/ /\ ~(Takable /\ ~Busy(t)) /\ TlsGoes(t, "registers") /\ UNCHANGED <<watchers, asleep>>
    BY ZenonT(60), <1>0, <1>11 DEF Peek
  <2>3. CASE watchers' = watchers \ {t} /\ asleep' = [asleep EXCEPT ![t] = FALSE] /\ TlsGoes(t, "tries")
    <3>1. SelTypes'
      BY ZenonT(60), <1>0, <1>1, <2>1, <2>3 DEF SelTypes
    <3>2. step'[t] = "tries" /\ ~asleep'[t]
      BY ZenonT(60), <1>0, <1>1, <2>3, TlsGoesFacts DEF TlsSteps, SelTypes
    <3> QED BY ZenonT(60), <1>0, <3>1, <3>2 DEF SelInv, OneSelect
  <2>4. CASE ~(Takable /\ ~Busy(t)) /\ UNCHANGED <<watchers, asleep>>
    <3>1. ASSUME Takable' PROVE \E u \in TlsTasks \ {t} : Helps(u, t)'
      <4>1. Takable
        BY ZenonT(60), <1>0, <2>1, <3>1 DEF Takable
      <4>2. PICK l \in {"read", "shake"} : holder[l] # NoTask
        BY ZenonT(60), <1>0, <2>4, <4>1 DEF Busy
      <4>6. holder[l] \in TlsTasks
        BY ZenonT(60), <1>0, <1>1, <4>2 DEF LockTypes, Locks
      <4>3. PICK u \in TlsTasks : u = holder[l]
        BY ZenonT(60), <1>0, <4>6
      <4>4. u # t
        BY ZenonT(60), <1>0, <1>1, <2>1, <4>3 DEF LockAt, Holding, Peeking
      <4>5. Helps(u, t)'
        BY ZenonT(60), <1>0, <2>1, <4>3 DEF Helps
      <4> QED BY ZenonT(60), <1>0, <4>3, <4>4, <4>5
    <3>2. SelTypes' /\ \A u \in Selects : asleep'[u] => u \in watchers'
      BY ZenonT(60), <1>0, <1>1, <2>1, <2>4 DEF SelInv, SelTypes
    <3> QED BY ZenonT(60), <1>0, <3>1, <3>2 DEF SelInv, OneSelect
  <2> QED BY ZenonT(60), <1>0, <2>2, <2>3, <2>4
<1>12. CASE RegisterSocket(t)
  <2>1. step[t] = "registers" /\ TlsGoes(t, "sleeps") /\ UNCHANGED <<held, asleep, told, misled, handshaken, socket, rustls>>
    BY ZenonT(60), <1>0, <1>12 DEF RegisterSocket
  <2>2. \A u \in TlsTasks \ {t} : step'[u] = step[u]
    BY ZenonT(60), <1>0, <1>1, <2>1, TlsGoesFacts DEF TlsSteps
  <2>3. ASSUME t \notin misled, asleep[t], Takable' PROVE \E u \in TlsTasks \ {t} : Helps(u, t)'
    <3>1. Takable
      BY ZenonT(60), <1>0, <2>1, <2>3 DEF Takable
    <3>2. PICK u \in TlsTasks \ {t} : Helps(u, t)
      BY ZenonT(60), <1>0, <2>1, <2>3, <3>1 DEF SelInv
    <3>3. Helps(u, t)'
      BY ZenonT(60), <1>0, <2>1, <2>2, <3>2, HelpLasts
    <3> QED BY ZenonT(60), <1>0, <3>3
  <2>4. SelTypes' /\ \A u \in Selects : asleep'[u] => u \in watchers'
    BY ZenonT(60), <1>0, <1>1, <2>1 DEF SelInv, SelTypes
  <2> QED BY ZenonT(60), <1>0, <2>1, <2>3, <2>4 DEF SelInv, OneSelect
<1> QED BY ZenonT(60), <1>2, <1>3, <1>4, <1>5, <1>6, <1>7, <1>8, <1>9, <1>10, <1>11, <1>12 DEF Polls, Waits

\* and after a step of any task.
LEMMA SelStep ==
    ASSUME OneSelect, LockInv, SelInv, NEW t \in TlsTasks, TlsCall(t) \/ Works(t) \/ GiveUp(t) \/ ShakeFails(t)
    PROVE  SelInv'
<1>1. LockTypes /\ LockAt(t) /\ SelTypes
  BY ZenonT(60) DEF LockInv, SelInv
<1> USE DEF held, sleeps, rustls, socket
<1>2. CASE TlsCall(t)
  <2>0. Takable' => Takable
    BY ZenonT(60), <1>2 DEF TlsCall, Takable
  <2>1. PICK s \in {"tries", "handshake", "sender"} : TlsGoes(t, s) /\ (handshaken /\ step[t] \in {"fills", "reader"} => s = "reader")
    BY ZenonT(60), <1>2 DEF TlsCall
  <2>2. s \in TlsSteps \ {"registers", "sleeps"}
    BY ZenonT(60) DEF TlsSteps
  <2>3. UNCHANGED <<holder, watchers, after, asleep, told, misled, handshaken>> /\ step[t] # "wakes"
    BY ZenonT(60), <1>2 DEF TlsCall
  <2>4. FromNow(t)
    BY ZenonT(60), <1>2 DEF TlsCall, FromNow
  <2> QED BY ZenonT(60), <2>0, <2>1, <2>2, <2>3, <2>4, SelGo
<1>3. CASE WakeWatchers(t)
  <2>1. step[t] = "wakes" /\ TlsGoes(t, after[t]) /\ UNCHANGED <<holder, handshaken, told, misled, socket, rustls>>
    BY ZenonT(60), <1>3 DEF WakeWatchers
  <2>2. /\ asleep' = [s \in Selects |-> asleep[s] /\ s \notin Wakes(t)] /\ watchers' = watchers \ Wakes(t)
        /\ since' = [since EXCEPT ![t] = {}] /\ idle' = [idle EXCEPT ![t] = FALSE]
        /\ after' = [after EXCEPT ![t] = "idle"]
    BY ZenonT(60), <1>3 DEF WakeWatchers
  <2>3. SelTypes' /\ \A u \in TlsTasks \ {t} : since'[u] = since[u] /\ idle'[u] = idle[u] /\ after'[u] = after[u]
    <3>1. after \in [TlsTasks -> TlsAfters]
      BY ZenonT(60), <1>1 DEF LockTypes
    <3>2. {} \in SUBSET Selects
      BY ZenonT(60)
    <3> QED BY ZenonT(60), <1>1, <2>1, <2>2, <3>1, <3>2 DEF SelTypes
  <2>4. after[t] \in TlsAfters /\ after[t] \in TlsSteps
    BY ZenonT(60), <1>1 DEF LockTypes, TlsAfters, TlsSteps
  <2>5. step'[t] = after[t] /\ \A u \in TlsTasks \ {t} : step'[u] = step[u]
    BY ZenonT(60), <1>1, <2>1, <2>4, TlsGoesFacts
  <2>6. \A s \in Selects : asleep'[s] => asleep[s] /\ s \notin Wakes(t) /\ s \in watchers'
    BY ZenonT(60), <2>2 DEF SelInv
  <2>7. ASSUME NEW s \in Selects \ misled, step'[s] \in {"registers", "sleeps"}, asleep'[s], Takable'
        PROVE  \E u \in TlsTasks \ {s} : Helps(u, s)'
    <3>1. s # t
      BY ZenonT(60), <2>4, <2>5, <2>7 DEF TlsAfters
    <3>2. step[s] = step'[s] /\ Takable
      BY ZenonT(60), <2>1, <2>5, <2>7, <3>1 DEF TlsTasks, Takable
    <3>3. PICK u \in TlsTasks \ {s} : Helps(u, s)
      BY ZenonT(60), <2>6, <2>7, <3>2 DEF SelInv
    <3>4. CASE u = t
      <4>1. (handshaken /\ after[t] = "fills") \/ t \in {holder["read"], holder["write"], holder["shake"]}
        BY ZenonT(60), <2>1, <2>6, <2>7, <3>3, <3>4 DEF Helps
      <4> QED BY ZenonT(60), <2>1, <2>5, <3>3, <3>4, <4>1 DEF Helps
    <3>5. CASE u # t
      <4>1. /\ step'[u] = step[u] /\ after'[u] = after[u] /\ since'[u] = since[u] /\ idle'[u] = idle[u]
            /\ s \in watchers'
        BY ZenonT(60), <2>3, <2>5, <2>6, <2>7, <3>5
      <4> QED BY ZenonT(60), <2>1, <3>3, <4>1, HelpLasts
    <3> QED BY ZenonT(60), <3>4, <3>5
  <2> QED BY ZenonT(60), <2>1, <2>3, <2>6, <2>7 DEF SelInv
<1>4. CASE TryRead(t)
  <2>0. Takable' => Takable
    BY ZenonT(60), <1>4 DEF TryRead, Takable
  <2>1. /\ step[t] = "tries" /\ UNCHANGED <<watchers, after, asleep, told, misled, handshaken>>
        /\ \/ Acquire(t, "read") /\ TlsGoes(t, "takes")
           \/ TlsGoes(t, FillWire(t)) /\ UNCHANGED holder
    BY ZenonT(60), <1>4 DEF TryRead, TryLock
  <2>2. FromNow(t)
    BY ZenonT(60), <1>4 DEF TryRead, TryLock, FromNow
  <2>3. "read" \in Locks /\ {"takes", FillWire(t)} \subseteq TlsSteps \ {"registers", "sleeps"} /\ "read" # "inner"
    BY ZenonT(60) DEF Locks, TlsSteps, FillWire
  <2>4. CASE Acquire(t, "read") /\ TlsGoes(t, "takes")
    BY ZenonT(60), <2>0, <2>1, <2>2, <2>3, <2>4, SelAcquire
  <2>5. CASE TlsGoes(t, FillWire(t)) /\ UNCHANGED holder
    BY ZenonT(60), <2>0, <2>1, <2>2, <2>3, <2>5, SelGo
  <2> QED BY ZenonT(60), <2>1, <2>4, <2>5
<1>5. CASE TakePlain(t)
  <2>0. Takable' => Takable
    BY ZenonT(60), <1>5 DEF TakePlain, Takable
  <2>1. Release(t, FALSE, "idle") /\ UNCHANGED <<asleep, told, misled>> /\ handshaken' = handshaken
    BY ZenonT(60), <1>5, <1>1 DEF TakePlain
  <2>2. ("idle") \in TlsAfters
    BY ZenonT(60) DEF TlsAfters
  <2> QED BY ZenonT(60), <2>0, <2>1, <2>2, SelRelease
<1>6. CASE TakeNothing(t)
  <2>0. Takable' => Takable
    BY ZenonT(60), <1>6 DEF TakeNothing, Takable
  <2>1. Release(t, TRUE, FillWire(t)) /\ UNCHANGED <<asleep, told, misled>> /\ handshaken' = handshaken /\ handshaken
    BY ZenonT(60), <1>6, <1>1 DEF TakeNothing, LockAt, Settled
  <2>2. (FillWire(t)) \in TlsAfters /\ (t \notin Selects => FillWire(t) = "fills")
    BY ZenonT(60) DEF TlsAfters, FillWire
  <2> QED BY ZenonT(60), <2>0, <2>1, <2>2, SelRelease
<1>7. CASE Decrypt(t)
  <2>0. Takable' => Takable
    <3>1. PICK n \in 1..Len(pending) : TRUE
      BY ZenonT(60), <1>7 DEF Decrypt
    <3>2. pending # <<>>
      BY <3>1
    <3> QED BY ZenonT(60), <3>2 DEF Takable
  <2>1. UNCHANGED <<asleep, told, misled>> /\ handshaken' = handshaken /\ (Release(t, FALSE, FillWire(t)) \/ UNCHANGED <<held, step>>)
    BY ZenonT(60), <1>7 DEF Decrypt
  <2>2. FillWire(t) \in TlsAfters
    BY ZenonT(60) DEF TlsAfters, FillWire
  <2>3. CASE Release(t, FALSE, FillWire(t))
    BY ZenonT(60), <2>0, <2>1, <2>2, <2>3, SelRelease
  <2>4. CASE UNCHANGED <<held, step>>
    <3>1. \A u \in TlsTasks, s \in Selects : Helps(u, s)' = Helps(u, s)
      BY ZenonT(60), <2>1, <2>4 DEF Helps, Wakes
    <3> QED BY ZenonT(60), <2>0, <2>1, <2>4, <3>1 DEF SelInv, SelTypes
  <2> QED BY ZenonT(60), <2>1, <2>3, <2>4
<1>8. CASE FillStarts(t)
  <2>0. Takable' => Takable
    BY ZenonT(60), <1>8 DEF FillStarts, Takable
  <2>1. PICK s \in {"reader", "handshake"} : TlsGoes(t, s) /\ (handshaken /\ step[t] \in {"fills", "reader"} => s = "reader")
    BY ZenonT(60), <1>8 DEF FillStarts, FirstId
  <2>2. s \in TlsSteps \ {"registers", "sleeps"}
    BY ZenonT(60) DEF TlsSteps
  <2>3. UNCHANGED <<holder, watchers, after, asleep, told, misled, handshaken>> /\ step[t] # "wakes"
    BY ZenonT(60), <1>8 DEF FillStarts, FirstId
  <2>4. FromNow(t)
    BY ZenonT(60), <1>8 DEF FillStarts, FirstId, FromNow
  <2> QED BY ZenonT(60), <2>0, <2>1, <2>2, <2>3, <2>4, SelGo
<1>9. CASE LockRead(t)
  <2>0. Takable' => Takable
    BY ZenonT(60), <1>9 DEF LockRead, Takable
  <2>1. Acquire(t, "read") /\ TlsGoes(t, "looks") /\ FromNow(t)
    BY ZenonT(60), <1>9 DEF LockRead, FromNow
  <2>2. UNCHANGED <<watchers, after, asleep, told, misled, handshaken>>
    BY ZenonT(60), <1>9 DEF LockRead
  <2>3. "read" \in Locks /\ "looks" \in TlsSteps \ {"registers", "sleeps"} /\ "read" # "inner"
    BY ZenonT(60) DEF Locks, TlsSteps
  <2> QED BY ZenonT(60), <2>0, <2>1, <2>2, <2>3, SelAcquire
<1>10. CASE Look(t)
  <2>0. Takable' => Takable
    BY ZenonT(60), <1>10 DEF Look, Takable
  <2>1. /\ step[t] = "looks" /\ UNCHANGED <<asleep, told, misled>> /\ handshaken' = handshaken
        /\ Release(t, FALSE, "tries") \/ ((\E s \in {"locksWrite", "receives"} : TlsGoes(t, s)) /\ UNCHANGED held)
    BY ZenonT(60), <1>10 DEF Look
  <2>2. CASE Release(t, FALSE, "tries")
    BY ZenonT(60), <2>0, <2>1, <2>2, SelRelease DEF TlsAfters
  <2>3. ASSUME NEW s \in {"locksWrite", "receives"}, TlsGoes(t, s), UNCHANGED held PROVE SelInv'
    <3>1. s \in TlsSteps \ {"registers", "sleeps"} /\ FromNow(t)
      BY ZenonT(60), <2>3 DEF TlsSteps, FromNow
    <3> QED BY ZenonT(60), <2>0, <2>1, <2>3, <3>1, SelGo
  <2> QED BY ZenonT(60), <2>1, <2>2, <2>3
<1>11. CASE Receive(t)
  <2>0. Takable' => Takable
    BY ZenonT(60), <1>11, ReadsSomething DEF Receive, Takable
  <2>1. Release(t, FALSE, "tries") /\ UNCHANGED <<asleep, told, misled>> /\ handshaken' = handshaken
    BY ZenonT(60), <1>11, <1>1 DEF Receive
  <2>2. ("tries") \in TlsAfters
    BY ZenonT(60) DEF TlsAfters
  <2> QED BY ZenonT(60), <2>0, <2>1, <2>2, SelRelease
<1>12. CASE SenderStarts(t)
  <2>0. Takable' => Takable
    BY ZenonT(60), <1>12 DEF SenderStarts, Takable
  <2>1. PICK s \in {"locksWrite"} : TlsGoes(t, s) /\ (handshaken /\ step[t] \in {"fills", "reader"} => s = "reader")
    BY ZenonT(60), <1>12 DEF SenderStarts, FirstId
  <2>2. s \in TlsSteps \ {"registers", "sleeps"}
    BY ZenonT(60) DEF TlsSteps
  <2>3. UNCHANGED <<holder, watchers, after, asleep, told, misled, handshaken>> /\ step[t] # "wakes"
    BY ZenonT(60), <1>12 DEF SenderStarts, FirstId
  <2>4. FromNow(t)
    BY ZenonT(60), <1>12 DEF SenderStarts, FirstId, FromNow
  <2> QED BY ZenonT(60), <2>0, <2>1, <2>2, <2>3, <2>4, SelGo
<1>13. CASE LockWrite(t)
  <2>0. Takable' => Takable
    BY ZenonT(60), <1>13 DEF LockWrite, Takable
  <2>1. Acquire(t, "write") /\ TlsGoes(t, "takesRecords") /\ FromNow(t)
    BY ZenonT(60), <1>13 DEF LockWrite, FromNow
  <2>2. UNCHANGED <<watchers, after, asleep, told, misled, handshaken>>
    BY ZenonT(60), <1>13 DEF LockWrite
  <2>3. "write" \in Locks /\ "takesRecords" \in TlsSteps \ {"registers", "sleeps"} /\ "write" # "inner"
    BY ZenonT(60) DEF Locks, TlsSteps
  <2> QED BY ZenonT(60), <2>0, <2>1, <2>2, <2>3, SelAcquire
<1>14. CASE TakeRecords(t)
  <2>0. Takable' => Takable
    BY ZenonT(60), <1>14 DEF TakeRecords, Takable
  <2>1. PICK s \in {"sends"} : TlsGoes(t, s) /\ (handshaken /\ step[t] \in {"fills", "reader"} => s = "reader")
    BY ZenonT(60), <1>14 DEF TakeRecords
  <2>2. s \in TlsSteps \ {"registers", "sleeps"}
    BY ZenonT(60) DEF TlsSteps
  <2>3. UNCHANGED <<holder, watchers, after, asleep, told, misled, handshaken>> /\ step[t] # "wakes"
    BY ZenonT(60), <1>14 DEF TakeRecords
  <2>4. FromNow(t)
    BY ZenonT(60), <1>14 DEF TakeRecords, FromNow
  <2> QED BY ZenonT(60), <2>0, <2>1, <2>2, <2>3, <2>4, SelGo
<1>15. CASE Send(t)
  <2>0. Takable' => Takable
    BY ZenonT(60), <1>15 DEF Send, Takable, Writes
  <2>1. Release(t, FALSE, IF t \in Writers THEN "idle" ELSE "tries") /\ UNCHANGED <<asleep, told, misled>> /\ handshaken' = handshaken
    BY ZenonT(60), <1>15, <1>1 DEF Send
  <2>2. (IF t \in Writers THEN "idle" ELSE "tries") \in TlsAfters
    BY ZenonT(60) DEF TlsAfters
  <2> QED BY ZenonT(60), <2>0, <2>1, <2>2, SelRelease
<1>16. CASE Inspect(t)
  <2>0. Takable' => Takable
    BY ZenonT(60), <1>16 DEF Inspect, Takable
  <2>1. PICK s \in {"idle"} : TlsGoes(t, s) /\ (handshaken /\ step[t] \in {"fills", "reader"} => s = "reader")
    BY ZenonT(60), <1>16 DEF Inspect
  <2>2. s \in TlsSteps \ {"registers", "sleeps"}
    BY ZenonT(60) DEF TlsSteps
  <2>3. UNCHANGED <<holder, watchers, after, asleep, told, misled, handshaken>> /\ step[t] # "wakes"
    BY ZenonT(60), <1>16 DEF Inspect
  <2>4. FromNow(t)
    BY ZenonT(60), <1>16 DEF Inspect, FromNow
  <2> QED BY ZenonT(60), <2>0, <2>1, <2>2, <2>3, <2>4, SelGo
<1>17. CASE Handshake(t)
  <2>0. Takable' => Takable
    BY ZenonT(60), <1>17 DEF Handshake, Takable
  <2>1. PICK s \in {"sender", "inspects", "tries", "locksShake"} : TlsGoes(t, s) /\ (handshaken /\ step[t] \in {"fills", "reader"} => s = "reader")
    BY ZenonT(60), <1>17, ShakenFacts DEF Handshake, FirstId
  <2>2. s \in TlsSteps \ {"registers", "sleeps"}
    BY ZenonT(60) DEF TlsSteps
  <2>3. UNCHANGED <<holder, watchers, after, asleep, told, misled, handshaken>> /\ step[t] # "wakes"
    BY ZenonT(60), <1>17 DEF Handshake, FirstId
  <2>4. FromNow(t)
    BY ZenonT(60), <1>17 DEF Handshake, FirstId, FromNow
  <2> QED BY ZenonT(60), <2>0, <2>1, <2>2, <2>3, <2>4, SelGo
<1>18. CASE LockHandshake(t)
  <2>0. Takable' => Takable
    BY ZenonT(60), <1>18 DEF LockHandshake, Takable
  <2>1. Acquire(t, "shake") /\ TlsGoes(t, "locksInner") /\ FromNow(t)
    BY ZenonT(60), <1>18 DEF LockHandshake, FromNow, ShakeLock
  <2>2. UNCHANGED <<watchers, after, asleep, told, misled, handshaken>>
    BY ZenonT(60), <1>18 DEF LockHandshake
  <2>3. "shake" \in Locks /\ "locksInner" \in TlsSteps \ {"registers", "sleeps"} /\ "shake" # "inner"
    BY ZenonT(60) DEF Locks, TlsSteps
  <2> QED BY ZenonT(60), <2>0, <2>1, <2>2, <2>3, SelAcquire
<1>19. CASE LockInner(t)
  <2>0. Takable' => Takable
    BY ZenonT(60), <1>19 DEF LockInner, Takable
  <2>1. /\ step[t] = "locksInner" /\ UNCHANGED <<asleep, told, misled>> /\ handshaken' = handshaken
        /\ \/ \E s \in Shaken(t) : Release(t, FALSE, s)
           \/ Acquire(t, "inner") /\ TlsGoes(t, "shakes") /\ UNCHANGED <<watchers, since, idle, after>>
    BY ZenonT(60), <1>19 DEF LockInner
  <2>2. ASSUME NEW s \in Shaken(t), Release(t, FALSE, s) PROVE SelInv'
    BY ZenonT(60), <2>0, <2>1, <2>2, ShakenFacts, SelRelease
  <2>3. CASE Acquire(t, "inner") /\ TlsGoes(t, "shakes") /\ UNCHANGED <<watchers, since, idle, after>>
    BY ZenonT(60), <2>0, <2>1, <2>3, SelAcquire DEF Locks, TlsSteps, FromNow
  <2> QED BY ZenonT(60), <2>1, <2>2, <2>3
<1>20. CASE HandshakeNow(t)
  <2>0. Takable' => Takable
    BY ZenonT(60), <1>20 DEF HandshakeNow, Takable
  <2>1. /\ step[t] = "fillsNow" /\ UNCHANGED <<watchers, after, asleep, told, misled, handshaken>>
        /\ \/ Acquire(t, "shake") /\ TlsGoes(t, "locksInner")
           \/ TlsGoes(t, "watches") /\ UNCHANGED holder
    BY ZenonT(60), <1>20 DEF HandshakeNow, TryLock
  <2>2. FromNow(t)
    BY ZenonT(60), <1>20 DEF HandshakeNow, TryLock, FromNow
  <2>3. "shake" \in Locks /\ {"locksInner", "watches"} \subseteq TlsSteps \ {"registers", "sleeps"} /\ "shake" # "inner"
    BY ZenonT(60) DEF Locks, TlsSteps
  <2>4. CASE Acquire(t, "shake") /\ TlsGoes(t, "locksInner")
    BY ZenonT(60), <2>0, <2>1, <2>2, <2>3, <2>4, SelAcquire
  <2>5. CASE TlsGoes(t, "watches") /\ UNCHANGED holder
    BY ZenonT(60), <2>0, <2>1, <2>2, <2>3, <2>5, SelGo
  <2> QED BY ZenonT(60), <2>1, <2>4, <2>5
<1>21. CASE ShakeWrite(t)
  <2>0. Takable' => Takable
    BY ZenonT(60), <1>21 DEF ShakeWrite, Takable, Writes
  <2>1. idle' = [idle EXCEPT ![t] = FALSE] /\ UNCHANGED <<step, holder, watchers, since, after, asleep, told, misled, handshaken>>
    BY ZenonT(60), <1>21 DEF ShakeWrite
  <2>2. SelTypes' /\ \A u \in TlsTasks \ {t} : idle'[u] = idle[u]
    BY ZenonT(60), <1>1, <2>1 DEF SelTypes
  <2>3. step[t] = "shakes"
    BY ZenonT(60), <1>21 DEF ShakeWrite
  <2>4. ASSUME NEW s \in Selects PROVE Helps(t, s)'
    BY ZenonT(60), <1>1, <2>1, <2>3 DEF Helps, LockAt
  <2>5. step'[t] \notin {"registers", "sleeps"}
    BY ZenonT(60), <2>1, <2>3
  <2> QED BY ZenonT(60), <2>0, <2>1, <2>2, <2>4, <2>5, SelKeeps
<1>22. CASE ShakeRead(t)
  <2>0. Takable' => Takable
    BY ZenonT(60), <1>22 DEF ShakeRead, Takable
  <2>1. idle' = [idle EXCEPT ![t] = FALSE] /\ UNCHANGED <<step, holder, watchers, since, after, asleep, told, misled, handshaken>>
    BY ZenonT(60), <1>22 DEF ShakeRead
  <2>2. SelTypes' /\ \A u \in TlsTasks \ {t} : idle'[u] = idle[u]
    BY ZenonT(60), <1>1, <2>1 DEF SelTypes
  <2>3. step[t] = "shakes"
    BY ZenonT(60), <1>22 DEF ShakeRead
  <2>4. ASSUME NEW s \in Selects PROVE Helps(t, s)'
    BY ZenonT(60), <1>1, <2>1, <2>3 DEF Helps, LockAt
  <2>5. step'[t] \notin {"registers", "sleeps"}
    BY ZenonT(60), <2>1, <2>3
  <2> QED BY ZenonT(60), <2>0, <2>1, <2>2, <2>4, <2>5, SelKeeps
<1>23. CASE ShakeDone(t)
  <2>0. Takable' => Takable
    BY ZenonT(60), <1>23 DEF ShakeDone, Takable
  <2>1. PICK s \in Shaken(t) : Release(t, FALSE, s)
    BY ZenonT(60), <1>23 DEF ShakeDone
  <2>2. handshaken' = TRUE /\ UNCHANGED <<asleep, told, misled>>
    BY ZenonT(60), <1>23 DEF ShakeDone
  <2>3. s \in TlsAfters
    BY ZenonT(60), ShakenFacts
  <2> QED BY ZenonT(60), <2>0, <2>1, <2>2, <2>3, SelRelease
<1>24. CASE ShakeNowBlocks(t)
  <2>0. Takable' => Takable
    BY ZenonT(60), <1>24 DEF ShakeNowBlocks, Takable
  <2>1. Release(t, idle[t], IF idle[t] THEN "watches" ELSE "tries") /\ UNCHANGED <<asleep, told, misled>> /\ handshaken' = handshaken /\ t \in Selects
    BY ZenonT(60), <1>24 DEF ShakeNowBlocks
  <2>2. (IF idle[t] THEN "watches" ELSE "tries") \in TlsAfters /\ idle[t] \in BOOLEAN
    BY ZenonT(60) DEF TlsAfters, SelInv, SelTypes
  <2> QED BY ZenonT(60), <2>0, <2>1, <2>2, SelRelease
<1>25. CASE GiveUp(t)
  <2>0. Takable' => Takable
    BY ZenonT(60), <1>25 DEF GiveUp, Takable
  <2>1. Release(t, FALSE, "idle") /\ UNCHANGED <<asleep, told, misled>> /\ handshaken' = handshaken
    BY ZenonT(60), <1>25, <1>1 DEF GiveUp
  <2>2. ("idle") \in TlsAfters
    BY ZenonT(60) DEF TlsAfters
  <2> QED BY ZenonT(60), <2>0, <2>1, <2>2, SelRelease
<1>26. CASE ShakeFails(t)
  <2>0. Takable' => Takable
    BY ZenonT(60), <1>26 DEF ShakeFails, Takable
  <2>1. Release(t, FALSE, "idle") /\ UNCHANGED <<asleep, told, misled>> /\ handshaken' = handshaken
    BY ZenonT(60), <1>26, <1>1 DEF ShakeFails
  <2>2. ("idle") \in TlsAfters
    BY ZenonT(60) DEF TlsAfters
  <2> QED BY ZenonT(60), <2>0, <2>1, <2>2, SelRelease
<1> QED BY ZenonT(60), <1>2, <1>3, <1>4, <1>5, <1>6, <1>7, <1>8, <1>9, <1>10, <1>11, <1>12, <1>13, <1>14, <1>15,
           <1>16, <1>17, <1>18, <1>19, <1>20, <1>21, <1>22, <1>23, <1>24, <1>25, <1>26, SelPolls
    DEF Works, Reads, Sends, Shakes

\* Every step keeps the invariant.
LEMMA SelNext ==
    ASSUME OneSelect, LockInv, SelInv, [TlsNext]_tlsVars
    PROVE  SelInv'
<1> USE DEF held, sleeps, rustls, socket
<1>1. ASSUME NEW r, PeerSends(r) PROVE SelInv'
  <2>1. asleep' = [t \in Selects |-> FALSE] /\ told' = [t \in Selects |-> step[t] # "idle"] /\ UNCHANGED <<idle, since>>
    BY ZenonT(60), <1>1 DEF PeerSends
  <2>2. asleep' \in [Selects -> BOOLEAN] /\ told' \in [Selects -> BOOLEAN] /\ \A t \in Selects : ~asleep'[t]
    BY ZenonT(60), <2>1
  <2> QED BY ZenonT(60), <2>1, <2>2 DEF SelInv, SelTypes
<1>2. CASE PeerDrains
  <2>1. /\ asleep' = [t \in Selects |-> asleep[t] /\ ~alsoWrite[t]]
        /\ UNCHANGED <<told, idle, since, watchers, step, after, holder, handshaken, misled, pending, plain, ended, net>>
    BY ZenonT(60), <1>2 DEF PeerDrains
  <2>2. asleep' \in [Selects -> BOOLEAN] /\ \A t \in Selects : asleep'[t] => asleep[t]
    BY ZenonT(60), <2>1
  <2>3. Takable' = Takable /\ \A u \in TlsTasks, t \in Selects : Helps(u, t)' = Helps(u, t)
    BY ZenonT(60), <2>1 DEF Takable, Helps, Wakes
  <2> QED BY ZenonT(60), <2>1, <2>2, <2>3 DEF SelInv, SelTypes
<1>3. ASSUME NEW t \in Selects, Awake(t) PROVE SelInv'
  <2>1. TlsGoes(t, "tries") \/ TlsGoes(t, "idle")
    BY ZenonT(60), <1>3 DEF Awake
  <2>2. /\ asleep' = [asleep EXCEPT ![t] = FALSE] /\ told' = [told EXCEPT ![t] = FALSE] /\ UNCHANGED <<since, idle>>
    BY ZenonT(60), <1>3 DEF Awake
  <2>3. SelTypes' /\ ~asleep'[t]
    BY ZenonT(60), <2>2 DEF SelInv, SelTypes
  <2> QED BY ZenonT(60), <2>3 DEF SelInv, OneSelect
<1>4. CASE UNCHANGED tlsVars
  <2>1. UNCHANGED <<asleep, told, idle, since, watchers, step, after, holder, handshaken, misled, pending, plain, ended, net>>
    BY ZenonT(60), <1>4 DEF tlsVars
  <2>2. Takable' = Takable /\ \A u \in TlsTasks, t \in Selects : Helps(u, t)' = Helps(u, t)
    BY ZenonT(60), <2>1 DEF Takable, Helps, Wakes
  <2> QED BY ZenonT(60), <2>1, <2>2 DEF SelInv, SelTypes
<1> QED BY ZenonT(60), <1>1, <1>2, <1>3, <1>4, SelStep DEF TlsNext

\* A Select alone on its stream is not stranded, unless its watch met `inner`
\* held without a lock.
THEOREM SelectIsWoken ==
    ASSUME OneSelect
    PROVE  TlsSpec => []NoSelectStranded
<1>1. TlsInit => LockInv /\ SelInv
  <2>1. TlsInit => SelInv
    <3>1. {} \in SUBSET Selects
      BY ZenonT(60)
    <3> QED BY ZenonT(60), <3>1 DEF TlsInit, SelInv, SelTypes
  <2> QED BY ZenonT(60), <2>1, LockStarts
<1>2. LockInv /\ SelInv /\ [TlsNext]_tlsVars => LockInv' /\ SelInv'
  BY ZenonT(60), LockNext, SelNext
<1>3. LockInv /\ SelInv => NoSelectStranded
  <2> SUFFICES ASSUME SelInv, NEW t \in Selects \ misled, Stranded(t) PROVE FALSE
    BY ZenonT(60) DEF NoSelectStranded
  <2>1. PICK u \in TlsTasks \ {t} : Helps(u, t)
    BY ZenonT(60) DEF SelInv, Stranded
  <2> QED BY ZenonT(60), <2>1 DEF Helps, Stranded
<1> QED BY <1>1, <1>2, <1>3, PTL DEF TlsSpec
=============================================================================
