------------------------------ MODULE Channels ------------------------------
(***************************************************************************)
(* One bounded channel of src/src/channels.rs, its plain senders and       *)
(* receivers, the Selects that watch it, cancelling, time-outs, closing    *)
(* and the release of its two ends.                                        *)
(*                                                                         *)
(* An action is one critical section of the channel's mutex: a task woken  *)
(* in `send` or `receive` takes the mutex, removes its entry and goes on   *)
(* round the loop without letting go.  A call holds a reference to its     *)
(* end, so an end is released only when no call uses it; which tasks hold  *)
(* references otherwise is left open.  A Select has one arm on this        *)
(* channel; its other arms may be ready, or get something, at any time.    *)
(***************************************************************************)
EXTENDS Waiters, FiniteSets

CONSTANTS
    Tasks,      \* tasks that use the channel
    Values,     \* what they send
    NoValue,    \* of a task that is not sending
    Capacity    \* State::capacity

ASSUME ChannelsAssumption ==
    /\ IsFiniteSet(Tasks)
    /\ NoValue \notin Values
    /\ Capacity \in Nat \ {0}

VARIABLES
    queue,             \* State::queue
    sendingClosed,     \* State::sending_closed
    receiverGone,      \* State::receiver_gone: the receiver end was released
    senderGone,        \* the sender end was released
    receivers, senders,                 \* State::receivers, senders
    receiveWatchers, sendWatchers,      \* State::receive_watchers, send_watchers
    op,                \* the call each task is in, and where
    arm,               \* the end a Select watches
    value,             \* the value a call would send
    limit,             \* the deadline of the call: none, ahead or passed
    live,              \* whether the task is in a wait nothing has ended
    woke,              \* how its last wait ended
    cancelled          \* Task::cancelled

state == <<queue, sendingClosed, receiverGone, senderGone>>
lists == <<receivers, senders, receiveWatchers, sendWatchers>>
calls == <<op, arm, value, limit>>
waits == <<live, woke, cancelled>>
vars == <<state, lists, calls, waits>>

Ops == {"none", "receive", "send", "poll", "watch", "select"}
Arms == {"receive", "send"}
Limits == {"none", "ahead", "passed"}
Woke == {"Ready", "TimedOut", "Cancelled"}

\* roc_channel_new; every task outside a call has its locals at a fixed value.
Init ==
    /\ queue = <<>>
    /\ sendingClosed = FALSE /\ receiverGone = FALSE /\ senderGone = FALSE
    /\ receivers = <<>> /\ senders = <<>>
    /\ receiveWatchers = <<>> /\ sendWatchers = <<>>
    /\ op = [t \in Tasks |-> "none"]
    /\ arm = [t \in Tasks |-> "receive"]
    /\ value = [t \in Tasks |-> NoValue]
    /\ limit = [t \in Tasks |-> "none"]
    /\ live = [t \in Tasks |-> FALSE]
    /\ woke = [t \in Tasks |-> "Ready"]
    /\ cancelled = [t \in Tasks |-> FALSE]

-----------------------------------------------------------------------------
(* Waits and wake-ups.                                                     *)

\* Wakers that find their tasks waiting end those waits.
Wake(ts, how) ==
    /\ live' = [t \in Tasks |-> live[t] /\ t \notin ts]
    /\ woke' = [t \in Tasks |-> IF t \in ts THEN how ELSE woke[t]]
    /\ UNCHANGED cancelled

\* sched::waker and begin_multi_wait: a cancelled task's wait ends at once.  As
\* a mutant, it does not.
StartWaitAnyway(t) ==
    /\ live' = [live EXCEPT ![t] = TRUE]
    /\ woke' = [woke EXCEPT ![t] = "Ready"]
    /\ UNCHANGED cancelled
StartWait(t) ==
    /\ live' = [live EXCEPT ![t] = ~cancelled[t]]
    /\ woke' = [woke EXCEPT ![t] = IF cancelled[t] THEN "Cancelled" ELSE "Ready"]
    /\ UNCHANGED cancelled

\* State::value_added, and as a mutant one that forgets the Selects.
ValueUnwatched ==
    /\ Wake(WokenByOne(receivers, live), "Ready")
    /\ receivers' = LeftByOne(receivers, live)
    /\ UNCHANGED receiveWatchers
ValueAdded ==
    /\ Wake(WokenByOne(receivers, live) \cup WokenByAll(receiveWatchers, live), "Ready")
    /\ receivers' = LeftByOne(receivers, live)
    /\ receiveWatchers' = <<>>

\* State::room_made, and as a mutant one that wakes the Selects only.
RoomUnnoticed ==
    /\ Wake(WokenByAll(sendWatchers, live), "Ready")
    /\ sendWatchers' = <<>>
    /\ UNCHANGED senders
RoomMade ==
    /\ Wake(WokenByOne(senders, live) \cup WokenByAll(sendWatchers, live), "Ready")
    /\ senders' = LeftByOne(senders, live)
    /\ sendWatchers' = <<>>

\* State::wake_everyone.
WakeEveryone ==
    /\ Wake(UNION {WokenByAll(receivers, live), WokenByAll(senders, live),
                   WokenByAll(receiveWatchers, live), WokenByAll(sendWatchers, live)}, "Ready")
    /\ receivers' = <<>> /\ senders' = <<>>
    /\ receiveWatchers' = <<>> /\ sendWatchers' = <<>>

Call(t, o, a, v, l) ==
    /\ op' = [op EXCEPT ![t] = o]
    /\ arm' = [arm EXCEPT ![t] = a]
    /\ value' = [value EXCEPT ![t] = v]
    /\ limit' = [limit EXCEPT ![t] = l]

Return(t) == Call(t, "none", "receive", NoValue, "none")

-----------------------------------------------------------------------------
(* roc_channel_receive: what one pass of its loop may do.  The task's own  *)
(* entry is gone from `receivers` before it looks.                         *)

\* As a mutant, the newest value is taken: it shows only with two in the queue.
TakeNewest(t) ==
    /\ queue # <<>>
    /\ queue' = SubSeq(queue, 1, Len(queue) - 1)
    /\ RoomMade
    /\ receivers' = Remove(receivers, t)
    /\ Return(t)
    /\ UNCHANGED <<sendingClosed, receiverGone, senderGone, receiveWatchers>>
TakeValue(t) ==
    /\ queue # <<>>
    /\ queue' = Tail(queue)
    /\ RoomMade
    /\ receivers' = Remove(receivers, t)
    /\ Return(t)
    /\ UNCHANGED <<sendingClosed, receiverGone, senderGone, receiveWatchers>>

\* Returns Closed, TimedOut or, if its wait was cancelled, Cancelled.
ReceiveFails(t) ==
    /\ receivers' = Remove(receivers, t)
    /\ Return(t)
    /\ UNCHANGED <<state, senders, receiveWatchers, sendWatchers, waits>>

WaitForValue(t, l) ==
    /\ queue = <<>> /\ ~sendingClosed /\ l # "passed"
    /\ receivers' = Add(Remove(receivers, t), t)
    /\ StartWait(t)
    /\ Call(t, "receive", "receive", NoValue, l)
    /\ UNCHANGED <<state, senders, receiveWatchers, sendWatchers>>

ReceivePass(t, l) ==
    \/ TakeValue(t)
    \/ queue = <<>> /\ (sendingClosed \/ l = "passed") /\ ReceiveFails(t)
    \/ WaitForValue(t, l)

\* receive!, receive_timeout! and, with a deadline that has passed,
\* try_receive!.
Receive(t, l) ==
    /\ op[t] = "none" /\ ~receiverGone
    /\ ReceivePass(t, l)

\* Back from park.
ReceiveWoken(t) ==
    /\ op[t] = "receive" /\ ~live[t]
    /\ IF woke[t] = "Cancelled" THEN ReceiveFails(t) ELSE ReceivePass(t, limit[t])

-----------------------------------------------------------------------------
(* roc_channel_send, likewise.                                             *)

Open == ~sendingClosed /\ ~receiverGone
Full == Len(queue) >= Capacity

PutValue(t, v) ==
    /\ Open /\ ~Full
    /\ queue' = Append(queue, v)
    /\ ValueAdded
    /\ senders' = Remove(senders, t)
    /\ Return(t)
    /\ UNCHANGED <<sendingClosed, receiverGone, senderGone, sendWatchers>>

\* Returns Closed, Full or Cancelled.
SendFails(t) ==
    /\ senders' = Remove(senders, t)
    /\ Return(t)
    /\ UNCHANGED <<state, receivers, receiveWatchers, sendWatchers, waits>>

WaitForRoom(t, v) ==
    /\ Open /\ Full
    /\ senders' = Add(Remove(senders, t), t)
    /\ StartWait(t)
    /\ Call(t, "send", "receive", v, "none")
    /\ UNCHANGED <<state, receivers, receiveWatchers, sendWatchers>>

SendPass(t, v) == PutValue(t, v) \/ (~Open /\ SendFails(t)) \/ WaitForRoom(t, v)

\* send!, and try_send!, which does not wait.
Send(t, v) == op[t] = "none" /\ ~senderGone /\ SendPass(t, v)
TrySend(t, v) ==
    /\ op[t] = "none" /\ ~senderGone
    /\ PutValue(t, v) \/ ((~Open \/ Full) /\ SendFails(t))

SendWoken(t) ==
    /\ op[t] = "send" /\ ~live[t]
    /\ IF woke[t] = "Cancelled" THEN SendFails(t) ELSE SendPass(t, value[t])

-----------------------------------------------------------------------------
(* A Select with an arm on the channel: Arms.wait! of Select.roc, wait_any *)
(* of select.rs, watch and unwatch of channels.rs.                         *)

StartSelect(t, a, v, l) ==
    /\ op[t] = "none"
    /\ IF a = "receive" THEN ~receiverGone /\ v = NoValue ELSE ~senderGone /\ v # NoValue
    /\ Call(t, "poll", a, v, l)
    /\ UNCHANGED <<state, lists, waits>>

\* What `watch` calls ready.
ArmReady(a) ==
    IF a = "receive" THEN queue # <<>> \/ sendingClosed ELSE ~Full \/ ~Open

\* The poll of the arm, try_receive! or try_send!, gets something.
PollGets(t) ==
    /\ op[t] = "poll"
    /\ IF arm[t] = "receive"
          THEN TakeValue(t) \/ (queue = <<>> /\ sendingClosed /\ ReceiveFails(t))
          ELSE PutValue(t, value[t]) \/ (~Open /\ SendFails(t))

\* It gets nothing, and another arm or the time-out ends the Select ...
SelectReturns(t) ==
    /\ op[t] = "poll"
    /\ Return(t)
    /\ UNCHANGED <<state, lists, waits>>

\* ... or nothing does, and the task starts a wait on all the arms.
PollGetsNothing(t) ==
    /\ op[t] = "poll" /\ ~ArmReady(arm[t]) /\ limit[t] # "passed"
    /\ StartWait(t)
    /\ Call(t, "watch", arm[t], value[t], limit[t])
    /\ UNCHANGED <<state, lists>>

\* wait_any reaches this source: `watch` finds the arm ready and the wait is
\* abandoned, or adds the waker, whether or not the wait has ended already.
Watches(t) ==
    /\ IF arm[t] = "receive"
         THEN receiveWatchers' = Add(receiveWatchers, t) /\ UNCHANGED sendWatchers
         ELSE sendWatchers' = Add(sendWatchers, t) /\ UNCHANGED receiveWatchers
    /\ op' = [op EXCEPT ![t] = "select"]
    /\ UNCHANGED <<state, receivers, senders, arm, value, limit, waits>>

Abandon(t) ==
    /\ live' = [live EXCEPT ![t] = FALSE]
    /\ woke' = [woke EXCEPT ![t] = "Ready"]
    /\ UNCHANGED cancelled

Watch(t) ==
    /\ op[t] = "watch"
    /\ IF ArmReady(arm[t])
         THEN /\ Abandon(t)
              /\ op' = [op EXCEPT ![t] = "poll"]
              /\ UNCHANGED <<state, lists, arm, value, limit>>
         ELSE Watches(t)

\* Another source, before or after this one, is ready: the wait is abandoned.
OtherSourceReady(t) ==
    /\ op[t] \in {"watch", "select"}
    /\ Abandon(t)
    /\ op' = [op EXCEPT ![t] = IF op[t] = "watch" THEN "poll" ELSE "select"]
    /\ UNCHANGED <<state, lists, arm, value, limit>>

\* The wait is over: `unwatch`, then return Cancelled or poll again.
Unwatch(t) ==
    /\ op[t] = "select" /\ ~live[t]
    /\ IF arm[t] = "receive"
         THEN receiveWatchers' = Remove(receiveWatchers, t) /\ UNCHANGED sendWatchers
         ELSE sendWatchers' = Remove(sendWatchers, t) /\ UNCHANGED receiveWatchers
    /\ IF woke[t] = "Cancelled"
         THEN Return(t)
         ELSE op' = [op EXCEPT ![t] = "poll"] /\ UNCHANGED <<arm, value, limit>>
    /\ UNCHANGED <<state, receivers, senders, waits>>

\* A waker of another arm ends the wait.
OtherArmWakes(t) ==
    /\ op[t] \in {"watch", "select"} /\ live[t]
    /\ Wake({t}, "Ready")
    /\ UNCHANGED <<state, lists, calls>>

-----------------------------------------------------------------------------
(* Closing and releasing ends; cancelling and time.                        *)

UsesSender(t) == op[t] = "send" \/ (op[t] \in {"poll", "watch", "select"} /\ arm[t] = "send")
UsesReceiver(t) == op[t] = "receive" \/ (op[t] \in {"poll", "watch", "select"} /\ arm[t] = "receive")

\* roc_channel_close.
Close ==
    /\ ~senderGone
    /\ sendingClosed' = TRUE
    /\ WakeEveryone
    /\ UNCHANGED <<queue, receiverGone, senderGone, calls>>

\* The last reference to an end goes: Drop for End.
ReleaseSender ==
    /\ ~senderGone /\ \A t \in Tasks : ~UsesSender(t)
    /\ senderGone' = TRUE /\ sendingClosed' = TRUE
    /\ WakeEveryone
    /\ UNCHANGED <<queue, receiverGone, calls>>

ReleaseReceiver ==
    /\ ~receiverGone /\ \A t \in Tasks : ~UsesReceiver(t)
    /\ receiverGone' = TRUE
    /\ queue' = <<>>
    /\ WakeEveryone
    /\ UNCHANGED <<sendingClosed, senderGone, calls>>

Cancel(t) ==
    /\ ~cancelled[t]
    /\ cancelled' = [cancelled EXCEPT ![t] = TRUE]
    /\ live' = [live EXCEPT ![t] = FALSE]
    /\ woke' = [woke EXCEPT ![t] = IF live[t] THEN "Cancelled" ELSE @]
    /\ UNCHANGED <<state, lists, calls>>

DeadlinePasses(t) ==
    /\ limit[t] = "ahead"
    /\ limit' = [limit EXCEPT ![t] = "passed"]
    /\ UNCHANGED <<state, lists, op, arm, value, waits>>

FireTimer(t) ==
    /\ op[t] \in {"receive", "select"} /\ live[t] /\ limit[t] = "passed"
    /\ Wake({t}, "TimedOut")
    /\ UNCHANGED <<state, lists, calls>>

Starts(t) ==
    \/ \E l \in Limits : Receive(t, l)
    \/ \E v \in Values : Send(t, v) \/ TrySend(t, v)
    \/ \E a \in Arms, v \in Values \cup {NoValue}, l \in Limits : StartSelect(t, a, v, l)

Goes(t) ==
    \/ ReceiveWoken(t) \/ SendWoken(t)
    \/ PollGets(t) \/ PollGetsNothing(t) \/ SelectReturns(t)
    \/ Watch(t) \/ OtherSourceReady(t) \/ Unwatch(t)

Next ==
    \/ \E t \in Tasks : \/ Starts(t) \/ Goes(t) \/ OtherArmWakes(t)
                        \/ Cancel(t) \/ DeadlinePasses(t) \/ FireTimer(t)
    \/ Close \/ ReleaseSender \/ ReleaseReceiver

Spec == Init /\ [][Next]_vars

\* Tasks that can run do, and time passes.
FairSpec ==
    /\ Spec
    /\ \A t \in Tasks : WF_vars(Goes(t)) /\ WF_vars(DeadlinePasses(t)) /\ WF_vars(FireTimer(t))

-----------------------------------------------------------------------------
(* Properties.                                                             *)

\* The types of the channel's fields and of every call's locals; `send` never
\* grows the queue past its capacity.
TypeOK ==
    /\ queue \in Seq(Values) /\ Len(queue) <= Capacity
    /\ sendingClosed \in BOOLEAN /\ receiverGone \in BOOLEAN /\ senderGone \in BOOLEAN
    /\ receivers \in Seq(Tasks) /\ senders \in Seq(Tasks)
    /\ receiveWatchers \in Seq(Tasks) /\ sendWatchers \in Seq(Tasks)
    /\ op \in [Tasks -> Ops] /\ arm \in [Tasks -> Arms]
    /\ value \in [Tasks -> Values \cup {NoValue}]
    /\ limit \in [Tasks -> Limits]
    /\ live \in [Tasks -> BOOLEAN] /\ woke \in [Tasks -> Woke] /\ cancelled \in [Tasks -> BOOLEAN]

\* Tasks woken in a plain wait, that will look at the queue when they run.
Back(o) == {t \in Tasks : op[t] = o /\ ~live[t] /\ woke[t] # "Cancelled"}

\* While a receiver sleeps, every queued value has a woken receiver coming
\* for it: wake_one spent no notification on a wait that had ended.
NoStrandedReceiver ==
    (\E t \in Tasks : op[t] = "receive" /\ live[t]) => Len(queue) <= Cardinality(Back("receive"))

\* While a sender sleeps, all the room has woken senders coming for it.
NoStrandedSender ==
    (\E t \in Tasks : op[t] = "send" /\ live[t]) => Capacity - Len(queue) <= Cardinality(Back("send"))

\* No Select sleeps while its arm is ready: it looks when it adds its waker,
\* and every later change wakes it.
SelectNotices ==
    \A t \in Tasks : op[t] = "select" /\ live[t] => ~ArmReady(arm[t])

\* Nobody sleeps on in a channel that was closed or whose receiver is gone,
\* and values nobody will receive are not kept.
ClosedReleases ==
    /\ sendingClosed => \A t \in Tasks : op[t] \in {"receive", "send"} => ~live[t]
    /\ receiverGone => queue = <<>> /\ \A t \in Tasks : op[t] = "send" => ~live[t]

\* However values, room, closing, released ends, cancels and time-outs race, no
\* call of roc_channel_send or roc_channel_receive sleeps on beside what it
\* waits for.
NobodyStranded == NoStrandedReceiver /\ NoStrandedSender /\ ClosedReleases

\* The lists hold tasks in the call that added them, once each: no entry
\* outlives its call.
Lists(list, o, a) ==
    Once(list) /\ \A t \in Tasks : Has(list, t) => op[t] = o /\ arm[t] = a
EntriesAreCurrent ==
    /\ Lists(receivers, "receive", "receive") /\ Lists(senders, "send", "receive")
    /\ Lists(receiveWatchers, "select", "receive") /\ Lists(sendWatchers, "select", "send")
=============================================================================
