--------------------------- MODULE ChannelPromise ---------------------------
(***************************************************************************)
(* What platform/Channel.roc and platform/Select.roc promise of a channel, *)
(* without waiters and wake-ups: a call that cannot finish is pending, and *)
(* finishes by itself as soon as it can.  Module Channels implements it.   *)
(***************************************************************************)
EXTENDS Naturals, Sequences

CONSTANTS Tasks, Values, NoValue, Capacity

VARIABLES
    queue,          \* values sent and not yet received
    sendingClosed,  \* no value will be sent any more
    receiverGone,   \* nobody will receive
    pending,        \* the call each task is in: none, receive, send or select
    arm, value,     \* what a Select waits for; what a call would send
    limit,          \* none, ahead or passed
    cancelled       \* whether the task was cancelled

vars == <<queue, sendingClosed, receiverGone, pending, arm, value, limit, cancelled>>
channel == <<queue, sendingClosed, receiverGone>>

Init ==
    /\ queue = <<>> /\ sendingClosed = FALSE /\ receiverGone = FALSE
    /\ pending = [t \in Tasks |-> "none"]
    /\ arm = [t \in Tasks |-> "receive"]
    /\ value = [t \in Tasks |-> NoValue]
    /\ limit = [t \in Tasks |-> "none"]
    /\ cancelled = [t \in Tasks |-> FALSE]

Set(t, p, a, v, l) ==
    /\ pending' = [pending EXCEPT ![t] = p]
    /\ arm' = [arm EXCEPT ![t] = a]
    /\ value' = [value EXCEPT ![t] = v]
    /\ limit' = [limit EXCEPT ![t] = l]
    /\ UNCHANGED cancelled

Open == ~sendingClosed /\ ~receiverGone

\* A call that cannot finish at once is pending.
Begins(t) ==
    /\ pending[t] = "none"
    /\ \/ /\ queue = <<>> /\ ~sendingClosed
          /\ \E l \in {"none", "ahead"} : Set(t, "receive", "receive", NoValue, l)
       \/ /\ Open /\ Len(queue) = Capacity
          /\ \E v \in Values : Set(t, "send", "receive", v, "none")
       \/ \E a \in {"receive", "send"}, v \in Values \cup {NoValue}, l \in {"none", "ahead", "passed"} :
            Set(t, "select", a, v, l)
    /\ UNCHANGED channel

\* A call takes the oldest value.
Receives(t) ==
    /\ \/ pending[t] \in {"none", "receive"}
       \/ pending[t] = "select" /\ arm[t] = "receive"
    /\ queue # <<>>
    /\ queue' = Tail(queue)
    /\ Set(t, "none", "receive", NoValue, "none")
    /\ UNCHANGED <<sendingClosed, receiverGone>>

\* A call adds a value, if there is room and somebody may receive it.
Sends(t) ==
    /\ Open /\ Len(queue) < Capacity
    /\ \E v \in Values :
         /\ \/ pending[t] = "none"
            \/ pending[t] = "send" /\ v = value[t]
            \/ pending[t] = "select" /\ arm[t] = "send" /\ v = value[t]
         /\ queue' = Append(queue, v)
    /\ Set(t, "none", "receive", NoValue, "none")
    /\ UNCHANGED <<sendingClosed, receiverGone>>

\* A pending call gives up: Closed and TimedOut only when nothing is queued,
\* Cancelled only in a cancelled task.  A Select may end for another arm.
GivesUp(t) ==
    /\ \/ pending[t] = "receive" /\ queue = <<>> /\ (sendingClosed \/ limit[t] = "passed")
       \/ pending[t] = "send" /\ ~Open
       \/ pending[t] \in {"receive", "send"} /\ cancelled[t]
       \/ pending[t] = "select"
    /\ Set(t, "none", "receive", NoValue, "none")
    /\ UNCHANGED channel

\* The sender end is closed or released; the receiver end is released, when
\* no call uses it, and what is queued is dropped.
Closes ==
    /\ sendingClosed' = TRUE
    /\ UNCHANGED <<queue, receiverGone, pending, arm, value, limit, cancelled>>

ReceiverGoes ==
    /\ \A t \in Tasks : pending[t] # "receive"
    /\ receiverGone' = TRUE /\ queue' = <<>>
    /\ UNCHANGED <<sendingClosed, pending, arm, value, limit, cancelled>>

Cancels(t) ==
    /\ cancelled' = [cancelled EXCEPT ![t] = TRUE]
    /\ UNCHANGED <<channel, pending, arm, value, limit>>

DeadlinePasses(t) ==
    /\ limit[t] = "ahead"
    /\ limit' = [limit EXCEPT ![t] = "passed"]
    /\ UNCHANGED <<channel, pending, arm, value, cancelled>>

Next ==
    \/ \E t \in Tasks : \/ Begins(t) \/ Receives(t) \/ Sends(t) \/ GivesUp(t)
                        \/ Cancels(t) \/ DeadlinePasses(t)
    \/ Closes \/ ReceiverGoes

Spec == Init /\ [][Next]_vars

\* Some pending receiver takes a value as long as there are any, and some
\* pending sender fills the room.  A call that may give up for good does, and
\* a Select whose arm stays ready ends.
SomeReceive == \E t \in Tasks : pending[t] = "receive" /\ Receives(t)
SomeSend == \E t \in Tasks : pending[t] = "send" /\ Sends(t)
SelectEnds(t) ==
    /\ pending[t] = "select"
    /\ IF arm[t] = "receive"
         THEN queue # <<>> \/ sendingClosed
         ELSE ~Open \/ Len(queue) < Capacity
    /\ Receives(t) \/ Sends(t) \/ GivesUp(t)

Fairness ==
    /\ WF_vars(SomeReceive) /\ WF_vars(SomeSend)
    /\ \A t \in Tasks : WF_vars(pending[t] # "select" /\ GivesUp(t)) /\ WF_vars(SelectEnds(t))

FairSpec == Spec /\ Fairness
=============================================================================
