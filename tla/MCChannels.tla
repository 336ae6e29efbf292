----------------------------- MODULE MCChannels -----------------------------
(***************************************************************************)
(* Channels for TLC, with what it promises: module ChannelPromise.         *)
(***************************************************************************)
EXTENDS Channels

\* A task's waits and wake-ups are not part of what the channel promises.
Promise == INSTANCE ChannelPromise WITH
    pending <- [t \in Tasks |-> IF op[t] \in {"poll", "watch", "select"} THEN "select" ELSE op[t]]

\* The channel is what platform/Channel.roc promises: values come out in the
\* order they went in, and a call gives up only for the reasons documented.
Implements == Promise!Spec

\* Receivers and senders get on as long as some can; a call that is closed,
\* cancelled or out of time returns, and so does a Select with a ready arm.
KeepsPromise == Promise!Fairness
=============================================================================
