------------------------------- MODULE Waiters -------------------------------
(***************************************************************************)
(* The list of waiting tasks of src/src/sched.rs, `Waiters`, as operators. *)
(*                                                                         *)
(* An entry of the list is the task that added it: a task leaves every     *)
(* wait by removing its entry, so it has at most one in a list, and `id`   *)
(* and task name the same entry.  `live` says which tasks are in a wait    *)
(* that nothing has ended yet, the ones on which `TaskWaker::wake` returns *)
(* true; that a wait is ended once, whatever races, is module TaskWake.    *)
(***************************************************************************)
EXTENDS Naturals, Sequences

\* Whether a task is on the list, and whether every task on it is there once.
Has(list, t) == \E i \in DOMAIN list : list[i] = t
Once(list) == \A i, j \in DOMAIN list : list[i] = list[j] => i = j

\* The places of the list with a task that is still waiting.
Waiting(list, live) == {i \in DOMAIN list : live[list[i]]}

\* Waiters::add, add_uncancellable and add_waker.
Add(list, t) == Append(list, t)

\* Waiters::remove.
Remove(list, t) ==
    IF Has(list, t)
        THEN LET i == CHOOSE i \in DOMAIN list : list[i] = t
             IN  SubSeq(list, 1, i - 1) \o SubSeq(list, i + 1, Len(list))
        ELSE list

\* Waiters::wake_one drops entries up to and with the first task that is still
\* waiting, or all of them: how many, which task it wakes, if any, and what is
\* left.
Popped(list, live) ==
    IF Waiting(list, live) = {}
        THEN Len(list)
        ELSE CHOOSE i \in Waiting(list, live) : \A j \in Waiting(list, live) : i <= j

WokenByOne(list, live) == {list[i] : i \in Waiting(list, live) \cap {Popped(list, live)}}
LeftByOne(list, live) == SubSeq(list, Popped(list, live) + 1, Len(list))

\* Waiters::wake_all: the tasks it wakes.  It leaves the list empty.
WokenByAll(list, live) == {list[i] : i \in Waiting(list, live)}
=============================================================================
