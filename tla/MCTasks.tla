------------------------------- MODULE MCTasks -------------------------------
(* The tasks and scopes of tasks.rs and, as a part of its own, the helper    *)
(* threads of sched.rs, for TLC in one run.  Each module has its own tasks   *)
(* and waiter lists, so a behaviour is one of one part.                      *)
EXTENDS Scopes, HelperThreads

VARIABLE part

TasksInit == part \in {"scopes", "threads"} /\ Init /\ ThreadsInit

TasksNext ==
    /\ UNCHANGED part
    /\ \/ part = "scopes" /\ Next /\ UNCHANGED threadVars
       \/ part = "threads" /\ ThreadsNext /\ UNCHANGED vars

(* The fairness of each part's own specification.                            *)
TasksSpec ==
    /\ TasksInit /\ [][TasksNext]_<<part, vars, threadVars>>
    /\ \A t \in Tasks : WF_vars(part = "scopes" /\ Proceeds(t))
    /\ \A t \in Callers : /\ WF_threadVars(part = "threads" /\ CallGoes(t))
                          /\ WF_threadVars(part = "threads" /\ DeadlinePasses(t))
                          /\ WF_threadVars(part = "threads" /\ FireTimer(t))
    /\ \A h \in Threads : WF_threadVars(part = "threads" /\ ThreadEnds(h))
=============================================================================
