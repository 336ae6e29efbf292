-------------------------------- MODULE MCHost --------------------------------
(* Four parts of the host that share no state with each other but tasks and  *)
(* waiter lists, which every module has its own of, for TLC in one run: a    *)
(* task's waits and wake-ups, the resource heaps, the copy, and the values   *)
(* that hosted calls take and return.  A behaviour is one of one part; the   *)
(* others keep one of their initial states.                                  *)
EXTENDS TaskWake, ResourceHeap, Copy, RocRefs

VARIABLE part

HostInit ==
    /\ part \in {"wake", "heap", "copy", "refs"}
    /\ Init /\ HeapInit /\ CopyInit /\ RefsInit
    /\ part # "heap" => free = CHOOSE f \in [1..Cardinality(Slots) -> Slots] : \A s \in Slots : Has(f, s)
    /\ part # "copy" => mode = "both"

HostNext ==
    /\ UNCHANGED part
    /\ \/ part = "wake" /\ Next /\ UNCHANGED <<heapVars, copyVars, refVars>>
       \/ part = "heap" /\ HeapNext /\ UNCHANGED <<vars, copyVars, refVars>>
       \/ part = "copy" /\ CopyNext /\ UNCHANGED <<vars, heapVars, refVars>>
       \/ part = "refs" /\ RefsNext /\ UNCHANGED <<vars, heapVars, copyVars>>

(* The fairness of each part's own specification.                            *)
HostSpec ==
    /\ HostInit /\ [][HostNext]_<<part, vars, heapVars, copyVars, refVars>>
    /\ \A w \in Workers : WF_vars(part = "wake" /\ WorkerStep(w))
    /\ \A t \in Tasks : /\ SF_vars(part = "wake" /\ \E w \in Workers : Pop(w, t))
                        /\ WF_vars(part = "wake" /\ WaitStep(t))
                        /\ WF_vars(part = "wake" /\ CodeStep(t))
    /\ \A c \in Callers : WF_vars(part = "wake" /\ CallRest(c))
    /\ \A d \in Directions : WF_copyVars(part = "copy" /\ CopyStep(d))
=============================================================================
