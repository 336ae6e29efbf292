------------------------------- MODULE MCLive -------------------------------
(* The workers' liveness, and, as parts of their own, signals and the Noise *)
(* streams, for TLC in one run.  They share no state, so a behaviour is one *)
(* of one part; the workers' part has the fairness of Workers!FairSpec.     *)
EXTENDS Workers, Signals, NoiseStream

VARIABLE part

LiveInit == part \in {"workers", "signals", "noise"} /\ Init /\ SigInit /\ NoiseInit

LiveNext ==
    /\ UNCHANGED part
    /\ \/ part = "workers" /\ Next /\ UNCHANGED <<sigVars, noiseVars>>
       \/ part = "signals" /\ SigNext /\ UNCHANGED <<vars, noiseVars>>
       \/ part = "noise" /\ NoiseNext /\ UNCHANGED <<vars, sigVars>>

LiveSpec ==
    /\ LiveInit /\ [][LiveNext]_<<part, vars, sigVars, noiseVars>>
    /\ \A w \in Workers : WF_vars(/\ part = "workers"
                                  /\ \/ WorkerStep(w) /\ (pc[w] = "blocked" => waker[w])
                                     \/ NotifyStep(w))
    /\ \A p \in Threads : WF_vars(part = "workers" /\ NotifyStep(p))
=============================================================================
