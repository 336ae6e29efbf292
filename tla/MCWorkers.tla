----------------------------- MODULE MCWorkers -----------------------------
(* TLC instances of Workers: any task but main!, and any plain thread, will do. *)
EXTENDS Workers, TLC

Symmetry == Permutations(Threads) \cup Permutations(Tasks \ {MainTask})
=============================================================================
