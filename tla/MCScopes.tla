------------------------------ MODULE MCScopes ------------------------------
(***************************************************************************)
(* Small instances of Scopes for TLC.                                      *)
(***************************************************************************)
EXTENDS Scopes, TLC

\* All tasks but the one that runs main! are alike.
Symmetry == Permutations(Tasks \ {Main})
=============================================================================
