----------------------------- MODULE MCTodoSync -----------------------------
(***************************************************************************)
(* Instances of TodoSync for TLC.                                          *)
(***************************************************************************)
EXTENDS TodoSync, TLC

Symmetry == Permutations(Clients)
=============================================================================
