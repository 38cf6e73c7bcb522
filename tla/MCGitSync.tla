------------------------------ MODULE MCGitSync ------------------------------
(***************************************************************************)
(* Instances of GitSync for TLC: two repositories of the actor, which may  *)
(* be published late and tracked before; one of them has no branches.      *)
(***************************************************************************)
EXTENDS GitSync, TLC

CONSTANTS old, new, main

MCRepositoryOf == main :> new
=============================================================================
