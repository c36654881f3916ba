---------------------------- MODULE MCWorkspace ----------------------------
(* Symmetry for model checking.                                            *)
EXTENDS Workspace, TLC

Symmetry == Permutations(User) \cup Permutations(Team) \cup Permutations(Process)
=============================================================================
