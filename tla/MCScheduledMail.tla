-------------------------- MODULE MCScheduledMail --------------------------
(* Symmetry for model checking.                                            *)
EXTENDS ScheduledMail, TLC

Symmetry == Permutations(User) \cup Permutations(Run)
=============================================================================
