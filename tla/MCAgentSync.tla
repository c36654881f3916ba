---------------------------- MODULE MCAgentSync ----------------------------
(* Instances of AgentSync for TLC.                                         *)
EXTENDS AgentSync, TLC

\* The cycles run the same code and are only compared for equality.
ProcSymmetry == Permutations(Proc)
=============================================================================
