---------------------------- MODULE MCSyncStatus ----------------------------
(* Instances of SyncStatus for TLC.                                        *)
EXTENDS SyncStatus, TLC

\* The cycles run the same code and are only compared for equality.
ProcSymmetry == Permutations(Proc)
=============================================================================
