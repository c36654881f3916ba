-------------------------- MODULE MCDevicePairing --------------------------
(* Symmetry for model checking.                                            *)
EXTENDS DevicePairing, TLC

Symmetry == Permutations(Handle) \cup Permutations(User)
            \cup Permutations(Consent) \cup Permutations(Exchange)
=============================================================================
