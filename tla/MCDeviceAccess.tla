--------------------------- MODULE MCDeviceAccess ---------------------------
(* Symmetry for model checking.                                            *)
EXTENDS DeviceAccess, TLC

Symmetry == Permutations(Device) \cup Permutations(Request) \cup Permutations(Issuer)
=============================================================================
