SPECIFICATION Spec
CONSTANTS
    Device = {d1, d2}
    Request = {r1}
    Issuer = {i1}
    MaxSecrets = 2
INVARIANTS TypeOK RevokedStaysOut DestroyedStaysDestroyed CleanSweep
SYMMETRY Symmetry
CHECK_DEADLOCK FALSE
