SPECIFICATION Spec
CONSTANTS
    Handle = {h1, h2}
    User = {u1, u2}
    NoUser = NoUser
    Consent = {c1, c2}
    Exchange = {x1, x2}
    TTL = 1
    ClockSkew = 0
    MayStall = FALSE
    MaxTime = 2
    MaxCodes = 2
INVARIANTS TypeOK  PairedAsConsented
SYMMETRY Symmetry
CHECK_DEADLOCK FALSE
