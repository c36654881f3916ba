SPECIFICATION Spec
CONSTANTS
    Subscription = {1, 2}
    Meter = {m1}
    Statuses = {"active", "trialing", "past_due", "paused", "canceled"}
    MaxSeats = 2
    MaxChanges = 1
    MaxEvents = 3
    MaxCopies = 1
    MaxFaults = 1
    MayShrink = TRUE
    MayFail = FALSE
    MayCrash = TRUE
INVARIANTS TypeOK SettledEntitlement
PROPERTY CancellationSticks
CHECK_DEADLOCK FALSE
