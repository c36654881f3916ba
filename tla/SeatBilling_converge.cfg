SPECIFICATION FairSpec
CONSTANTS
    Subscription = {1}
    Meter = {m1}
    Statuses = {"active", "past_due"}
    MaxSeats = 3
    MaxChanges = 2
    MaxEvents = 3
    MaxCopies = 1
    MaxFaults = 2
    MayShrink = FALSE
    MayFail = TRUE
    MayCrash = FALSE
PROPERTY SeatsConverge
CHECK_DEADLOCK FALSE
