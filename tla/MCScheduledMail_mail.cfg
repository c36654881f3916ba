SPECIFICATION Spec
CONSTANTS
    User = {u1, u2}
    NoUser = NoUser
    Run = {r1, r2}
    WeekDays = 3
    MonthDays = 3
    Retention = 1
    MemoSpans = FALSE
    MaxDay = 3
INVARIANTS TypeOK OptOutHolds OnlyLatestLink
PROPERTIES DigestOnce MemoOnce
SYMMETRY Symmetry
