SPECIFICATION Spec
CONSTANTS
    User = {u1, u2}
    Team = {t1}
    NoUser = NoUser
    Table = {"team_managers"}
    Process = {p1, p2}
    Cap = 1
    MaxInvites = 1
INVARIANTS TypeOK LeavesKeepAdmin  CapHolds
PROPERTIES DeletionSparesOthers RolesStay
SYMMETRY Symmetry
CHECK_DEADLOCK FALSE
