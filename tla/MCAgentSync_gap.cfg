SPECIFICATION Spec
CONSTANTS
    Proc = {loop}
    Day = {1, 2, 3}
    Conn = {claude_code}
    Live = claude_code
    Export = claude_export
    Limit = 3
    MaxAttempts = 1
    MaySplit = FALSE
    MayDelay = FALSE
    LegacyRow = FALSE
    MaxEdits = 3
    MaxImports = 0
    MaxFaults = 1
INVARIANT SettledDayPresent
