SPECIFICATION Spec
CONSTANTS
    Proc = {loop, now}
    Day = {1, 2}
    Conn = {claude_code}
    Live = claude_code
    Export = claude_export
    Limit = 2
    MaxAttempts = 1
    MaySplit = FALSE
    MayDelay = TRUE
    LegacyRow = FALSE
    MaxEdits = 2
    MaxImports = 0
    MaxFaults = 1
SYMMETRY ProcSymmetry
INVARIANTS NothingForgotten NoDoubleUpload
PROPERTY PurgeOnlyAccounted
