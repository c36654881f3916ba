SPECIFICATION Spec
CONSTANTS
    Proc = {loop}
    Day = {1, 2, 3}
    Conn = {claude_code}
    Live = claude_code
    Export = claude_export
    Limit = 4
    MaxAttempts = 1
    MaySplit = TRUE
    MayDelay = FALSE
    LegacyRow = TRUE
    MaxEdits = 2
    MaxImports = 0
    MaxFaults = 1
INVARIANTS TypeOK  DisjointChunks
 
