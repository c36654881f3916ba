SPECIFICATION FairSpec
CONSTANTS
    Proc = {loop}
    Day = {1,2}
    Conn = {claude_code, claude_export}
    Live = claude_code
    Export = claude_export
    Limit = 9
    MaxAttempts = 2
    MaySplit = FALSE
    MayDelay = FALSE
    LegacyRow = FALSE
    MaxEdits = 2
    MaxImports = 1
    MaxFaults = 2
INVARIANTS  ImportKept
 
