SPECIFICATION Spec
CONSTANTS
    Proc = {loop, now}
    MaxChunks = 2
    MaxFaults = 2
SYMMETRY ProcSymmetry
INVARIANTS TypeOK HealthyMeansClean PauseSurvives
PROPERTY OnlyCleanUploadClears
