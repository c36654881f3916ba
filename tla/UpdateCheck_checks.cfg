SPECIFICATION FairSpec
CONSTANTS
    Checker = {timer, button}
    UpdateLoop = timer
    Release = {1, 2}
    MaxFaults = 1
INVARIANTS TypeOK OneInstaller
PROPERTY BlockLifts
