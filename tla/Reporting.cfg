SPECIFICATION Spec
CONSTANTS
    Responders = {1, 2}
    Setups <- SetupsDef
    MaxVarBinds = 2
    MaxErrors = 2
    MaxUpdates = 2
    MaxTime = 2
    MaxCrashes = 1
CHECK_DEADLOCK FALSE
INVARIANTS
    Conserved
    NotOverwritten
    CountersAgree
