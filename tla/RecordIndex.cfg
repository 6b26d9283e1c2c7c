SPECIFICATION Spec
CONSTANTS
    Versions <- MCVersions
    Broken <- MCBroken
    BadOids <- MCBadOids
    ValidateData = TRUE
    Lines = 2
    MaxClock = 4
    MaxCrashes = 2
    Hazards = {"while_indexing", "same_second", "backdated"}
INVARIANTS ServedIsCurrent TrustedIsCurrent UnmodifiedIsCurrent
PROPERTIES KeepsServing KeepsPromise
