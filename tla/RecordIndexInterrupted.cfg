SPECIFICATION Spec
CONSTANTS
    Versions <- MCVersions
    Broken <- MCBroken
    BadOids = {}
    ValidateData = FALSE
    Lines = 2
    MaxClock = 4
    MaxCrashes = 2
    Hazards = {"while_indexing", "same_second", "backdated", "crash_indexing", "unreadable"}
INVARIANT ServedIsNotStale
