SPECIFICATION Spec
CONSTANTS
    Instances = 4
    Sizes <- MCSizes
    EndSize = 1
    Silences <- MCSilences
    Requests <- MCRequests
    MaxVarBinds = {0, 2, 4, 7}
    MaxResponseSize = 6
INVARIANTS BeginningOfUncut Fits CutForSize
PROPERTY Ends
CHECK_DEADLOCK FALSE
