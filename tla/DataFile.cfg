SPECIFICATION Spec
CONSTANTS
    DataFiles <- MCDataFiles
    Requests <- MCRequests
    Losses <- MCLosses
    MaxBrokenRecords = 2
    KindsInUse = {"value", "broken", "empty", "silent", "subtree", "bad"}
INVARIANTS NeverWrong Complete DroppedForCause
PROPERTY Ends
CHECK_DEADLOCK FALSE
