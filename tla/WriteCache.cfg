SPECIFICATION Spec
CONSTANTS
    Records <- MCRecords
    Requests <- MCRequests
    MaxRestarts = 1
INVARIANTS HoldsLastWrite OneTypeALife NeverDenied
