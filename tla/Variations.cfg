SPECIFICATION Spec
CONSTANTS
    LIMIT = 5
    Simulations <- SimulationsDef
    OIDs = {1, 2, 3}
    Values = {5, 15}
    MaxVars = 2
    MaxTime = 5
INVARIANTS
    NeverBack
    CommittedWhenAnswered
    HalfReadIsUnused
PROPERTY
    CumulativeNeverFalls
