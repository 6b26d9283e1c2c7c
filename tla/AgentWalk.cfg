SPECIFICATION Spec
CONSTANTS
    Agents <- AgentsDef
    START <- Start
    Stops <- StopsDef
    Retries = {0, 1, 3}
    Repetitions = {1, 2}
    Iterations = {0, 3}
    MaxServed = 3
CHECK_DEADLOCK FALSE
INVARIANTS
    InOrder
    SuccessIsComplete
PROPERTY
    Ends
