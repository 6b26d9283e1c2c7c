SPECIFICATION Spec
CONSTANTS
    Trees <- TreesDef
    CommandLines <- CommandLinesDef
    DEFAULT_DIRS <- Default
    Modules = 2
    Requests <- RequestsDef
    MaxHeld = 2
CHECK_DEADLOCK FALSE
INVARIANTS
    DataWhereAsked
    Unambiguous
    MostSpecific
    StateReleased
