SPECIFICATION SearchSpec
CONSTANTS
    Files <- AllFiles
    Oids <- MCOids
    BlockSize = 2
    MCLines = 4
    MCWidth = 3
INVARIANTS Bracket AtLineStart RoundsUpOrEof
PROPERTY Terminates
CHECK_DEADLOCK FALSE
