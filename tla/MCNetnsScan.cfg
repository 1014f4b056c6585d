SPECIFICATION Spec
CONSTANTS
    a = a
    b = b
    Root = Root
    Ns <- MCNs
    Names = {n1, n2}
    Pids <- MCPids
    MaxMoves = 1
    MaxExits = 1
    NULL = NULL
INVARIANTS TypeOK UniqueIds ReadInOwnNs NothingMissed LowestPid
CHECK_DEADLOCK FALSE
