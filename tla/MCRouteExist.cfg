SPECIFICATION Spec
CONSTANTS
    TableIds <- MCTableIds
    MaxRoutes = 3
INVARIANTS TablesExist
CHECK_DEADLOCK FALSE
