SPECIFICATION Spec
CONSTANTS
    TableIds <- MCTableIds
    MaxRoutes = 5
INVARIANTS EveryRouteOnce TablesInOrder
CHECK_DEADLOCK FALSE
