SPECIFICATION Spec
CONSTANTS
    Ifs <- Entries
    NULL = NULL
INVARIANTS WellLinked OwnLists EachChildOnce
PROPERTIES ImplementsIndex
CHECK_DEADLOCK FALSE
