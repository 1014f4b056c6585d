SPECIFICATION Spec
CONSTANTS
    Frontends <- MCFrontends
    FormatArgs <- MCFormatArgs
    DefaultFormat = "dot"
    MaxArgs = 6
    NULL = NULL
INVARIANTS FilesWritten FormatsWritten ConfigScoped AllOrNothing
CHECK_DEADLOCK FALSE
