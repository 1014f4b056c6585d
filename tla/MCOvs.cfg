SPECIFICATION Spec
CONSTANTS
    Databases <- MCDatabases
    Kernels <- MCKernels
INVARIANTS NoFalsePort PortFound PatchPeers NothingDropped
CHECK_DEADLOCK FALSE
