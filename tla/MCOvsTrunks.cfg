SPECIFICATION Spec
CONSTANTS
    Databases <- MCDatabases
    Kernels <- MCKernels
INVARIANT OutputDelivered
CHECK_DEADLOCK FALSE
