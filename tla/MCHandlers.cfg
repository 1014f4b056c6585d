SPECIFICATION Spec
CONSTANTS
    N <- MCN
    Ns <- MCNs
    Index <- MCIndex
    Configurations <- MCConfigurations
    MaxEvents = 1
    NULL = NULL
INVARIANTS PrivateValid PassiveExact TunnelTrue VanishedAlone
PROPERTY Finishes
CHECK_DEADLOCK FALSE
