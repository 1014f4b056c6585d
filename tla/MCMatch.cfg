SPECIFICATION MatchSpec
CONSTANTS
    N = 4
    MaxNs = 2
    Weights <- MCWeights
INVARIANTS MatchTypeOK FindsFirstHeaviest
PROPERTIES FirstOfItsNamespace
CHECK_DEADLOCK FALSE
