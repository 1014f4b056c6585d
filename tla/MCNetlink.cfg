SPECIFICATION Spec
CONSTANTS
    NL_RETRY_COUNT = 2
    SeqMod = 4
    MaxSends = 3
    MaxParts = 2
    MaxForeign = 1
    MaxQueue = 2
INVARIANTS TypeOK NoMixing AnswerComplete
PROPERTIES EndsOnOwnAnswer ExchangeReturns
CHECK_DEADLOCK FALSE
