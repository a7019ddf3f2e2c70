SPECIFICATION Spec
CONSTANTS
    testData <- MCtestData
    MaxCalls = 4
INVARIANTS
    TypeOK
    NextServesWhomTheTestExpects
    NoRowFails
CHECK_DEADLOCK FALSE
