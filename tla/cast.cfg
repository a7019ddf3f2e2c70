SPECIFICATION Spec
CONSTANTS
    W8 = 8
    W16 = 16
    W32 = 20
    W64 = 24
    Mant32 = 18
    Mant64 = 22
    Microsecond = 3
    Second = 6
    Minute = 12
    Hour = 24
    hoursPerDay = 2
    secondsPerDay = 8
    Columns <- MCColumns
    Times <- MCTimes
    VariantIndexes = {0, 1}
    MaxNodes = 4
INVARIANTS
    TypeOK
    CastIntegerExact
    CastTextIsToStringBelowSignBit
    TimeSurvivesWithinItsRange
    IntervalTextReadsBack
