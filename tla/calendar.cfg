SPECIFICATION Spec
CONSTANTS
    Start <- MCStart
    LastYear = 2035
INVARIANTS
    TypeOK
    RoundTrip
    AgreesWithCivil
    WeekdayFits
CHECK_DEADLOCK FALSE
