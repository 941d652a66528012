SPECIFICATION FairSpec
CONSTANTS
    Input <- MCInput
    SeqNums = 3
    Timestamps = 4
    Ticks = 3
    MaxTroubles = 1
    MaxReports = 2
INVARIANTS
    TypeOK
    HeadersTell
    DamageIsConfined
    SteadyConnectionIsSafe
    SummaryIsTrue
PROPERTIES
    NothingHangs
CHECK_DEADLOCK FALSE
