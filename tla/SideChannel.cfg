\* One NAL unit, two decoded after a skipped chunk, and as many reports as it takes to lose one and to be overtaken.
CONSTANTS
    MaxNals = 1
    MaxReports = 3
    MaxDecoded = 2

SPECIFICATION FairSpec
INVARIANTS
    TypeOK
    ReportsAreConsistent
    FinalNotMoreThanSent
    SummaryAccountsForAll
PROPERTIES
    BothEnd
CHECK_DEADLOCK FALSE
