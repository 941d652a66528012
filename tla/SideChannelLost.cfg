\* Three reports, of which the second arrives last.
CONSTANTS
    MaxNals = 1
    MaxReports = 3
    MaxDecoded = 1

SPECIFICATION FairSpec
INVARIANT
    LostAreLost
CHECK_DEADLOCK FALSE
