SPECIFICATION FairSpec
CONSTANTS
    Values <- MCValues
    passedMs = 2
    failedMs = 1
    Words = 8
INVARIANT ReportStands
PROPERTY Debounced
PROPERTY ReportReturns
