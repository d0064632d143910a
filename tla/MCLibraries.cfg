\* The stream and the FIFO may run dry: the bounds on what is sent are reached.
SPECIFICATION MCSpec
CHECK_DEADLOCK FALSE
CONSTANTS
    Services <- SomeServices
    Eventgroups <- SomeEventgroups
    Options <- SomeOptions
    Requests <- SomeRequests
    MaxEntries = 2
    MaxOptions = 2
    MaxRequests = 3
    MaxSession = 2
    cCounterMax = 2
    Flips = {1, 16, 128}
    MaxSent = 6
    MaxCorrupted = 1
    Results = {r, q}
    Voids = {v, w}
    Contents = {1, 2}
    Cells = {"c1", "c2", "c3", "c4"}
    RepetitionsMax = 2
    MaxFinds = 3
    ExpectedAliveIndicationsMin = 1
    ExpectedAliveIndicationsMax = 2
    FailedReferenceCyclesTolerance = 2
    IndicationsLimit = 3
INVARIANTS RoundTrip RebootFlag StreamIsCut CheckpointsArrive ResultsAreSound
INVARIANTS OfferIsWithdrawn BlamedIsExpired
PROPERTIES StopReturns FindIsAnswered ExpiryIsRecovered DeadlineSettles
