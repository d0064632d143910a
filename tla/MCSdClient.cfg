SPECIFICATION MCSpec
CONSTANTS
    RepetitionsMax = 2
    SpuriousWakeups = TRUE
    NetworkThread = net
    Readers = {main, debouncer}
    Endpoints = {e1, e2}
    Nothing = nothing
INVARIANT FindsBounded
INVARIANT NoChangeUnseen
INVARIANT EndpointIsWhole
PROPERTY ReadyEnds
PROPERTY JoinEndsOutsideWindow
\* The client is destroyed in the end, a thread may end with an exception, and
\* the endpoint may stay locked.
CHECK_DEADLOCK FALSE
