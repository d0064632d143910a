SPECIFICATION MCSpec
CONSTANTS
    Processes = {sm, ev}
    StateManagement = sm
    States = {"Off", "StartUp"}
    InitialState = "Off"
    StartUp = "StartUp"
    activatingStates <- MCActivatingStates
    MaxCalls = 2
    Clients = {c1, c2}
    Seeds = {1}
INVARIANT SuccessMeansStarted
INVARIANT KnownChildrenEnd
PROPERTY Terminates
PROPERTY CallsReturn
