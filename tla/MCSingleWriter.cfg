SPECIFICATION StorageSpec
CONSTANTS
    Clients = {w1}
    Waiters = {}
    Vehicle = ev
    Owners = {w1, ev}
    Values = {"log", "event"}
    SessionMax = 1
    MaxSubscriptions = 1
    MaxBuffer = 0
    MaxNet = 1
    MaxLog <- Followed
INVARIANT SingleWriter
