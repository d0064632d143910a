SPECIFICATION PubSubSpec
CONSTANTS
    Clients = {c1, c2}
    Waiters = {c1}
    SessionMax = 2
    MaxSubscriptions = 1
    MaxBuffer = 1
    MaxNet = 2
INVARIANT AcceptedIsServed
INVARIANT DequeueFindsMessage
