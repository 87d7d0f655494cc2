\* One event, one subscriber from the start and one that joins later.
SPECIFICATION FairTicks
CONSTANTS
    e1 = e1  e2 = e2  p1 = p1  p2 = p2  x1 = x1  w1 = w1
    Nobody = Nobody  None = None
    Events = {e1}
    Plugins = {p1, p2}
    Live = {p1}
    WakeEvents = {}
    KeyOf <- OwnKey
    Dispatchers = {x1}
    Workers = {w1}
    MaxAttempts = 1
    MaxInFlight = 1
    WakePage = 1
    MaxClaims <- OneEach
    MaxSlices = 1
    Outcomes = {"ack"}
    MaxFaults = 0
    MaxLost = 0
    MaxOps = 0
PROPERTIES LateJoinDelivered
