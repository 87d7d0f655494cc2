\* Two dispatchers, deliveries that park, pages of one row.
SPECIFICATION Spec
CONSTANTS
    e1 = e1  e2 = e2  p1 = p1  x1 = x1  x2 = x2  w1 = w1
    Nobody = Nobody  None = None
    Events = {e1, e2}
    Plugins = {p1}
    Live = {p1}
    WakeEvents = {e2}
    KeyOf <- OwnKey
    Dispatchers = {x1, x2}
    Workers = {w1}
    MaxAttempts = 2
    MaxInFlight = 1
    WakePage = 1
    MaxClaims <- TwoEach
    MaxSlices = 3
    Outcomes = {"suspend_event", "suspend_both"}
    MaxFaults = 0
    MaxLost = 0
    MaxOps = 0
SYMMETRY DispatcherSymmetry
INVARIANTS NoLostWake
