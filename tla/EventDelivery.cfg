\* Two deliveries of one ordering key, two workers, one may run at a time.
SPECIFICATION Spec
CONSTANTS
    e1 = e1  e2 = e2  p1 = p1  x1 = x1  w1 = w1  w2 = w2
    Nobody = Nobody  None = None
    Events = {e1, e2}
    Plugins = {p1}
    Live = {}
    WakeEvents = {}
    KeyOf <- OneKey
    Dispatchers = {x1}
    Workers = {w1, w2}
    MaxAttempts = 1
    MaxInFlight = 1
    WakePage = 1
    MaxClaims <- ThreeAndOne
    MaxSlices = 0
    Outcomes = {"ack", "retry", "suspend_timer"}
    MaxFaults = 1
    MaxLost = 1
    MaxOps = 1
SYMMETRY WorkerSymmetry
INVARIANTS TypeOK InFlightCap AttemptsAccounted
PROPERTIES FifoPerKey  ResumeCostsNothing
