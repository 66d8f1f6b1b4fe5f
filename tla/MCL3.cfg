SPECIFICATION Spec
CONSTANTS
    p = p
    lo = lo
    a1 = a1
    a2 = a2
    v1 = v1
    v2 = v2
    Absent = Absent
    Keep = Keep
    NoOne = NoOne
    Ports = {p}
    Loopbacks = {lo}
    Addresses = {a1, a2}
    Vrfs = {v1, v2}
    Vnis = {"5000"}
    Keys <- L3Keys
    Fields <- L3Fields
    Values <- L3Values
    Features = {"l3"}
    Handlers = {h1, h2}
    Configs0 <- MCConfigs
    MaxRequests = 2
    MaxFaults = 2
    MaxStops = 1
    MaxBlindReads = 1
INVARIANTS BoundVrfExists AddressesHaveParent Converged
PROPERTIES RebindOnlyWhenBare
SYMMETRY HandlerSymmetry
CHECK_DEADLOCK FALSE
