SPECIFICATION PortPagesSpec
CONSTANTS
    p1 = p1
    pc1 = pc1
    v10 = v10
    v20 = v20
    q1 = q1
    q2 = q2
    ref1 = ref1
    c1 = c1
    c2 = c2
    c3 = c3
    Absent = Absent
    Keep = Keep
    NoOne = NoOne
    Ports = {p1}
    Lags = {pc1}
    VlanIds = {v10, v20}
    Addresses = {}
    DscpMaps = {q1, q2}
    MapRefs <- MCMapRefs
    Collectors = {c1, c2, c3}
    MaxStpInst = 1
    ForwardDelays = {"4"}
    HelloTimes = {"9"}
    MaxAges = {"6"}
    Keys <- MCKeys
    Fields <- MCFields
    Values <- MCValues
    Features = {"qos", "storm-control", "sflow", "stp"}
    Handlers = {h1, h2}
    Pages = {"qos", "storm", "sflow", "stp"}
    Configs0 <- MCConfigs
    MaxRequests = 2
    MaxFaults = 1
    MaxStops = 1
    MaxBlindReads = 1
INVARIANTS BoundMapsExist GlobalTimersSane PlatformLimits PortPagesReadBack
SYMMETRY HandlerSymmetry
CHECK_DEADLOCK FALSE
