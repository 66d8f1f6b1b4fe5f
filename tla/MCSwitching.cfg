SPECIFICATION Spec
CONSTANTS
    p1 = p1
    a1 = a1
    lag = lag
    Absent = Absent
    Keep = Keep
    NoOne = NoOne
    Ports = {p1}
    Lags = {lag}
    VlanIds = {10, 20}
    Addresses = {a1}
    Keys <- SwitchingKeys
    Fields <- SwitchingFields
    Values <- SwitchingValues
    Features = {}
    Handlers = {h1}
    Configs0 <- MCConfigs
    MaxRequests = 2
    MaxFaults = 1
    MaxStops = 1
    MaxBlindReads = 1
INVARIANTS NothingHangsOffNoVlan ChildrenHaveParent Converged
CHECK_DEADLOCK FALSE
