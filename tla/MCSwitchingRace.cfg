SPECIFICATION Spec
CONSTANTS
    p1 = p1
    a1 = a1
    lag = lag
    Absent = Absent
    Keep = Keep
    NoOne = NoOne
    Ports = {p1}
    Lags = {lag}
    VlanIds = {10, 20}
    Addresses = {a1}
    Keys <- SwitchingKeys
    Fields <- SwitchingFields
    Values <- SwitchingValues
    Features = {}
    Handlers = {h1, h2}
    Configs0 <- MCConfigs
    MaxRequests = 2
    MaxFaults = 0
    MaxStops = 0
    MaxBlindReads = 0
INVARIANTS NothingHangsOffNoVlan
CHECK_DEADLOCK FALSE
