SPECIFICATION OverlaySpec
CONSTANTS
    p1 = p1
    v10 = v10
    v20 = v20
    t1 = t1
    t2 = t2
    ip1 = ip1
    ip2 = ip2
    n1 = n1
    n2 = n2
    m1 = m1
    d1 = d1
    d2 = d2
    l1 = l1
    l2 = l2
    Absent = Absent
    Keep = Keep
    NoOne = NoOne
    Ports = {p1}
    Lags = {}
    VlanIds = {v10, v20}
    Addresses = {}
    VtepNames <- MCVtepNames
    SourceIps = {ip1, ip2}
    Vnis = {n1, n2}
    Macs = {m1}
    DomainIds <- MCDomainIds
    DomainInputs <- MCDomainInputs
    LldpInputs <- MCLldpInputs
    LagNames = {l1, l2}
    SessionIps = {ip1, ip2}
    Keys <- MCKeys
    Fields <- MCFields
    Values <- MCValues
    Features = {"vxlan", "dhcp-relay", "fdb", "igmp", "mclag", "lldp"}
    Handlers = {h1, h2}
    Pages = {"vxlan", "fdb", "snooping", "mclag", "lldp", "vlans"}
    Configs0 <- MCConfigs
    MaxRequests = 2
    MaxFaults = 1
    MaxStops = 1
    MaxBlindReads = 1
INVARIANTS OneOverlay MapsRideVtep OverlayReadBack LldpReadBack
PROPERTIES ReferencesMadeToVlans
SYMMETRY HandlerSymmetry
CHECK_DEADLOCK FALSE
