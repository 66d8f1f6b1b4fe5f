SPECIFICATION RoutingSpec
CONSTANTS
    p = p
    v1 = v1
    x1 = x1
    w1 = w1

    l1 = l1
    l2 = l2
    a1 = a1
    peer = peer
    Absent = Absent
    Keep = Keep
    NoOne = NoOne
    Ports = {p}
    Loopbacks = {}
    Addresses = {a1}
    Vrfs = {v1}
    Vnis = {}
    Peers = {peer}
    Families = {"ipv4_unicast", "l2vpn_evpn"}
    GlobalInputs <- MCGlobals
    NeighborInputs <- MCNeighbors
    Areas = {"0.0.0.0"}
    AreaNumbers <- MCAreaNumbers
    Networks = {"net1", "net2"}
    OspfAddrs <- MCOspfAddrs
    RoutePrefixes = {x1}
    Text <- MCText
    HopLists <- MCHopLists
    Groups = {1}
    VipLists <- MCVipLists
    Number <- MCNumber
    AdvInputs = {Absent, 94, 95, 205, 40954}
    Keys <- MCKeys
    Fields <- MCFields
    Values <- MCValues
    Features = {"l3", "bgp", "ospf", "static-routes", "vrrp"}
    Handlers = {h1, h2}
    Pages = {"bgp", "legacy", "ospf", "routes", "vrrp", "vrfs", "rebind"}
    Configs0 <- MCConfigs
    MaxRequests = 2
    MaxFaults = 1
    MaxStops = 1
    MaxBlindReads = 1
INVARIANTS RowsUnderInstance RoutingReadBack
PROPERTIES RowsMadeInVrf
SYMMETRY HandlerSymmetry
CHECK_DEADLOCK FALSE
