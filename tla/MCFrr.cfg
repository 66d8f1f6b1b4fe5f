SPECIFICATION FrrSpec
CONSTANTS
    h1 = h1
    h2 = h2
    Absent = Absent
    Keep = Keep
    NoOne = NoOne
    Handlers <- MCHandlers
    Features <- MCFeatures
    Keys <- MCKeys
    Fields <- MCFields
    Values <- MCValues
    Configs0 <- MCConfigs0
    MaxFaults = 1
    MaxStops = 1
    MaxRequests = 2
    MaxBlindReads = 0
    ListNames <- MCListNames
    MapNames <- MCMapNames
    ListInputs <- MCListInputs
    MapInputs <- MCMapInputs
    Clauses <- MCClauses
    Tags <- MCTags
    IsisInterfaces <- MCIsisInterfaces
    InstanceInputs <- MCInstanceInputs
    IsisInputs <- MCIsisInputs
    PeerInputs <- MCPeerInputs
    PeerKeys <- MCPeerKeys
    Addresses <- MCAddresses
    FrrPageNames = {"policy", "isis", "bfd"}
INVARIANTS OneFamily DeletesUnusedLists OneOfEach FrrReadBack
CHECK_DEADLOCK FALSE
