SPECIFICATION SecuritySpec
CONSTANTS
    p1 = p1
    pc1 = pc1
    a1 = a1
    a2 = a2
    pr1 = pr1
    s1 = s1
    srv = srv
    adm = adm
    u1 = u1
    host1 = host1
    comm1 = comm1
    ip1 = ip1
    ip2 = ip2
    Absent = Absent
    Keep = Keep
    NoOne = NoOne
    Ports = {p1}
    Lags = {pc1}
    VlanIds = {}
    Addresses = {}
    AclTables = {a1, a2}
    Priorities = {pr1}
    TableInputs <- MCTableInputs
    RuleInputs <- MCRuleInputs
    Sessions = {s1}
    SessionInputs <- MCSessionInputs
    Servers = {srv}
    Users = {adm, u1}
    Builtin = adm
    AdminGroups = {"sudo", "docker"}
    Hosts = {host1}
    Communities = {comm1}
    Cidrs <- MCCidrs
    GeneralInputs <- MCGeneralInputs
    SnmpInputs <- MCSnmpInputs
    ManagementInputs <- MCManagementInputs
    Backups <- MCBackups
    Keys <- MCKeys
    Fields <- MCFields
    Values <- MCValues
    Features = {"acl", "mirror", "aaa", "system"}
    Handlers = {h1, h2}
    Pages = {"system"}
    Configs0 <- MCConfigs
    MaxRequests = 2
    MaxFaults = 0
    MaxStops = 0
    MaxBlindReads = 1
SYMMETRY HandlerSymmetry
INVARIANT RestoreTakes
CHECK_DEADLOCK FALSE
