------------------------------- MODULE MCFrr -------------------------------
(* Small instance of FrrPages: two handlers, one object of each kind.      *)
EXTENDS FrrPages

CONSTANTS h1, h2

MCHandlers == {h1, h2}
MCFeatures == {"policy", "isis", "bfd"}

MCListNames == {"L"}
MCMapNames == {"M"}
Rule(seq, action, af, len, ge, le) ==
    [seq |-> seq, action |-> action, af |-> af, len |-> len, ge |-> ge, le |-> le]
R5 == Rule(5, "permit", "ipv4", 8, 16, 32)
MCListInputs ==
    { [family |-> "ipv4", rules |-> <<R5, Rule(10, "deny", "ipv4", 0, Absent, 32)>>],
      [family |-> "ipv4", rules |-> <<Rule(10, "permit", "ipv4", 8, Absent, Absent)>>],
      [family |-> "ipv6", rules |-> <<Rule(5, "permit", "ipv6", 8, Absent, 128)>>],
      [family |-> "ipv6", rules |-> <<R5>>],
      [family |-> "ipv4", rules |-> <<Rule(5, "permit", "ipv4", 8, 24, 16)>>] }
MCClauses == {"ip_prefix_list", "ipv6_prefix_list", "metric"}
Entry(seq, action, clauses) == [seq |-> seq, action |-> action, clauses |-> clauses]
MCMapInputs ==
    { <<Entry(10, "permit", "ip_prefix_list" :> "L"), Entry(20, "deny", <<>>)>>,
      <<Entry(10, "deny", "metric" :> "100")>>,
      <<Entry(20, "permit", "ipv6_prefix_list" :> "L")>>,
      <<Entry(10, "permit", "metric" :> "bad")>>,
      <<Entry(10, "permit", <<>>), Entry(10, "deny", <<>>)>> }

MCTags == {"1", "core"}
MCIsisInterfaces == {"Ethernet0"}
MCInstanceInputs ==
    [net : {"49.A", "49.B"}, level : {"level-1-2", "level-2"}, hostname : BOOLEAN] \cup
    [net : {Absent, "bad"}, level : {"level-1"}, hostname : {TRUE}]
MCIsisInputs ==
    [enabled : {TRUE}, circuit_type : {Absent, "level-2"}, metric : {Absent, 10},
     passive : BOOLEAN, point_to_point : {TRUE}] \cup
    [enabled : BOOLEAN, circuit_type : {"level-1"}, metric : {16777216, 16777215},
     passive : {FALSE}, point_to_point : {FALSE}]

MCAddresses ==
    ("FD00::1" :> [addr |-> "fd00::1", family |-> 6]) @@ ("fd00::1" :> [addr |-> "fd00::1", family |-> 6]) @@
    ("fd00::a" :> [addr |-> "fd00::a", family |-> 6]) @@ ("fd00::b" :> [addr |-> "fd00::b", family |-> 6]) @@
    ("10.0.0.1" :> [addr |-> "10.0.0.1", family |-> 4])
MCPeerInputs ==
    [peer : {"FD00::1", "fd00::1"}, ifc : {Absent}, local : {"fd00::a", "fd00::b"}, multihop : {TRUE},
     vrf : {Absent}, rx : {Absent, 10}, tx : {Absent}, mult : {2}, passive : {FALSE}, shutdown : BOOLEAN] \cup
    [peer : {"fd00::1"}, ifc : {"Ethernet0"}, local : {Absent}, multihop : BOOLEAN,
     vrf : {"Vrf1"}, rx : {Absent}, tx : {60000, 9}, mult : {Absent}, passive : BOOLEAN, shutdown : {FALSE}] \cup
    [peer : {"fd00::1", "nonsense"}, ifc : {Absent}, local : {"10.0.0.1"}, multihop : {FALSE},
     vrf : {Absent}, rx : {Absent}, tx : {Absent}, mult : {Absent}, passive : {FALSE}, shutdown : {FALSE}]
MCPeerKeys ==
    { [peer |-> "FD00::1", ifc |-> Absent, vrf |-> Absent, multihop |-> TRUE],
      [peer |-> "fd00::1", ifc |-> "Ethernet0", vrf |-> "Vrf1", multihop |-> FALSE],
      [peer |-> "nonsense", ifc |-> Absent, vrf |-> Absent, multihop |-> FALSE] }

PeerA == <<"peer", "fd00::1", "fd00::a", Absent, Absent, TRUE>>
PeerB == <<"peer", "fd00::1", "fd00::b", Absent, Absent, TRUE>>
PeerC == <<"peer", "fd00::1", Absent, "Ethernet0", "Vrf1", FALSE>>
MCKeys ==
    { ListKey("ipv4", "L"), ListKey("ipv6", "L"), MapKey("M"), <<"applied", "M">>,
      RouterKey("1"), RouterKey("core"), InterfaceKey("Ethernet0"), PeerA, PeerB, PeerC }
MCFields ==
    { <<5, "rule">>, <<10, "rule">> } \cup
    ({10, 20} \X (MCClauses \cup {"action"})) \cup
    { Statement(w) : w \in Settings \cup Nets \cup
        { "opened", "is-type", "no hostname dynamic", "ip router isis", "ipv6 router isis",
          "circuit-type", "metric", "passive", "point-to-point" } }
MCValues ==
    { RuleValue(in.rules[i]) : in \in MCListInputs, i \in {1} } \cup
    { <<"deny", 0, Absent, 32>> } \cup
    { <<w>> : w \in {"yes", "permit", "deny", "L", "100", "level-1-2", "level-2-only", "level-1", "1", "core"} } \cup
    { <<"metric", 10>>, <<"metric", 16777215>>, <<"receive-interval", 10>>,
      <<"transmit-interval", 60000>>, <<"detect-multiplier", 2>> }

\* A configuration of an operator: a list in use, an instance of another tag,
\* an interface that also runs IS-IS for IPv6, a peer.
Block(vals) == [f \in Fields |-> IF f \in DOMAIN vals THEN vals[f] ELSE Absent]
Opened == Statement("opened") :> <<"yes">>
Operated ==
    [NoConfig EXCEPT
        ![ListKey("ipv4", "L")] = Block(<<10, "rule">> :> <<"deny", 0, Absent, 32>>),
        ![MapKey("M")] = Block((<<10, "action">> :> <<"permit">>) @@ (<<10, "ip_prefix_list">> :> <<"L">>)),
        ![RouterKey("core")] = Block(Opened @@ (Statement("49.A") :> <<"yes">>)),
        ![InterfaceKey("Ethernet0")] =
            Block(Opened @@ (Statement("ipv6 router isis") :> <<"core">>) @@ (Statement("passive") :> <<"yes">>)),
        ![PeerA] = Block(Opened @@ (Statement("passive-mode") :> <<"yes">>))]
MCConfigs0 == { NoConfig, Operated }
=============================================================================
