----------------------------- MODULE MCSecurity -----------------------------
(***************************************************************************)
(* A port and a port channel, two ACL tables, one mirror session, one AAA  *)
(* server, two accounts.  The switch starts bare, with the built-in admin, *)
(* or with rows an earlier configuration left: a table with a legacy port  *)
(* list, an unmanaged one whose rule names the mirror session, a server    *)
(* with a key, a second admin, a syslog server, a static address.          *)
(***************************************************************************)
EXTENDS Security

CONSTANTS p1, pc1, a1, a2, pr1, s1, srv, adm, u1, host1, comm1, ip1, ip2

MCKeys == SwitchingKeys \cup AclKeys \cup MirrorKeys \cup AaaKeys \cup SystemKeys
MCFields == SwitchingFields \cup AclFields \cup MirrorFields \cup AaaFields \cup SystemFields
MCValues == SwitchingValues \cup AclValues \cup MirrorValues \cup AaaValues \cup SystemValues

MCTableInputs ==
    {[kind |-> "L3", stage |-> "ingress", desc |-> "set", port |-> p1],
     [kind |-> "L3", stage |-> "egress", desc |-> Absent, port |-> ""],
     [kind |-> "MAC", stage |-> "ingress", desc |-> Absent, port |-> pc1]}
MCRuleInputs ==
    {[action |-> "drop", desc |-> "set", src |-> "ipv4", protocol |-> "tcp", src_port |-> "22"],
     [action |-> "forward", desc |-> Absent, src |-> Absent, protocol |-> "tcp",
      src_port |-> "1024-65535"],
     [action |-> "drop", desc |-> Absent, src |-> "mac", protocol |-> Absent, src_port |-> Absent],
     [action |-> "drop", desc |-> Absent, src |-> Absent, protocol |-> "icmp", src_port |-> "22"]}
MCSessionInputs ==
    {[type |-> "span", source |-> pc1, direction |-> "rx", dst_port |-> p1,
      src_ip |-> Absent, gre_type |-> Absent],
     [type |-> "span", source |-> p1, direction |-> "tx", dst_port |-> p1,
      src_ip |-> Absent, gre_type |-> Absent],
     [type |-> "span", source |-> p1, direction |-> "tx", dst_port |-> p1,
      src_ip |-> "set", gre_type |-> Absent],
     [type |-> "erspan", source |-> p1, direction |-> "both", dst_port |-> Absent,
      src_ip |-> "set", gre_type |-> Absent]}

MCGeneralInputs ==
    [hostname : {"set"}, ntp : SUBSET {host1}, syslog : [{host1} -> Option] \cup {<<>>}]
MCSnmpInputs ==
    {[enabled |-> TRUE, location |-> "set", contact |-> Absent, communities |-> comm1 :> "rw"],
     [enabled |-> FALSE, location |-> Absent, contact |-> "set", communities |-> <<>>],
     [enabled |-> TRUE, location |-> Absent, contact |-> Absent, communities |-> comm1 :> "ro"]}
MCCidrs == <<ip1, ip2>>
MCManagementInputs ==
    [dhcp : {FALSE}, ip : {ip1, ip2}, gateway : Option] \cup
    [dhcp : BOOLEAN, ip : {Absent}, gateway : {Absent}]

MCBare ==
    [NoConfig EXCEPT
        ![Port(p1)]["admin_status"] = "set",
        ![Meta]["hostname"] = "set",
        ![Passwd(adm)]["login"] = "bash", ![Group(adm)]["sudo"] = "in"]
MCUsed ==
    [MCBare EXCEPT
        ![Lag(pc1)]["admin_status"] = "set",
        ![AclTable(a1)] = [NoRow EXCEPT !["type"] = "L3", !["stage"] = "ingress", !["ports"] = p1],
        ![AclRule(a1, pr1)] = [NoRow EXCEPT !["PRIORITY"] = pr1, !["SRC_IP"] = "ipv4"],
        ![AclTable(a2)] = [NoRow EXCEPT !["type"] = "MIRROR", !["stage"] = "ingress"],
        ![AclRule(a2, pr1)] =
            [NoRow EXCEPT !["PRIORITY"] = pr1, !["MIRROR_INGRESS_ACTION"] = s1],
        ![MirrorSession(s1)] =
            [NoRow EXCEPT !["src_port"] = p1, !["src_ip"] = "set", !["gre_type"] = "set"],
        ![AaaServer(srv)] = [NoRow EXCEPT !["priority"] = "set", !["passkey"] = "set"],
        ![Syslog(host1)]["port"] = "set", ![MgmtIp(ip2)]["gwaddr"] = "set",
        ![Passwd(u1)]["login"] = "bash", ![Group(u1)]["sudo"] = "in"]
MCConfigs == {MCBare, MCUsed}
MCBackups == {MCUsed}
HandlerSymmetry == Permutations(Handlers)
=============================================================================
