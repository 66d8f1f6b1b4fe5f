----------------------------- MODULE MCOverlay -----------------------------
(***************************************************************************)
(* One port, two VLANs, two tunnel names, one MAC address, two MCLAG       *)
(* domain ids, two port channels.  The switch starts with the port in the  *)
(* first VLAN, without a VTEP, or with one that carries a map, an NVO and  *)
(* a static entry spelled another way, and with an MCLAG domain.  The      *)
(* first image is a community one, the second an enterprise one.           *)
(***************************************************************************)
EXTENDS Overlay

CONSTANTS p1, v10, v20, t1, t2, ip1, ip2, n1, n2, m1, d1, d2, l1, l2

MCVtepNames == <<t1, t2>>
MCDomainIds == <<d1, d2>>
Body(i, peer, link, keepalive, ms) ==
    [domain_id |-> i, source_ip |-> ip1, peer_ip |-> peer, peer_link |-> link,
     keepalive |-> keepalive, members |-> ms]
MCDomainInputs ==
    { Body(d1, ip2, l1, "set", {l2}), Body(d2, ip2, Absent, Absent, {l1, l2}),
      Body(d2, ip2, l2, Absent, {}), Body(d1, ip2, Absent, Absent, {l1}),
      Body(d2, ip2, l1, Absent, {l1}), Body(d1, ip1, Absent, "set", {}) }
MCLldpInputs ==
    {[enabled |-> e, hello_time |-> t, multiplier |-> Absent, system_name |-> t] :
        e \in BOOLEAN, t \in {Absent, "set"}}
MCKeys == SwitchingKeys \cup VxlanKeys \cup VlanServiceKeys \cup MclagKeys \cup LldpKeys
MCFields == {"vlanid", "dhcp_servers@", "dhcp_servers", "tagging_mode", "NULL", "admin_status", "mtu", "static"}
            \cup VxlanFields \cup VlanServiceFields \cup MclagFields \cup LldpFields
MCValues == SwitchingValues \cup VxlanValues \cup VlanServiceValues \cup MclagValues \cup LldpValues

MCBare ==
    [k \in Keys |->
        CASE k = Port(p1) -> [NoRow EXCEPT !["admin_status"] = "set"]
          [] k = Vlan(v10) -> [NoRow EXCEPT !["vlanid"] = "set"]
          [] k = VlanMember(v10, p1) -> [NoRow EXCEPT !["tagging_mode"] = "untagged"]
          [] k = PortChannel(l1) -> [NoRow EXCEPT !["admin_status"] = "set"]
          [] k = Feature -> [NoRow EXCEPT !["state"] = "enabled"]
          [] OTHER -> NoRow]
MCMapped ==
    [MCBare EXCEPT ![Vlan(v10)]["dhcp_servers"] = "set",
                   ![Tunnel(t1)]["src_ip"] = ip1, ![Nvo]["source_vtep"] = t1,
                   ![TunnelMap(t1, n1, v10)]["vlan"] = v10,
                   ![TunnelMap(t1, n1, v10)]["vni"] = n1,
                   ![Fdb(v10, m1, "variant")]["port"] = p1,
                   ![Feature]["state"] = "disabled", ![Image]["enterprise"] = "set",
                   ![LldpGlobal]["hello_time"] = "set",
                   ![PortChannel(l2)]["admin_status"] = "set",
                   ![Domain(d2)]["source_ip"] = ip1, ![Domain(d2)]["peer_ip"] = ip2,
                   ![Domain(d2)]["peer_link"] = l1, ![Member(d2, l2)]["if_type"] = "PortChannel"]
MCConfigs == {MCBare, MCMapped}
HandlerSymmetry == Permutations(Handlers)
=============================================================================
