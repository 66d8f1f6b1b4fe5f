---------------------------- MODULE MCPortPages ----------------------------
(***************************************************************************)
(* A port and a port channel, two VLANs, two DSCP maps, three collectors.  *)
(* The switch starts bare, or with rows an earlier configuration left: a   *)
(* bracketed map reference, two collectors, spanning tree on one of two    *)
(* VLANs with max_age alone set.                                           *)
(***************************************************************************)
EXTENDS PortPages

CONSTANTS p1, pc1, v10, v20, q1, q2, ref1, c1, c2, c3

MCMapRefs == ref1 :> q1
MCKeys == SwitchingKeys \cup PolicyKeys \cup StpKeys
MCFields == SwitchingFields \cup PolicyFields \cup StpFields
MCValues == SwitchingValues \cup PolicyValues \cup StpValues

MCBare ==
    [NoConfig EXCEPT
        ![Port(p1)]["admin_status"] = "set",
        ![Vlan(v10)]["vlanid"] = "set",
        ![VlanMember(v10, p1)]["tagging_mode"] = "untagged"]
MCUsed ==
    [MCBare EXCEPT
        ![Vlan(v20)]["vlanid"] = "set",
        ![Lag(pc1)]["admin_status"] = "set",
        ![DscpMap(q1)]["dscp0"] = "tc0",
        ![PortQos(p1)]["dscp_to_tc_map"] = ref1,
        ![Collector(c1)]["collector_ip"] = "set",
        ![Collector(c2)]["collector_ip"] = "set",
        ![Session("all")]["sample_rate"] = "set",
        ![StpGlobal] = [NoRow EXCEPT !["mode"] = "mst", !["max_age"] = "6"],
        ![StpMst]["NULL"] = "NULL",
        ![StpVlan(v10)]["enabled"] = "true",
        ![StpVlan(v20)]["enabled"] = "false"]
MCConfigs == {MCBare, MCUsed}
HandlerSymmetry == Permutations(Handlers)
=============================================================================
