----------------------------- MODULE MCRouting -----------------------------
(***************************************************************************)
(* One port, one VRF beside the default one, and one or two of everything  *)
(* else.  The switch starts with the VRF and nothing in it, or with rows   *)
(* an earlier configuration left: a BGP instance with a neighbour, an OSPF *)
(* interface row for one address, a default-VRF route in the long spelling *)
(* whose fields do not all have a slot per hop, a VRRP group whose interval *)
(* is in seconds.                                                          *)
(***************************************************************************)
EXTENDS Routing

CONSTANTS p, v1, x1, w1, l1, l2, peer, a1

MCKeys == L3Keys \cup BgpKeys \cup OspfKeys \cup RouteKeys \cup VrrpKeys
MCFields == L3Fields \cup BgpFields \cup OspfFields \cup RouteFields \cup VrrpFields
MCValues == L3Values \cup BgpValues \cup OspfValues \cup RouteValues \cup VrrpValues

MCGlobals ==
    {[local_asn |-> "set", router_id |-> "set", paths |-> "set", gr |-> TRUE],
     [local_asn |-> "set", router_id |-> Absent, paths |-> Absent, gr |-> FALSE],
     [local_asn |-> Absent, router_id |-> Absent, paths |-> Absent, gr |-> FALSE]}
MCNeighbors ==
    {[holdtime |-> "set", ttl |-> "set", bfd |-> TRUE, admin |-> "up", afs |-> Families],
     [holdtime |-> Absent, ttl |-> Absent, bfd |-> FALSE, admin |-> "down", afs |-> {"ipv4_unicast"}],
     [holdtime |-> "set", ttl |-> Absent, bfd |-> FALSE, admin |-> "up", afs |-> {}]}
MCAreaNumbers == "0" :> "0.0.0.0"
MCOspfAddrs == <<"0.0.0.0", "10.0.0.1">>

Pairs(S) == {<<a \o "," \o b, <<a, b>>>> : a \in S, b \in S}
Singles(S) == {<<a, <<a>>>> : a \in S}
MCTexts == Singles({"", "gw", "eth", "0", "5", "true", "false"})
           \cup Pairs({"", "gw"}) \cup Pairs({"", "eth"}) \cup Pairs({"0", "5"})
           \cup Pairs({"true", "false"})
MCText == [t \in {x[1] : x \in MCTexts} |-> (CHOOSE x \in MCTexts : x[1] = t)[2]]
Hop(gw, eth, bh, dist) == [gateway |-> gw, interface |-> eth, blackhole |-> bh, distance |-> dist]
MCHopLists ==
    {<<Hop("gw", Absent, FALSE, Absent)>>, <<Hop(Absent, Absent, TRUE, "5")>>,
     <<Hop(Absent, "eth", FALSE, "5"), Hop("gw", "eth", FALSE, Absent)>>,
     <<Hop("gw", Absent, FALSE, Absent), Hop(Absent, Absent, TRUE, "5")>>}
MCVipLists == (l1 :> {w1}) @@ (l2 :> {w1, a1})
MCNumber == ("1" :> 1) @@ ("100" :> 100) @@ ("210" :> 210) @@ ("40950" :> 40950)

MCBare ==
    [k \in Keys |->
        CASE k = Vrf(v1) -> [NoRow EXCEPT !["fallback"] = "false"]
          [] k = Metadata -> [NoRow EXCEPT !["hostname"] = "set"]
          [] k = Attr(p) -> [NoRow EXCEPT !["vrf_name"] = v1]
          [] k = Ip(p, a1) -> [NoRow EXCEPT !["NULL"] = "NULL"]
          [] OTHER -> NoRow]
MCUsed ==
    [MCBare EXCEPT
        ![Attr(p)] = [NoRow EXCEPT !["NULL"] = "NULL"],
        ![Metadata]["bgp_asn"] = "set",
        ![Globals("default")]["local_asn"] = "set",
        ![Neighbor("default", peer)]["asn"] = "set",
        ![NeighborAf("default", peer, "l2vpn_evpn")]["admin_status"] = "true",
        ![Router("default")]["enable"] = "true",
        ![OspfIf(p, "10.0.0.1")]["area-id"] = "0.0.0.0",
        ![NamedRoute("default", x1)]["nexthop"] = "gw,gw",
        ![NamedRoute("default", x1)]["distance"] = "5",
        ![Group(p, 1)] = [NoRow EXCEPT !["vip"] = l1, !["preempt"] = "enabled",
                                       !["adv_interval"] = "1"]]
MCConfigs == {MCBare, MCUsed}
HandlerSymmetry == Permutations(Handlers)
=============================================================================
