---------------------------- MODULE MCSwitching ----------------------------
(***************************************************************************)
(* A switch with one port, one possible port channel, two VLANs and one    *)
(* address.  It starts as shipped, or with the port untagged in the first  *)
(* VLAN, which has an address, and the port channel tagged in the second.  *)
(***************************************************************************)
EXTENDS Switching

CONSTANTS p1, a1, lag

\* A PORT row has fields no handler removes (lanes, alias): admin_status here.
Factory ==
    [k \in Keys |-> IF k[1] = "PORT" THEN [NoRow EXCEPT !["admin_status"] = "set"] ELSE NoRow]
MCVlans ==
    [Factory EXCEPT ![Vlan(10)]["vlanid"] = "set", ![Vlan(10)]["dhcp_servers"] = "set",
                    ![Vlan(20)]["vlanid"] = "set",
                    ![Lag(lag)]["admin_status"] = "set",
                    ![VlanMember(20, lag)]["tagging_mode"] = "tagged",
                    ![VlanMember(10, p1)]["tagging_mode"] = "untagged",
                    ![Svi(10)]["NULL"] = "NULL", ![SviIp(10, a1)]["NULL"] = "NULL"]
MCConfigs == {Factory, MCVlans}
=============================================================================
