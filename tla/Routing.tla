------------------------------ MODULE Routing ------------------------------
(***************************************************************************)
(* The routing pages on top of L3 interfaces and VRFs.  Each has its own   *)
(* mutex, but they refer to VRF and interface rows that are written under  *)
(* the "l3" mutex.  Each behaviour exercises one page with requests that   *)
(* overlap ("bgp", "legacy", "ospf", "routes", "vrrp"), or several with    *)
(* requests one after another ("vrfs", "rebind").                          *)
(***************************************************************************)
EXTENDS Bgp, Ospf, StaticRoutes, Vrrp

VARIABLE page  \* the pages this behaviour exercises

CONSTANT Pages
ASSUME PagesKnown ==
    Pages \subseteq {"bgp", "legacy", "ospf", "routes", "vrrp", "vrfs", "rebind"}

routingVars == <<vars, page>>

Alone(h) == \A g \in Handlers \ {h} : pc[g] = "idle"
Shared == {"vrfs", "rebind"}

\* The pages that look a VRF up, and the VRF page.
VrfPages(h) ==
    \/ VrfRequest(h)
    \/ (InstanceRequest(h) \/ RouteRequest(h)) /\ UNCHANGED blindReads
    \/ \E v \in BgpVrfs, in \in GlobalInputs : put_global(h, "frrcfgd", v, in) /\ UNCHANGED blindReads

RoutingRequest(h) ==
    \/ \E T \in SUBSET {"BGP_NEIGHBOR_AF", "DEVICE_METADATA"}, mode \in {"frrcfgd", "legacy"} :
          /\ page = IF mode = "legacy" THEN "legacy" ELSE "bgp"
          /\ Blindness(T) /\ BgpRequest(h, Blinded(T), mode)
    \/ page = "ospf" /\ InstanceRequest(h) /\ UNCHANGED blindReads
    \/ /\ page \in {"ospf", "rebind"}
       /\ \E T \in SUBSET {"attr"} : Blindness(T) /\ OspfInterfaceRequest(h, Blinded(T))
    \/ page = "routes" /\ RouteRequest(h) /\ UNCHANGED blindReads
    \/ page = "vrrp" /\ \E T \in SUBSET VrrpScans : Blindness(T) /\ VrrpRequest(h, T)
    \/ page = "vrfs" /\ VrfPages(h)
    \/ page = "rebind" /\ InterfaceRequest(h)

RoutingNext ==
    /\ \/ \E h \in Handlers :
             \/ Receive(h) /\ (page \in Shared => Alone(h))
             \/ Malformed(h) \/ Finish(h)
             \/ pc[h] = "queued" /\ RoutingRequest(h)
       \/ Crash
    /\ UNCHANGED page

RoutingSpec == Init /\ page \in Pages /\ [][RoutingNext]_routingVars
----------------------------------------------------------------------------
\* No neighbour, family, area or network is left without what it hangs off.
RowsUnderInstance == BgpRowsUnderInstance /\ OspfRowsUnderInstance

\* What the pages acknowledge is what GET then shows.
RoutingReadBack == BgpReadBack /\ OspfReadBack /\ RouteReadBack /\ VrrpReadBack

\* Rows that are kept per VRF, and the VRF of each.
VrfTables == {"BGP_GLOBALS", "OSPFV2_ROUTER", "OSPFV2_ROUTER_AREA",
              "OSPFV2_ROUTER_AREA_NETWORK", "STATIC_ROUTE"}
PerVrf == {k \in Keys : k[1] \in VrfTables /\ k[2] \in Vrfs}

(***************************************************************************)
(* put_global, put_instance, put_area and the static-route put look the    *)
(* VRF up first: when requests do not overlap, a row of a VRF is only ever *)
(* written while the VRF is there, so that no later request revives what   *)
(* delete_vrf has left behind.  (delete_vrf looks at interfaces only, so   *)
(* these rows do outlive their VRF; a reboot brings back older rows.)      *)
(***************************************************************************)
RowsMadeInVrf ==
    [][page = "vrfs" /\ stops' = stops =>
         \A k \in PerVrf : db[k] # db'[k] /\ Exists(db', k) => Exists(db, Vrf(k[2]))]_routingVars
=============================================================================
