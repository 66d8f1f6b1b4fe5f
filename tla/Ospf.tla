------------------------------- MODULE Ospf -------------------------------
(***************************************************************************)
(* OSPFv2 (src/src/sonic/ospf.rs) behind the "ospf" mutex.  Areas and      *)
(* interfaces are written through store::apply, instances and deletions    *)
(* are not.  Where the passive marker of an interface goes depends on the  *)
(* interface's VRF, a row of module L3 under another mutex.                *)
(***************************************************************************)
EXTENDS L3

CONSTANTS
    Areas,        \* area ids in dotted-quad form
    AreaNumbers,  \* plain-number spellings, with the area each one means
    Networks,     \* well-formed CIDRs
    OspfAddrs     \* addresses of OSPFV2_INTERFACE keys, in their sort order

OspfVrfs == Vrfs \cup {"default"}
Whole == "0.0.0.0"   \* the address of a row for the whole interface
Router(v) == <<"OSPFV2_ROUTER", v>>
Area(v, a) == <<"OSPFV2_ROUTER_AREA", v, a>>
Network(v, a, net) == <<"OSPFV2_ROUTER_AREA_NETWORK", v, a, net>>
Passive(v, n) == <<"OSPFV2_ROUTER_PASSIVE_INTERFACE", v, n>>
OspfIf(n, addr) == <<"OSPFV2_INTERFACE", n, addr>>

OspfKeys ==
    {Router(v) : v \in OspfVrfs} \cup {Area(v, a) : v \in OspfVrfs, a \in Areas}
    \cup {Network(v, a, net) : v \in OspfVrfs, a \in Areas, net \in Networks}
    \cup {Passive(v, n) : v \in OspfVrfs, n \in Interfaces}
    \cup {OspfIf(n, addr) : n \in Interfaces, addr \in Range(OspfAddrs)}
OspfFields == {"enable", "router_id", "stub", "NULL", "area-id", "bfd", "cost"}
OspfValues == Areas \cup {"true", "false", "set", "NULL"}

ASSUME OspfConstants ==
    /\ OspfKeys \subseteq Keys /\ OspfFields \subseteq Fields /\ OspfValues \subseteq Values
    /\ Whole \in Range(OspfAddrs)

normalize_area(a) == IF a \in DOMAIN AreaNumbers THEN AreaNumbers[a] ELSE a

RowsIn(d, table, v) == {k \in OspfKeys : k[1] = table /\ k[2] = v /\ Exists(d, k)}
NetworksOf(d, v, a) == {net \in Networks : Exists(d, Network(v, a, net))}
IfRows(d, n) == {addr \in Range(OspfAddrs) : Exists(d, OspfIf(n, addr))}

----------------------------------------------------------------------------
\* GET /api/routing/ospf, less the live neighbours.  An interface shows its
\* first row, and is passive if any VRF has a marker for it.
InstanceDoc(d, v) == [router_id |-> d[Router(v)]["router_id"]]
AreaDoc(d, v, a) == [stub |-> d[Area(v, a)]["stub"] = "true", networks |-> NetworksOf(d, v, a)]
FirstRow(d, n) ==
    IF IfRows(d, n) = {} THEN NoRow
    ELSE d[OspfIf(n, OspfAddrs[Min({i \in DOMAIN OspfAddrs : OspfAddrs[i] \in IfRows(d, n)})])]
InterfaceDoc(d, n) ==
    [area |-> FirstRow(d, n)["area-id"], cost |-> FirstRow(d, n)["cost"],
     bfd |-> FirstRow(d, n)["bfd"] = "true",
     passive |-> \E v \in OspfVrfs : Exists(d, Passive(v, n))]

----------------------------------------------------------------------------
\* Mutant of check_vrf: the VRF is not looked up.
VrfNamed(v) == TRUE
check_vrf(v) == v # "default" => Exists(db, Vrf(v))

\* "router row, areas, networks, passive markers"; interface rows stay.
TearDown(v) ==
    <<Del(Router(v))>> \o Dels(RowsIn(db, "OSPFV2_ROUTER_AREA", v))
    \o Dels(RowsIn(db, "OSPFV2_ROUTER_AREA_NETWORK", v))
    \o Dels(RowsIn(db, "OSPFV2_ROUTER_PASSIVE_INTERFACE", v))

put_instance(h, v, enabled, rid) ==
    \/ check_vrf(v) /\ enabled
       /\ Accept(h, "ospf", <<HSet(Router(v), [enable |-> "true"]),
                              Optional(Router(v), "router_id", rid)>>, FALSE,
                 [op |-> "instance", vrf |-> v, doc |-> [router_id |-> rid]])
    \/ check_vrf(v) /\ ~enabled /\ Accept(h, "ospf", TearDown(v), FALSE, [op |-> "drop"])
    \/ ~check_vrf(v) /\ Decline(h, "ospf", 400)

AreaWrites(v, a, stub, nets) ==
    <<HSet(Area(v, a), [stub |-> stub])>>
    \o Dels({Network(v, a, net) : net \in NetworksOf(db, v, a) \ nets})
    \o Marks({Network(v, a, net) : net \in nets})

put_area(h, v, spelled, stub, nets) ==
    LET a == normalize_area(spelled)
    IN  \/ check_vrf(v) /\ Exists(db, Router(v))
           /\ Accept(h, "ospf", AreaWrites(v, a, IF stub THEN "true" ELSE "false", nets), TRUE,
                     [op |-> "area", vrf |-> v, area |-> a,
                      doc |-> [stub |-> stub, networks |-> nets]])
        \/ ~(check_vrf(v) /\ Exists(db, Router(v))) /\ Decline(h, "ospf", 400)

delete_area(h, v, spelled) ==
    LET a == normalize_area(spelled)
    IN  \/ Exists(db, Area(v, a))
           /\ Accept(h, "ospf",
                     Append(Dels({Network(v, a, net) : net \in NetworksOf(db, v, a)}),
                            Del(Area(v, a))), FALSE, [op |-> "drop"])
        \/ ~Exists(db, Area(v, a)) /\ Decline(h, "ospf", 404)

\* "The passive marker rows live under the interface's VRF."
MarkerVrf(d, n) == OrElse(VrfOf(d, n), "default")

InterfaceWrites(d, n, addr, in) ==
    <<HSet(OspfIf(n, addr), ("area-id" :> normalize_area(in.area))
                            @@ ("bfd" :> IF in.bfd THEN "true" ELSE "false")),
      Optional(OspfIf(n, addr), "cost", in.cost),
      IF in.passive THEN HSet(Passive(MarkerVrf(d, n), n), Marker)
      ELSE Del(Passive(MarkerVrf(d, n), n))>>

LeaveWrites(d, n) ==
    Append(Dels({OspfIf(n, addr) : addr \in IfRows(db, n)}), Del(Passive(MarkerVrf(d, n), n)))

OspfInputs == [area : Areas \cup DOMAIN AreaNumbers, cost : Option, bfd : {FALSE}, passive : BOOLEAN]
NoOspf == [area |-> Absent, cost |-> Absent, bfd |-> FALSE, passive |-> FALSE]

\* The rows come back in redis's order, and the first of them is updated.
put_ospf_interface(h, d, n, in) ==
    \/ base_exists(n, FALSE) /\ in.area = Absent
       /\ Accept(h, "ospf", LeaveWrites(d, n), FALSE, [op |-> "leave", name |-> n, doc |-> NoOspf])
    \/ /\ base_exists(n, FALSE) /\ in.area # Absent
       /\ \E addr \in IF IfRows(db, n) = {} THEN {Whole} ELSE IfRows(db, n) :
             Accept(h, "ospf", InterfaceWrites(d, n, addr, in), TRUE,
                    [op |-> "interface", name |-> n,
                     doc |-> [in EXCEPT !.area = normalize_area(in.area)]])
    \/ ~base_exists(n, FALSE) /\ Decline(h, "ospf", 404)

InstanceRequest(h) ==
    \E v \in OspfVrfs :
        \/ \E enabled \in BOOLEAN, rid \in Option : put_instance(h, v, enabled, rid)
        \/ \E a \in Areas \cup DOMAIN AreaNumbers :
              \/ delete_area(h, v, a)
              \/ \E nets \in SUBSET Networks : put_area(h, v, a, nets = {}, nets)
OspfInterfaceRequest(h, d) ==
    \E n \in Interfaces, in \in OspfInputs \cup {NoOspf} : put_ospf_interface(h, d, n, in)
----------------------------------------------------------------------------
(***************************************************************************)
(* put_area asks for the instance, and disabling one tears down what hangs *)
(* off it: once the mutex is free and nothing failed, no area is left      *)
(* without its instance and no network without its area.                   *)
(***************************************************************************)
OspfRowsUnderInstance ==
    lock["ospf"] = NoOne /\ faults = 0 /\ stops = 0 =>
        \A v \in OspfVrfs, a \in Areas :
            /\ Exists(db, Area(v, a)) => Exists(db, Router(v))
            /\ NetworksOf(db, v, a) # {} => Exists(db, Area(v, a))

(***************************************************************************)
(* When the last write of a request has been answered, GET shows the       *)
(* instance, the area or the interface as requested, however the area was  *)
(* spelled and whichever address the interface's row carries; leaving OSPF *)
(* leaves no row and no marker.  ("The passive marker rows live under the  *)
(* interface's VRF": one set before the interface changed VRF stays where  *)
(* it was, is not looked for there, and is excepted.)                      *)
(***************************************************************************)
OspfReadBack ==
    blindReads = 0 => \A h \in Handlers :
        Answered(h) =>
            CASE req[h].op = "instance" -> InstanceDoc(db, req[h].vrf) = req[h].doc
              [] req[h].op = "area" -> AreaDoc(db, req[h].vrf, req[h].area) = req[h].doc
              [] req[h].op \in {"interface", "leave"} ->
                    (\A v \in OspfVrfs : Exists(db, Passive(v, req[h].name))
                                           => v = MarkerVrf(db, req[h].name))
                    => InterfaceDoc(db, req[h].name) = req[h].doc
              [] OTHER -> TRUE
=============================================================================
