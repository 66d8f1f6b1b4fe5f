------------------------------- MODULE Vxlan -------------------------------
(***************************************************************************)
(* VTEP, EVPN NVO and VLAN-VNI maps (src/src/sonic/vxlan.rs).  Every write *)
(* holds the "vxlan" mutex; none uses a batch, so a failed or killed       *)
(* request leaves what it has written.  d is what the handler's reads      *)
(* return: the database, less the tables whose scans degraded.             *)
(***************************************************************************)
EXTENDS Switching

CONSTANTS
    VtepNames, \* tunnel names, in their sort order
    SourceIps, \* values accepted for source_ip
    Vnis       \* VNIs in 1..16777215

Vteps == Range(VtepNames)
Tunnel(t) == <<"VXLAN_TUNNEL", t>>
TunnelMap(t, vni, i) == <<"VXLAN_TUNNEL_MAP", t, vni, i>>
Nvo == <<"EVPN_NVO", "nvo">>
TunnelMaps == {TunnelMap(t, vni, i) : t \in Vteps, vni \in Vnis, i \in VlanIds}

VxlanKeys == {Tunnel(t) : t \in Vteps} \cup TunnelMaps \cup {Nvo}
VxlanFields == {"src_ip", "source_vtep", "vlan", "vni"}
VxlanValues == Vteps \cup SourceIps \cup Vnis \cup VlanIds
VxlanScans == {"VXLAN_TUNNEL", "VXLAN_TUNNEL_MAP", "EVPN_NVO"}

ASSUME VxlanConstants ==
    /\ VxlanKeys \subseteq Keys /\ VxlanFields \subseteq Fields
    /\ VxlanValues \subseteq Values

TunnelsOf(d) == {t \in Vteps : Exists(d, Tunnel(t))}
MapRowsOf(d) == {k \in TunnelMaps : Exists(d, k)}
NvosOf(d) == {k \in {Nvo} : Exists(d, k)}

\* The switch's VTEP: the first tunnel row, or none.
NoVtep == [name |-> Absent, src |-> Absent]
vtep_row(d) ==
    IF TunnelsOf(d) = {} THEN NoVtep
    ELSE LET t == VtepNames[Min({j \in DOMAIN VtepNames : VtepNames[j] \in TunnelsOf(d)})]
         IN  [name |-> t, src |-> d[Tunnel(t)]["src_ip"]]

\* The row's fields first, the map_{vni}_Vlan{id} key name as fallback.
parse_map(d, k) ==
    IF d[k]["vlan"] # Absent /\ d[k]["vni"] # Absent
    THEN <<d[k]["vlan"], d[k]["vni"]>>
    ELSE <<k[4], k[3]>>
config_maps(d) == {parse_map(d, k) : k \in MapRowsOf(d)}

\* GET /api/routing/vxlan.
get_vxlan(d) ==
    [vtep |-> vtep_row(d), evpn_nvo |-> NvosOf(d) # {}, vlan_vni_maps |-> config_maps(d)]

----------------------------------------------------------------------------
renames(d, t) == vtep_row(d).name \notin {Absent, t}

\* Mutant of RenameRefused: the maps are not looked at.
RenameAllowed(d, t) == FALSE
RenameRefused(d, t) == renames(d, t) /\ MapRowsOf(d) # {}

\* "Recreate the row so a source_ip change is a clean replace."
VtepWrites(d, t, src, nvo) ==
    (IF renames(d, t) THEN <<Del(Tunnel(vtep_row(d).name))>> ELSE <<>>)
    \o <<Del(Tunnel(t)), HSet(Tunnel(t), [src_ip |-> src])>>
    \o Dels(NvosOf(d))
    \o (IF nvo THEN <<HSet(Nvo, [source_vtep |-> t])>> ELSE <<>>)

put_vtep(h, d, t, src, nvo) ==
    \/ ~RenameRefused(d, t)
       /\ Accept(h, "vxlan", VtepWrites(d, t, src, nvo), FALSE,
                 [op |-> "vtep", vtep |-> [name |-> t, src |-> src], evpn_nvo |-> nvo])
    \/ RenameRefused(d, t) /\ Decline(h, "vxlan", 409)

delete_vtep(h, d) ==
    \/ vtep_row(d) # NoVtep /\ MapRowsOf(d) = {}
       /\ Accept(h, "vxlan", Append(Dels(NvosOf(d)), Del(Tunnel(vtep_row(d).name))), FALSE,
                 [op |-> "vtep", vtep |-> NoVtep, evpn_nvo |-> FALSE])
    \/ vtep_row(d) = NoVtep /\ Decline(h, "vxlan", 404)
    \/ vtep_row(d) # NoVtep /\ MapRowsOf(d) # {} /\ Decline(h, "vxlan", 409)

\* No VLAN mapped twice, no VNI mapped to two VLANs.
DistinctMaps(maps) ==
    \A m, n \in maps : m[1] = n[1] \/ m[2] = n[2] => m = n

MapRow(t, m) == TunnelMap(t, m[2], m[1])
MapWrites(t, maps) ==
    LET order == SetToSeq(maps)
    IN  [j \in DOMAIN order |->
            HSet(MapRow(t, order[j]), [vlan |-> order[j][1], vni |-> order[j][2]])]

StaleMaps(d, t, maps) == MapRowsOf(d) \ {MapRow(t, m) : m \in maps}

VlansExist(d, maps) == \A m \in maps : Exists(d, Vlan(m[1]))

put_maps(h, d, maps) ==
    LET t == vtep_row(d).name
    IN  \/ DistinctMaps(maps) /\ t # Absent /\ VlansExist(d, maps)
           /\ Accept(h, "vxlan", Dels(StaleMaps(d, t, maps)) \o MapWrites(t, maps), FALSE,
                     [op |-> "maps", maps |-> maps])
        \/ ~DistinctMaps(maps) /\ Decline(h, "vxlan", 400)
        \/ DistinctMaps(maps) /\ t = Absent /\ Decline(h, "vxlan", 409)
        \/ DistinctMaps(maps) /\ t # Absent /\ ~VlansExist(d, maps) /\ Decline(h, "vxlan", 400)

VxlanRequest(h, d) ==
    \/ delete_vtep(h, d)
    \/ \E t \in Vteps, src \in SourceIps, nvo \in BOOLEAN : put_vtep(h, d, t, src, nvo)
    \/ \E maps \in SUBSET (VlanIds \X Vnis) : put_maps(h, d, maps)
----------------------------------------------------------------------------
(***************************************************************************)
(* vtep_row: "SONiC supports one per switch": whatever failed, was killed  *)
(* or was reloaded, put_vtep never leaves two tunnels, as long as no scan  *)
(* degraded.                                                               *)
(***************************************************************************)
OneVtep ==
    blindReads = 0 => \A d \in {db, saved} : \A t, u \in TunnelsOf(d) : t = u

(***************************************************************************)
(* put_vtep and delete_vtep refuse while maps exist: between requests, no  *)
(* map and no NVO row names a tunnel that is not there.  (put_vtep deletes *)
(* the tunnel before it writes it, so a write that failed or an agent that *)
(* was killed in between may leave them so.)                               *)
(***************************************************************************)
MapsRideVtep ==
    lock["vxlan"] = NoOne /\ faults = 0 /\ stops = 0 /\ blindReads = 0 =>
        /\ \A k \in MapRowsOf(db) : Exists(db, Tunnel(k[2]))
        /\ Exists(db, Nvo) => Exists(db, Tunnel(db[Nvo]["source_vtep"]))

(***************************************************************************)
(* The page reads back what it wrote, on whatever rows earlier failures    *)
(* left: when the last write of a PUT is answered, GET shows exactly the   *)
(* VTEP, the NVO flag and the map set of the request, and after a DELETE   *)
(* none.                                                                   *)
(***************************************************************************)
VxlanReadBack ==
    \A h \in Handlers :
        Answered(h) /\ blindReads = 0 =>
            LET doc == get_vxlan(db)
            IN  /\ req[h].op = "vtep" =>
                      doc.vtep = req[h].vtep /\ doc.evpn_nvo = req[h].evpn_nvo
                /\ req[h].op = "maps" => doc.vlan_vni_maps = req[h].maps
=============================================================================
