------------------------------ MODULE Overlay ------------------------------
(***************************************************************************)
(* VLANs and the pages whose rows refer to them, MCLAG and LLDP, by one    *)
(* agent.                                                                  *)
(* Each behaviour exercises one group of pages: the ones with a mutex of   *)
(* their own with requests that overlap, and the ones that share rows with *)
(* the VLAN handlers, which have none, with requests one after another.    *)
(***************************************************************************)
EXTENDS Vxlan, VlanServices, Mclag, Lldp

VARIABLE page  \* the group of pages this behaviour exercises

CONSTANT Pages
ASSUME PagesKnown == Pages \subseteq {"vxlan", "fdb", "snooping", "mclag", "lldp", "vlans"}

overlayVars == <<vars, lldpVars, page>>

Quiet(h) == \A g \in Handlers \ {h} : pc[g] = "idle"

VlanPages(h) ==
    \/ VlanRequest(h) \/ RelayRequest(h)
    \/ FdbRequest(h) \/ SnoopingRequest(h)
    \/ \E maps \in SUBSET (VlanIds \X Vnis) : put_maps(h, db, maps)

PageRequest(h) ==
    \/ /\ page = "vxlan"
       /\ \E T \in SUBSET VxlanScans : Blindness(T) /\ VxlanRequest(h, Blinded(T))
    \/ /\ page = "mclag"
       /\ \E T \in SUBSET MclagScans : Blindness(T) /\ MclagRequest(h, Blinded(T))
    \/ page = "fdb" /\ FdbRequest(h) /\ UNCHANGED blindReads
    \/ page = "snooping" /\ SnoopingRequest(h) /\ UNCHANGED blindReads
    \/ page = "vlans" /\ VlanPages(h) /\ UNCHANGED blindReads

PagesNext ==
    \/ \E h \in Handlers :
          \/ Receive(h) /\ (page = "vlans" => Quiet(h))
          \/ Malformed(h) \/ Read(h) \/ ReadFault(h) \/ Finish(h)
          \/ pc[h] = "queued" /\ PageRequest(h)
    \/ Crash

OverlayNext ==
    /\ \/ page # "lldp" /\ PagesNext /\ UNCHANGED lldpVars
       \/ page = "lldp" /\ LldpNext
    /\ UNCHANGED page

OverlayInit == Init /\ LldpInit /\ page \in Pages
OverlaySpec == OverlayInit /\ [][OverlayNext]_overlayVars
----------------------------------------------------------------------------
\* "SONiC supports one per switch", "One domain per switch": never two at once.
OneOverlay == OneVtep /\ OneDomain

\* What VXLAN, MCLAG and the VLAN services acknowledge is what GET then shows.
OverlayReadBack == VxlanReadBack /\ MclagReadBack /\ VlanServicesReadBack

\* The VLAN a row refers to.
VlanOf(k) == CASE k[1] \in {"FDB", "CFG_L2MC_TABLE"} -> k[2]
               [] k[1] = "VXLAN_TUNNEL_MAP" -> k[4]
Referrers == {k \in Keys : k[1] \in {"FDB", "CFG_L2MC_TABLE", "VXLAN_TUNNEL_MAP"}}

(***************************************************************************)
(* put_maps, put_static and the snooping put_vlan look the VLAN up first:  *)
(* when requests do not overlap, a row that refers to a VLAN is only ever  *)
(* written while the VLAN is there, and a static entry only for a member   *)
(* of it; and dhcp-relay's put_vlan, which writes into the VLAN's own row, *)
(* never brings a VLAN that was deleted half way back as a row without a   *)
(* vlanid.  (delete_vlan does not look at the rows that refer to it, so    *)
(* they may outlive it; a reboot brings back older rows.)                  *)
(***************************************************************************)
ReferencesMadeToVlans ==
    [][page = "vlans" /\ stops' = stops =>
         /\ \A k \in Referrers :
               db[k] # db'[k] /\ Exists(db', k) =>
                   /\ Exists(db, Vlan(VlanOf(k)))
                   /\ k[1] = "FDB" => Exists(db, VlanMember(k[2], db'[k]["port"]))
         /\ \A i \in VlanIds :
               Exists(db', Vlan(i)) => db'[Vlan(i)]["vlanid"] = "set"]_overlayVars
=============================================================================
