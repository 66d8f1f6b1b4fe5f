--------------------------- MODULE VlanServices ---------------------------
(***************************************************************************)
(* What other pages hang on a VLAN: DHCP relay servers, which live in the  *)
(* VLAN's own row (src/src/sonic/dhcprelay.rs), static FDB entries and the *)
(* aging time (src/src/sonic/fdb.rs) and IGMP snooping                     *)
(* (src/src/sonic/igmp.rs).  Each holds its own mutex and none a batch;    *)
(* the VLAN handlers of Switching hold no mutex at all.                    *)
(***************************************************************************)
EXTENDS Switching

CONSTANT Macs  \* unicast MAC addresses, normalised

\* Images and tools spell a MAC in several ways; the agent writes one.
Spellings == {"canonical", "variant"}
Fdb(i, mac, spelling) == <<"FDB", i, mac, spelling>>
SwitchRow == <<"SWITCH", "switch">>
L2mc(i) == <<"CFG_L2MC_TABLE", i>>

VlanServiceKeys ==
    {Fdb(i, mac, s) : i \in VlanIds, mac \in Macs, s \in Spellings}
    \cup {SwitchRow} \cup {L2mc(i) : i \in VlanIds}
VlanServiceFields == {"port", "fdb_aging_time", "enabled", "version"}
VlanServiceValues == Ports \cup {"true", "false"}

ASSUME VlanServiceConstants ==
    /\ VlanServiceKeys \subseteq Keys
    /\ VlanServiceFields \subseteq Fields
    /\ VlanServiceValues \subseteq Values

----------------------------------------------------------------------------
\* Mutant of RelayVlanExists: the VLAN is not looked up.
RelayAnyVlan(i) == TRUE
RelayVlanExists(i) == Exists(db, Vlan(i))

\* PUT /api/routing/dhcp-relay/{vlan_id}: an empty list removes it.
put_relay(h, i, servers) ==
    \/ RelayVlanExists(i)
       /\ Accept(h, "dhcp-relay", HelperWrites(i, servers), FALSE,
                 [op |-> "relay", id |-> i, servers |-> servers])
    \/ ~RelayVlanExists(i) /\ Decline(h, "dhcp-relay", 404)

\* GET /api/routing/dhcp-relay: every VLAN with its servers and addresses.
get_relay(d) ==
    [i \in {j \in VlanIds : Exists(d, Vlan(j))} |->
        [servers |-> dhcp_helpers(d, i), ip_addresses |-> AddressesOf(d, i)]]

----------------------------------------------------------------------------
\* null restores the image's default.
put_settings(h, aging) ==
    Accept(h, "fdb", <<Optional(SwitchRow, "fdb_aging_time", aging)>>, FALSE,
           [op |-> "aging", aging |-> aging])

\* GET /api/switching/fdb, the settings.
aging_time(d) == d[SwitchRow]["fdb_aging_time"]

matching_static_keys(d, i, mac) ==
    {Fdb(i, mac, s) : s \in {t \in Spellings : Exists(d, Fdb(i, mac, t))}}

IsMember(i, port) == Exists(db, VlanMember(i, port))

\* Mutant of put_static: a row under another spelling is left alone.
PutStaticCanonicalOnly(h, i, mac, port) ==
    /\ Exists(db, Vlan(i)) /\ IsMember(i, port)
    /\ Accept(h, "fdb", <<HSet(Fdb(i, mac, "canonical"), [port |-> port])>>, FALSE,
              [op |-> "static", id |-> i, mac |-> mac, port |-> port])

put_static(h, i, mac, port) ==
    \/ /\ Exists(db, Vlan(i)) /\ IsMember(i, port)
       /\ Accept(h, "fdb",
              Append(Dels(matching_static_keys(db, i, mac) \ {Fdb(i, mac, "canonical")}),
                     HSet(Fdb(i, mac, "canonical"), [port |-> port])), FALSE,
              [op |-> "static", id |-> i, mac |-> mac, port |-> port])
    \/ ~Exists(db, Vlan(i)) /\ Decline(h, "fdb", 404)
    \/ Exists(db, Vlan(i)) /\ ~IsMember(i, port) /\ Decline(h, "fdb", 400)

\* The VLAN need not be there any more.
delete_static(h, i, mac) ==
    \/ matching_static_keys(db, i, mac) # {}
       /\ Accept(h, "fdb", Dels(matching_static_keys(db, i, mac)), FALSE,
                 [op |-> "static", id |-> i, mac |-> mac, port |-> Absent])
    \/ matching_static_keys(db, i, mac) = {} /\ Decline(h, "fdb", 404)

\* GET /api/switching/fdb: one entry for each row that names a port.
static_entries(d) ==
    {[id |-> k[2], mac |-> k[3], port |-> d[k]["port"]] :
        k \in {l \in Keys : l[1] = "FDB" /\ d[l]["port"] # Absent}}

----------------------------------------------------------------------------
\* put_vlan of igmp.rs; "version" stands for the four tunables.
put_snooping(h, i, enabled, version) ==
    \/ Exists(db, Vlan(i))
       /\ Accept(h, "igmp",
              <<HSet(L2mc(i), [enabled |-> enabled]), Optional(L2mc(i), "version", version)>>,
              FALSE, [op |-> "snooping", id |-> i, enabled |-> enabled, version |-> version])
    \/ ~Exists(db, Vlan(i)) /\ Decline(h, "igmp", 404)

\* GET /api/switching/igmp-snooping: every VLAN, snooping row or not.
get_snooping(d) ==
    [i \in {j \in VlanIds : Exists(d, Vlan(j))} |->
        [enabled |-> d[L2mc(i)]["enabled"] = "true", version |-> d[L2mc(i)]["version"]]]

RelayRequest(h) ==
    \E i \in VlanIds, servers \in Option : put_relay(h, i, servers)
FdbRequest(h) ==
    \/ \E aging \in Option : put_settings(h, aging)
    \/ \E i \in VlanIds, mac \in Macs :
          delete_static(h, i, mac) \/ \E port \in Ports : put_static(h, i, mac, port)
SnoopingRequest(h) ==
    \E i \in VlanIds, enabled \in {"true", "false"}, version \in Option :
        put_snooping(h, i, enabled, version)
----------------------------------------------------------------------------
(***************************************************************************)
(* The pages read back what they wrote.  A static entry has one row, with  *)
(* the requested port, under whatever spellings it was found; after a      *)
(* DELETE it has none.  A snooping document is "the full desired           *)
(* document".                                                              *)
(***************************************************************************)
VlanServicesReadBack ==
    \A h \in Handlers :
        Answered(h) =>
            CASE req[h].op = "relay" ->
                    get_relay(db)[req[h].id].servers = req[h].servers
              [] req[h].op = "static" ->
                    /\ Cardinality(matching_static_keys(db, req[h].id, req[h].mac)) <= 1
                    /\ {e \in static_entries(db) : e.id = req[h].id /\ e.mac = req[h].mac}
                       = {[id |-> req[h].id, mac |-> req[h].mac, port |-> p]
                             : p \in {req[h].port} \ {Absent}}
              [] req[h].op = "aging" -> aging_time(db) = req[h].aging
              [] req[h].op = "snooping" ->
                    /\ get_snooping(db)[req[h].id].enabled = (req[h].enabled = "true")
                    /\ get_snooping(db)[req[h].id].version = req[h].version
              [] OTHER -> TRUE
=============================================================================
