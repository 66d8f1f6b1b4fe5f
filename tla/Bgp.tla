-------------------------------- MODULE Bgp --------------------------------
(***************************************************************************)
(* BGP (src/src/sonic/bgp.rs) behind the "bgp" mutex, on the structured    *)
(* tables of frrcfgd (mode "frrcfgd") or on the flat ones of bgpcfgd (mode *)
(* "legacy").  Upserts go through store::apply, deletions do not.  d is    *)
(* what the degrading reads return.                                        *)
(***************************************************************************)
EXTENDS L3

CONSTANTS
    Peers,          \* peer addresses
    Families,       \* address families
    GlobalInputs,   \* bodies of PUT globals
    NeighborInputs  \* bodies of POST and PUT neighbors

\* router_id stands for the optional fields of the instance row and
\* max_ebgp_paths for the multipath knobs; holdtime for the optional fields
\* of a neighbor both schemas have and ebgp_multihop_ttl for the others.
BgpVrfs == Vrfs \cup {"default"}
Multipath == {"ipv4_unicast", "ipv6_unicast"}
Globals(v) == <<"BGP_GLOBALS", v>>
GlobalsAf(v, af) == <<"BGP_GLOBALS_AF", v, af>>
Neighbor(v, p) == <<"BGP_NEIGHBOR", v, p>>
NeighborAf(v, p, af) == <<"BGP_NEIGHBOR_AF", v, p, af>>
FlatNeighbor(p) == <<"BGP_NEIGHBOR", p>>
Metadata == <<"DEVICE_METADATA", "localhost">>

NeighborAfs == {NeighborAf(v, p, af) : v \in BgpVrfs, p \in Peers, af \in Families}
BgpKeys ==
    {Globals(v) : v \in BgpVrfs} \cup {GlobalsAf(v, af) : v \in BgpVrfs, af \in Multipath}
    \cup {Neighbor(v, p) : v \in BgpVrfs, p \in Peers} \cup NeighborAfs
    \cup {FlatNeighbor(p) : p \in Peers} \cup {Metadata}
BgpFields == {"local_asn", "graceful_restart_enable", "router_id", "max_ebgp_paths", "asn",
              "bfd", "admin_status", "holdtime", "ebgp_multihop_ttl", "bgp_asn", "hostname"}
BgpValues == {"set", "true", "false", "up", "down"}

ASSUME BgpConstants ==
    /\ BgpKeys \subseteq Keys /\ BgpFields \subseteq Fields /\ BgpValues \subseteq Values
    /\ GlobalInputs \subseteq [local_asn : Option, router_id : Option, paths : Option, gr : BOOLEAN]
    /\ NeighborInputs \subseteq [holdtime : Option, ttl : Option, bfd : BOOLEAN,
                                 admin : {"up", "down"}, afs : SUBSET Families]

Flag(b) == IF b THEN "true" ELSE "false"
parse_bool(v) == v = "true"
admin_of(row) == IF row["admin_status"] \in {"down", "false"} THEN "down" ELSE "up"
RowsUnder(d, table, v) == {k \in BgpKeys : k[1] = table /\ Len(k) > 2 /\ k[2] = v /\ Exists(d, k)}

----------------------------------------------------------------------------
\* GET /api/routing/bgp, less the live sessions.
AfEnabled(d, k) == Exists(d, k) /\ d[k]["admin_status"] # "false"
FamiliesOf(d, v, p) == {af \in Families : AfEnabled(d, NeighborAf(v, p, af))}

read_frrcfgd(d) ==
    [globals |-> [v \in {w \in BgpVrfs : Exists(d, Globals(w))} |->
        [local_asn |-> d[Globals(v)]["local_asn"], router_id |-> d[Globals(v)]["router_id"],
         paths |-> d[GlobalsAf(v, "ipv4_unicast")]["max_ebgp_paths"],
         gr |-> parse_bool(d[Globals(v)]["graceful_restart_enable"])]],
     neighbors |-> [w \in {x \in BgpVrfs \X Peers : Exists(d, Neighbor(x[1], x[2]))} |->
        LET row == d[Neighbor(w[1], w[2])]
        IN  [holdtime |-> row["holdtime"], ttl |-> row["ebgp_multihop_ttl"],
             bfd |-> parse_bool(row["bfd"]), admin |-> admin_of(row),
             afs |-> FamiliesOf(d, w[1], w[2])]]]

\* A flat neighbour activates its own family only (here the first of them).
implied == "ipv4_unicast"
read_legacy(d) ==
    [neighbors |-> [p \in {q \in Peers : Exists(d, FlatNeighbor(q))} |->
        [holdtime |-> d[FlatNeighbor(p)]["holdtime"], ttl |-> Absent, bfd |-> FALSE,
         admin |-> admin_of(d[FlatNeighbor(p)]), afs |-> {implied}]]]

----------------------------------------------------------------------------
\* Mutant of DoomedRows: the families of the neighbours are forgotten.
DoomedNoFamilies(v) ==
    <<Del(Globals(v))>> \o Dels(RowsUnder(db, "BGP_GLOBALS_AF", v))
    \o Dels(RowsUnder(db, "BGP_NEIGHBOR", v))

\* "local_asn null removes the instance and everything under it."
DoomedRows(v) ==
    <<Del(Globals(v))>> \o Dels(RowsUnder(db, "BGP_GLOBALS_AF", v))
    \o Dels(RowsUnder(db, "BGP_NEIGHBOR", v)) \o Dels(RowsUnder(db, "BGP_NEIGHBOR_AF", v))

\* "Multipath knobs live on the AF rows; keep v4 and v6 in step."
GlobalRows(v, in) ==
    <<HSet(Globals(v), [local_asn |-> "set", graceful_restart_enable |-> Flag(in.gr)]),
      Optional(Globals(v), "router_id", in.router_id),
      Optional(GlobalsAf(v, "ipv4_unicast"), "max_ebgp_paths", in.paths),
      Optional(GlobalsAf(v, "ipv6_unicast"), "max_ebgp_paths", in.paths)>>

legacy_inexpressible(in) == in.router_id # Absent \/ in.paths # Absent \/ in.gr

put_legacy_global(h, v, in) ==
    \/ v = "default" /\ ~legacy_inexpressible(in)
       /\ Accept(h, "bgp", <<Optional(Metadata, "bgp_asn", in.local_asn)>>, FALSE,
                 [op |-> "asn", asn |-> in.local_asn])
    \/ (v # "default" \/ legacy_inexpressible(in)) /\ Decline(h, "bgp", 422)

VrfKnown(v) == v # "default" => Exists(db, Vrf(v))

put_global(h, mode, v, in) ==
    \/ mode = "legacy" /\ put_legacy_global(h, v, in)
    \/ /\ mode = "frrcfgd"
       /\ \/ VrfKnown(v) /\ in.local_asn # Absent
             /\ Accept(h, "bgp", GlobalRows(v, in), TRUE, [op |-> "global", vrf |-> v, doc |-> in])
          \/ VrfKnown(v) /\ in.local_asn = Absent
             /\ Accept(h, "bgp", DoomedRows(v), FALSE, [op |-> "noglobal", vrf |-> v])
          \/ ~VrfKnown(v) /\ Decline(h, "bgp", 400)

----------------------------------------------------------------------------
\* "Converge the AF rows to the full desired set."
AfRows(d, v, p, afs) ==
    Dels({k \in NeighborAfs : k[2] = v /\ k[3] = p /\ k[4] \notin afs /\ Exists(d, k)})
    \o LET order == SetToSeq(afs)
       IN  [i \in DOMAIN order |-> HSet(NeighborAf(v, p, order[i]), [admin_status |-> "true"])]

NeighborRows(d, v, p, in) ==
    <<HSet(Neighbor(v, p), [asn |-> "set", bfd |-> Flag(in.bfd), admin_status |-> in.admin]),
      Optional(Neighbor(v, p), "holdtime", in.holdtime),
      Optional(Neighbor(v, p), "ebgp_multihop_ttl", in.ttl)>>
    \o AfRows(d, v, p, in.afs)

InstanceExists(v) == Exists(db, Globals(v))

upsert_frrcfgd(h, d, v, p, in, creating) ==
    LET exists == Exists(db, Neighbor(v, p))
    IN  \/ creating # exists /\ InstanceExists(v)
           /\ Accept(h, "bgp", NeighborRows(d, v, p, in), TRUE,
                     [op |-> "neighbor", vrf |-> v, peer |-> p, doc |-> in])
        \/ creating = exists /\ Decline(h, "bgp", IF creating THEN 400 ELSE 404)
        \/ creating # exists /\ ~InstanceExists(v) /\ Decline(h, "bgp", 400)

upsert_legacy_neighbor(h, d, v, p, in, creating) ==
    LET exists == Exists(db, FlatNeighbor(p))
        expressible == v = "default" /\ in.ttl = Absent /\ ~in.bfd /\ in.afs \in {{}, {implied}}
        asn == field(d[Metadata], "bgp_asn")
    IN  \/ expressible /\ asn # Absent /\ creating # exists
           /\ Accept(h, "bgp",
                     <<HSet(FlatNeighbor(p), [asn |-> "set", admin_status |-> in.admin]),
                       Optional(FlatNeighbor(p), "holdtime", in.holdtime)>>, TRUE,
                     [op |-> "flat", peer |-> p, doc |-> in])
        \/ ~expressible /\ Decline(h, "bgp", 422)
        \/ expressible /\ asn = Absent /\ Decline(h, "bgp", 409)
        \/ expressible /\ asn # Absent /\ creating = exists
           /\ Decline(h, "bgp", IF creating THEN 400 ELSE 404)

upsert_neighbor(h, d, mode, v, p, in, creating) ==
    \/ mode = "frrcfgd" /\ upsert_frrcfgd(h, d, v, p, in, creating)
    \/ mode = "legacy" /\ upsert_legacy_neighbor(h, d, v, p, in, creating)

\* The families go before the neighbour.
delete_neighbor(h, mode, v, p) ==
    LET row == IF mode = "legacy" THEN FlatNeighbor(p) ELSE Neighbor(v, p)
        afs == IF mode = "legacy" THEN {} ELSE {NeighborAf(v, p, af) : af \in Families}
    IN  \/ mode = "legacy" /\ v # "default" /\ Decline(h, "bgp", 422)
        \/ /\ mode = "legacy" => v = "default"
           /\ \/ Exists(db, row)
                 /\ Accept(h, "bgp", Append(Dels({k \in afs : Exists(db, k)}), Del(row)), FALSE,
                           [op |-> "drop"])
              \/ ~Exists(db, row) /\ Decline(h, "bgp", 404)

BgpRequest(h, d, mode) ==
    \E v \in BgpVrfs :
        \/ \E in \in GlobalInputs : put_global(h, mode, v, in)
        \/ \E p \in Peers :
              \/ delete_neighbor(h, mode, v, p)
              \/ \E in \in NeighborInputs, creating \in BOOLEAN :
                    upsert_neighbor(h, d, mode, v, p, in, creating)
----------------------------------------------------------------------------
(***************************************************************************)
(* upsert_neighbor asks for the instance and put_global removes "the       *)
(* instance and everything under it": once the mutex is free and nothing   *)
(* failed, no neighbour is left without its instance and no family row     *)
(* without its neighbour, however creations and removals of instances and  *)
(* neighbours follow each other.                                           *)
(***************************************************************************)
BgpRowsUnderInstance ==
    lock["bgp"] = NoOne /\ faults = 0 /\ stops = 0 =>
        \A v \in BgpVrfs, p \in Peers :
            /\ Exists(db, Neighbor(v, p)) => Exists(db, Globals(v))
            /\ \A af \in Families :
                  Exists(db, NeighborAf(v, p, af)) => Exists(db, Neighbor(v, p))

(***************************************************************************)
(* The full desired document: when the last write of a request has been    *)
(* answered, GET shows the instance or the neighbour as requested, cleared *)
(* options and dropped families included, on whatever rows were there (if  *)
(* no scan degraded); both multipath rows agree.                           *)
(***************************************************************************)
BgpReadBack ==
    blindReads = 0 => \A h \in Handlers :
        Answered(h) =>
            CASE req[h].op = "global" ->
                    /\ read_frrcfgd(db).globals[req[h].vrf] = req[h].doc
                    /\ db[GlobalsAf(req[h].vrf, "ipv6_unicast")]["max_ebgp_paths"] = req[h].doc.paths
              [] req[h].op = "neighbor" ->
                    read_frrcfgd(db).neighbors[<<req[h].vrf, req[h].peer>>] = req[h].doc
              [] req[h].op = "flat" ->
                    read_legacy(db).neighbors[req[h].peer] = [req[h].doc EXCEPT !.afs = {implied}]
              [] req[h].op = "asn" -> db[Metadata]["bgp_asn"] = req[h].asn
              [] OTHER -> TRUE
=============================================================================
