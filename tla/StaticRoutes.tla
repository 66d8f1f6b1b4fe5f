---------------------------- MODULE StaticRoutes ----------------------------
(***************************************************************************)
(* Static routes (src/src/sonic/staticroutes.rs) behind the                *)
(* "static-routes" mutex: the two spellings of a default-VRF key, and the  *)
(* hop list kept in parallel comma-separated fields.  ifname stands for    *)
(* nexthop-vrf too, which is encoded and decoded the same way.             *)
(***************************************************************************)
EXTENDS L3

CONSTANTS
    RoutePrefixes,  \* well-formed CIDRs
    Text,      \* the comma-separated strings in use, with what they split into
    HopLists   \* next_hops of the bodies sent

NamedRoute(v, x) == <<"STATIC_ROUTE", v, x>>   \* v may be "default"
PlainRoute(x) == <<"STATIC_ROUTE", x>>
RouteKeys ==
    {PlainRoute(x) : x \in RoutePrefixes}
    \cup {NamedRoute(v, x) : v \in Vrfs \cup {"default"}, x \in RoutePrefixes}
RouteFields == {"nexthop", "ifname", "distance", "blackhole"}
RouteValues == DOMAIN Text

ASSUME RouteConstants ==
    RouteKeys \subseteq Keys /\ RouteFields \subseteq Fields /\ RouteValues \subseteq Values

----------------------------------------------------------------------------
Split(v) == Text[v]
Join(s) == CHOOSE t \in DOMAIN Text : Text[t] = s
OrEmpty(v) == IF v = Absent THEN "" ELSE v
NonEmpty(s) == IF s = "" THEN Absent ELSE s

\* "padded with "" to n entries (SONiC leaves trailing slots off some fields)"
slots(v, n) ==
    LET s == Split(OrEmpty(v))
    IN  s \o [i \in 1..(n - Len(s)) |-> ""]

hops_from_row(row) ==
    LET given == {f \in RouteFields : field(row, f) # Absent}
        count == IF given = {} THEN 0 ELSE Max({Len(Split(row[f])) : f \in given})
        slot(f, i) == slots(field(row, f), count)[i]
    IN  [i \in 1..count |->
            [gateway |-> NonEmpty(slot("nexthop", i)), interface |-> NonEmpty(slot("ifname", i)),
             blackhole |-> slot("blackhole", i) = "true",
             distance |-> IF slot("distance", i) \in {"", "0"} THEN Absent
                          ELSE slot("distance", i)]]

row_from_hops(hops) ==
    [nexthop |-> Join([i \in DOMAIN hops |-> OrEmpty(hops[i].gateway)]),
     ifname |-> Join([i \in DOMAIN hops |-> OrEmpty(hops[i].interface)]),
     distance |-> Join([i \in DOMAIN hops |-> OrElse(hops[i].distance, "0")]),
     blackhole |-> Join([i \in DOMAIN hops |-> IF hops[i].blackhole THEN "true" ELSE "false"])]

\* GET /api/routing/static-routes: both spellings are the default VRF's.
RouteVrf(k) == IF Len(k) = 2 \/ k[2] = "default" THEN Absent ELSE k[2]
get_routes(d) ==
    {[vrf |-> RouteVrf(k), prefix |-> k[Len(k)], next_hops |-> hops_from_row(d[k])] :
        k \in {r \in RouteKeys : Exists(d, r)}}

----------------------------------------------------------------------------
\* Mutant of keys_for: one spelling.
KeysForPlain(v, x) == <<IF v = Absent THEN PlainRoute(x) ELSE NamedRoute(v, x)>>
keys_for(v, x) ==
    IF v = Absent THEN <<PlainRoute(x), NamedRoute("default", x)>> ELSE <<NamedRoute(v, x)>>

RouteVrfKnown(v) == v # Absent => Exists(db, Vrf(v))

\* Full replace, in one batch.
put_route(h, v, x, hops) ==
    \/ RouteVrfKnown(v)
       /\ Accept(h, "static-routes",
                 [i \in DOMAIN keys_for(v, x) |-> Del(keys_for(v, x)[i])]
                 \o <<HSet(keys_for(v, x)[1], row_from_hops(hops))>>, TRUE,
                 [op |-> "route", doc |-> [vrf |-> v, prefix |-> x, next_hops |-> hops]])
    \/ ~RouteVrfKnown(v) /\ Decline(h, "static-routes", 400)

delete_route(h, v, x) ==
    LET there == {k \in Range(keys_for(v, x)) : Exists(db, k)}
    IN  \/ there # {} /\ Accept(h, "static-routes", Dels(there), FALSE,
                                [op |-> "noroute", vrf |-> v, prefix |-> x])
        \/ there = {} /\ Decline(h, "static-routes", 404)

RouteRequest(h) ==
    \E v \in Vrfs \cup {Absent}, x \in RoutePrefixes :
        delete_route(h, v, x) \/ \E hops \in HopLists : put_route(h, v, x, hops)
----------------------------------------------------------------------------
(***************************************************************************)
(* "an upsert can never leave both PREFIX and default|PREFIX rows behind", *)
(* and the hop list survives the encoding into parallel fields: when the   *)
(* last write of a request has been answered, GET shows exactly one route  *)
(* for the VRF and prefix, with the hops requested, or none after a        *)
(* deletion, whichever spellings were there before.                        *)
(***************************************************************************)
RouteReadBack ==
    \A h \in Handlers :
        Answered(h) =>
            CASE req[h].op = "route" ->
                    {r \in get_routes(db) : r.vrf = req[h].doc.vrf
                                            /\ r.prefix = req[h].doc.prefix} = {req[h].doc}
              [] req[h].op = "noroute" ->
                    {r \in get_routes(db) : r.vrf = req[h].vrf
                                            /\ r.prefix = req[h].prefix} = {}
              [] OTHER -> TRUE
=============================================================================
