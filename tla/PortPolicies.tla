---------------------------- MODULE PortPolicies ----------------------------
(***************************************************************************)
(* Pages that hang per-port settings on PORT rows, each behind its own     *)
(* mutex and without batches: DSCP trust (src/src/sonic/qos.rs), storm     *)
(* control (src/src/sonic/stormcontrol.rs) and sFlow                       *)
(* (src/src/sonic/sflow.rs).  d is what the degrading reads return.        *)
(***************************************************************************)
EXTENDS Switching

CONSTANTS
    DscpMaps,    \* names accepted by check_map_name
    MapRefs,     \* the references [DSCP_TO_TC_MAP|name], with their names
    Collectors   \* sFlow collector names

\* A reference is spelled as the plain name or as a member of MapRefs.
DscpMap(n) == <<"DSCP_TO_TC_MAP", n>>
PortQos(p) == <<"PORT_QOS_MAP", p>>
References == DscpMaps \cup DOMAIN MapRefs

StormClasses == {"broadcast", "unknown-unicast", "unknown-multicast"}
Storm(p, class) == <<"PORT_STORM_CONTROL", p, class>>

SflowGlobal == <<"SFLOW", "global">>
Collector(c) == <<"SFLOW_COLLECTOR", c>>
Session(p) == <<"SFLOW_SESSION", p>>   \* p is a port or "all"

PolicyKeys ==
    {DscpMap(n) : n \in DscpMaps} \cup {PortQos(p) : p \in Ports}
    \cup {Storm(p, class) : p \in Ports, class \in StormClasses}
    \cup {SflowGlobal} \cup {Collector(c) : c \in Collectors}
    \cup {Session(p) : p \in Ports \cup {"all"}}
PolicyFields == {"dscp0", "dscp46", "dscp_to_tc_map", "kbps", "admin_state",
                 "polling_interval", "collector_ip", "collector_port", "sample_rate"}
PolicyValues == {"tc0", "tc5", "set", "up", "down"} \cup References

ASSUME PolicyConstants ==
    /\ PolicyKeys \subseteq Keys /\ PolicyFields \subseteq Fields /\ PolicyValues \subseteq Values

----------------------------------------------------------------------------
\* Mutant of map_ref_name: only the plain spelling is known.
RefAsIs(v) == v
map_ref_name(v) == IF v \in DOMAIN MapRefs THEN MapRefs[v] ELSE v

\* Every port's map binding, both reference syntaxes.
bindings(d) ==
    [p \in {q \in Ports : d[PortQos(q)]["dscp_to_tc_map"] # Absent} |->
        map_ref_name(d[PortQos(p)]["dscp_to_tc_map"])]
BoundPorts(d, n) == {p \in DOMAIN bindings(d) : bindings(d)[p] = n}

\* GET /api/qos.
get_qos(d) ==
    [maps |-> [n \in {m \in DscpMaps : Exists(d, DscpMap(m))} |->
                  [dscp0 |-> d[DscpMap(n)]["dscp0"], dscp46 |-> d[DscpMap(n)]["dscp46"]]],
     trust |-> [p \in Ports |-> IF p \in DOMAIN bindings(d) THEN bindings(d)[p] ELSE Absent]]

\* The full desired map; two code points and two classes stand for all.
MapInputs ==
    {in \in [dscp0 : {"tc0", Absent}, dscp46 : {"tc0", "tc5", Absent}] :
        \E f \in DOMAIN in : in[f] # Absent}

DscpWrites(n, in) == <<Del(DscpMap(n)), HSet(DscpMap(n), Given(in))>>

put_dscp_map(h, n, in) ==
    Accept(h, "qos", DscpWrites(n, in), FALSE, [op |-> "map", name |-> n, doc |-> in])

delete_dscp_map(h, d, n) ==
    \/ Exists(db, DscpMap(n)) /\ BoundPorts(d, n) = {}
       /\ Accept(h, "qos", <<Del(DscpMap(n))>>, FALSE, [op |-> "drop"])
    \/ ~Exists(db, DscpMap(n)) /\ Decline(h, "qos", 404)
    \/ Exists(db, DscpMap(n)) /\ BoundPorts(d, n) # {} /\ Decline(h, "qos", 409)

\* PUT /api/qos/ports/{port}: trust dscp with a map, or none.
put_trust(h, p, n) ==
    \/ (n # Absent => Exists(db, DscpMap(n)))
       /\ Accept(h, "qos", <<Optional(PortQos(p), "dscp_to_tc_map", n)>>, FALSE,
                 [op |-> "trust", port |-> p, map |-> n])
    \/ n # Absent /\ ~Exists(db, DscpMap(n)) /\ Decline(h, "qos", 400)

----------------------------------------------------------------------------
\* GET /api/switching/storm-control: every port, limits configured or not.
get_storm(d) == [p \in Ports |-> [class \in StormClasses |-> d[Storm(p, class)]["kbps"]]]

Classes == <<"broadcast", "unknown-unicast", "unknown-multicast">>

\* Mutant of StormWrites: a limit left out stays.
StormWritesGiven(p, limits) ==
    LET given == SelectSeq(Classes, LAMBDA c : limits[c] # Absent)
    IN  [i \in DOMAIN given |-> HSet(Storm(p, given[i]), [kbps |-> limits[given[i]]])]
StormWrites(p, limits) ==
    [i \in 1..3 |->
        IF limits[Classes[i]] = Absent THEN Del(Storm(p, Classes[i]))
        ELSE HSet(Storm(p, Classes[i]), [kbps |-> limits[Classes[i]]])]

put_storm(h, p, limits) ==
    Accept(h, "storm-control", StormWrites(p, limits), FALSE,
           [op |-> "storm", port |-> p, limits |-> limits])

----------------------------------------------------------------------------
MaxCollectors == 2
CollectorsOf(d) == {c \in Collectors : Exists(d, Collector(c))}

\* GET /api/switching/sflow.  A port without a session follows the "all"
\* row, else the image's default.
get_sflow(d) ==
    [enabled |-> d[SflowGlobal]["admin_state"] = "up",
     polling_interval |-> d[SflowGlobal]["polling_interval"],
     collectors |-> [c \in CollectorsOf(d) |->
                        d[Collector(c)]["collector_port"]],
     ports |-> [p \in Ports |->
                  [enabled |-> "down" # OrElse(d[Session(p)]["admin_state"],
                                               d[Session("all")]["admin_state"]),
                   rate |-> OrElse(d[Session(p)]["sample_rate"],
                                   d[Session("all")]["sample_rate"])]]]

State(enabled) == IF enabled THEN "up" ELSE "down"
CollectorWrites(cs) ==
    LET order == SetToSeq(DOMAIN cs)
    IN  FlattenSeq([i \in DOMAIN order |->
            <<HSet(Collector(order[i]), [collector_ip |-> "set"]),
              Optional(Collector(order[i]), "collector_port", cs[order[i]])>>])

\* Mutant of SflowWrites: the new collectors come before the old ones go.
SflowWritesFirst(enabled, polling, cs) ==
    <<HSet(SflowGlobal, [admin_state |-> State(enabled)]),
      Optional(SflowGlobal, "polling_interval", polling)>>
    \o CollectorWrites(cs)
    \o Dels({Collector(c) : c \in CollectorsOf(db) \ DOMAIN cs})
SflowWrites(enabled, polling, cs) ==
    <<HSet(SflowGlobal, [admin_state |-> State(enabled)]),
      Optional(SflowGlobal, "polling_interval", polling)>>
    \o Dels({Collector(c) : c \in CollectorsOf(db) \ DOMAIN cs})
    \o CollectorWrites(cs)

put_sflow(h, enabled, polling, cs) ==
    \/ Cardinality(DOMAIN cs) <= MaxCollectors
       /\ Accept(h, "sflow", SflowWrites(enabled, polling, cs), FALSE,
                 [op |-> "sflow", enabled |-> enabled, polling |-> polling, collectors |-> cs])
    \/ Cardinality(DOMAIN cs) > MaxCollectors /\ Decline(h, "sflow", 400)

put_sflow_port(h, p, enabled, rate) ==
    Accept(h, "sflow", <<HSet(Session(p), [admin_state |-> State(enabled)]),
                         Optional(Session(p), "sample_rate", rate)>>, FALSE,
           [op |-> "sflowport", port |-> p, enabled |-> enabled, rate |-> rate])

\* Sets of collectors, with or without a port; the address is always given.
\* Bodies give all of their optional fields or none.
CollectorSets(port) == {[c \in C |-> port] : C \in SUBSET Collectors}

QosRequest(h, d) ==
    \/ \E n \in DscpMaps : delete_dscp_map(h, d, n) \/ \E in \in MapInputs : put_dscp_map(h, n, in)
    \/ \E p \in Ports, n \in DscpMaps \cup {Absent} : put_trust(h, p, n)
StormRequest(h) ==
    \E p \in Ports, limits \in [StormClasses -> Option] : put_storm(h, p, limits)
SflowRequest(h) ==
    \/ \E given \in Option : \E cs \in CollectorSets(given) : put_sflow(h, given # Absent, given, cs)
    \/ \E p \in Ports, enabled \in BOOLEAN, rate \in Option : put_sflow_port(h, p, enabled, rate)
----------------------------------------------------------------------------
(***************************************************************************)
(* delete_dscp_map is refused while ports bind the map, in either spelling *)
(* of the reference: when the mutex is free and nothing failed, every      *)
(* bound map is there.  (put_dscp_map deletes the row before it writes it.)*)
(***************************************************************************)
BoundMapsExist ==
    lock["qos"] = NoOne /\ faults = 0 /\ stops = 0 /\ blindReads = 0 =>
        \A p \in Ports :
            LET v == db[PortQos(p)]["dscp_to_tc_map"]
            IN  v # Absent => Exists(db, DscpMap(IF v \in DOMAIN MapRefs THEN MapRefs[v] ELSE v))

(***************************************************************************)
(* "SONiC caps SFLOW_COLLECTOR at two rows": put_global removes the stale  *)
(* collectors before it writes the new ones, so that no third row exists   *)
(* at any instant, however requests fail or the agent is killed.           *)
(***************************************************************************)
CollectorCap ==
    Cardinality(CollectorsOf(db)) <= MaxCollectors
    /\ Cardinality(CollectorsOf(saved)) <= MaxCollectors

(***************************************************************************)
(* The pages read back what they wrote: when the last write of a request   *)
(* is answered, GET shows the map, the binding, the three limits, the      *)
(* collectors or the port's session as requested.  (A session without a    *)
(* rate of its own shows the "all" row's, if there is one.)                *)
(***************************************************************************)
PortReadBack ==
    \A h \in Handlers :
        Answered(h) =>
            CASE req[h].op = "map" -> get_qos(db).maps[req[h].name] = req[h].doc
              [] req[h].op = "trust" -> get_qos(db).trust[req[h].port] = req[h].map
              [] req[h].op = "storm" -> get_storm(db)[req[h].port] = req[h].limits
              [] req[h].op = "sflow" ->
                    /\ get_sflow(db).enabled = req[h].enabled
                    /\ get_sflow(db).polling_interval = req[h].polling
                    /\ get_sflow(db).collectors = req[h].collectors
              [] req[h].op = "sflowport" ->
                    LET doc == get_sflow(db).ports[req[h].port]
                    IN  /\ doc.enabled = req[h].enabled
                        /\ doc.rate = OrElse(req[h].rate, db[Session("all")]["sample_rate"])
              [] OTHER -> TRUE
=============================================================================
