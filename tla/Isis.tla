-------------------------------- MODULE Isis --------------------------------
(***************************************************************************)
(* The IS-IS instance and its interfaces (src/src/sonic/isis.rs).  What    *)
(* FRR does with the interface statements of an instance that is removed   *)
(* is left open by the code; here they stay until a request changes them.  *)
(***************************************************************************)
EXTENDS Frr

CONSTANTS
    Tags,          \* instance tags; "1" is the agent's own
    IsisInterfaces,
    InstanceInputs,     \* InstanceInput bodies: [net, level, hostname]
    IsisInputs          \* InterfaceInput bodies

Levels == {"level-1", "level-2", "level-1-2"}
level_to_frr(l) == IF l = "level-2" THEN "level-2-only" ELSE l

level_from_frr(l) == IF l = "level-2-only" THEN "level-2" ELSE l

RouterKey(tag) == <<"router isis", tag>>
InterfaceKey(i) == <<"interface", i>>
Nets == {in.net : in \in InstanceInputs} \ {Absent, "bad"}

\* A NET is spelled like no other statement of the block.
ASSUME IsisConstants ==
    /\ {RouterKey(tag) : tag \in Tags} \subseteq Keys
    /\ {Statement(n) : n \in Nets} \subseteq Fields
    /\ "1" \in Tags /\ Absent \notin Tags
    /\ Nets \cap {"opened", "is-type", "no hostname dynamic"} = {}
----------------------------------------------------------------------------
(***************************************************************************)
(* parse_running_config: the instance (the last tag and the last NET win), *)
(* with FRR's defaults for what is not printed, and the interfaces that    *)
(* carry some IS-IS statement.                                             *)
(***************************************************************************)
tags(d) == LET held == {t \in Tags : Exists(d, RouterKey(t))}
           IN  IF held = {} THEN {Absent} ELSE held
nets(d, tag) == LET held == {n \in Nets : tag # Absent /\ Held(d, RouterKey(tag), n) # Absent}
                IN  IF held = {} THEN {Absent} ELSE held
InstanceOf(d, tag) ==
    [net |-> nets(d, tag),
     level |-> level_from_frr(OrElse(Held(d, RouterKey(tag), "is-type"), <<"level-1-2">>)[1]),
     hostname |-> Held(d, RouterKey(tag), "no hostname dynamic") = Absent]
IfcOf(d, i) ==
    LET k == InterfaceKey(i)
        type == Held(d, k, "circuit-type")
    IN  [enabled |-> \/ Held(d, k, "ip router isis") # Absent
                     \/ Held(d, k, "ipv6 router isis") # Absent,
         circuit_type |-> IF type = Absent THEN Absent ELSE level_from_frr(type[1]),
         metric |-> Held(d, k, "metric"),
         passive |-> Held(d, k, "passive") # Absent,
         point_to_point |-> Held(d, k, "point-to-point") # Absent]

\* The tag already configured, else "1".
tag_of(tag) == OrElse(tag, "1")
----------------------------------------------------------------------------
InstanceLines(tag, old, in) ==
    LET k == RouterKey(tag)
    IN  <<Open(k)>> \o
        (IF old \in {Absent, in.net} THEN <<>> ELSE <<No(k, old)>>) \o
        <<Set(k, in.net, <<"yes">>), Set(k, "is-type", <<level_to_frr(in.level)>>),
          Switched(k, "no hostname dynamic", ~in.hostname)>>

\* A body without a NET removes the instance; a NET valid_net refuses is "bad".
put_isis_instance(h, in) ==
    \E tag \in tags(db) : \E old \in nets(db, tag) :
       LET r == [op |-> "put instance", tag |-> tag_of(tag), in |-> in]
       IN  \/ /\ in.net = Absent /\ tag = Absent
              /\ Accept(h, "isis", <<>>, FALSE, r)
              /\ UNCHANGED <<blindReads, split>>
           \/ /\ in.net = Absent /\ tag # Absent
              /\ vtysh_config(h, "isis", <<Del(RouterKey(tag))>>, r)
           \/ in.net = "bad" /\ Refused(h, "isis", 400)
           \/ /\ in.net \in Nets
              /\ vtysh_config(h, "isis", InstanceLines(tag_of(tag), old, in), r)

OptionalLine(k, word, v) == IF v = Absent THEN No(k, word) ELSE Set(k, word, v)

\* The body is the full desired state of an enabled interface.
InterfaceLines(tag, i, in) ==
    LET k == InterfaceKey(i)
    IN  IF ~in.enabled THEN <<Open(k), No(k, "ip router isis")>>
        ELSE <<Open(k), Set(k, "ip router isis", <<tag>>),
               OptionalLine(k, "circuit-type",
                   IF in.circuit_type = Absent THEN Absent ELSE <<level_to_frr(in.circuit_type)>>),
               OptionalLine(k, "metric",
                   IF in.metric = Absent THEN Absent ELSE <<"metric", in.metric>>),
               Switched(k, "passive", in.passive),
               Switched(k, "point-to-point", in.point_to_point)>>

MetricOK(in) == in.metric # Absent => in.metric \in 1..16777215

\* known: the interface's row is in CONFIG_DB, where other pages write it.
put_isis_interface(h, i, known, in) ==
    \E tag \in tags(db) :
       \/ ~MetricOK(in) /\ Refused(h, "isis", 400)
       \/ MetricOK(in) /\ ~known /\ Refused(h, "isis", 404)
       \/ MetricOK(in) /\ known /\ tag = Absent /\ Refused(h, "isis", 400)
       \/ /\ MetricOK(in) /\ known /\ tag # Absent
          /\ vtysh_config(h, "isis", InterfaceLines(tag, i, in),
                          [op |-> "put interface", name |-> i, in |-> in])

IsisRequest(h) ==
    \/ \E in \in InstanceInputs : put_isis_instance(h, in)
    \/ \E i \in IsisInterfaces, known \in BOOLEAN, in \in IsisInputs :
          put_isis_interface(h, i, known, in)
----------------------------------------------------------------------------
(***************************************************************************)
(* There is one instance and it has one NET, although `net` statements     *)
(* accumulate and the tag is whatever was configured before: a changed NET *)
(* is withdrawn first, also when a line of the batch fails or the agent is *)
(* killed half way.                                                        *)
(***************************************************************************)
OneInstanceOneNet ==
    /\ Cardinality(tags(db)) = 1
    /\ \A t \in tags(db) : Cardinality(nets(db, t)) = 1

(***************************************************************************)
(* What GET shows after an accepted write is the body, level names         *)
(* translated to FRR's and back.  Disabling removes `ip router isis` only: *)
(* an interface that also runs IS-IS for IPv6 is still shown as enabled.   *)
(***************************************************************************)
IsisReadBack ==
    \A h \in Handlers : Answered(h) =>
        CASE req[h].op = "put instance" ->
                 IF req[h].in.net = Absent THEN tags(db) = {Absent}
                 ELSE tags(db) = {req[h].tag} /\ InstanceOf(db, req[h].tag) =
                          [req[h].in EXCEPT !.net = {req[h].in.net}]
          [] req[h].op = "put interface" /\ req[h].in.enabled ->
                 IfcOf(db, req[h].name) = [req[h].in EXCEPT !.metric =
                     IF req[h].in.metric = Absent THEN Absent ELSE <<"metric", req[h].in.metric>>]
          [] req[h].op = "put interface" /\ ~req[h].in.enabled ->
                 IfcOf(db, req[h].name).enabled =
                     (Held(db, InterfaceKey(req[h].name), "ipv6 router isis") # Absent)
          [] OTHER -> TRUE
=============================================================================
