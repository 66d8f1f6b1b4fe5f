-------------------------------- MODULE Acl --------------------------------
(***************************************************************************)
(* ACL tables and rules (src/src/sonic/acl.rs), behind the "acl" mutex.    *)
(* Updates go through store::apply, creation and deletion do not.  Source  *)
(* and destination are matched alike: one of each is modelled.             *)
(***************************************************************************)
EXTENDS Switching

CONSTANTS
    AclTables,   \* names accepted by valid_table_name
    Priorities,  \* priorities in 1..65535
    TableInputs, \* bodies of table requests
    RuleInputs   \* bodies of rule requests

AclTable(t) == <<"ACL_TABLE", t>>
AclRule(t, p) == <<"ACL_RULE", t, p>>            \* ACL_RULE|t|RULE_p
RuleDesc(t, p) == <<"QUARTZ_ACL_RULE_DESC", t, p>>
RulesOf(d, t) == {k \in {AclRule(t, p) : p \in Priorities} : Exists(d, k)}
DescsOf(d, t) == {k \in {RuleDesc(t, p) : p \in Priorities} : Exists(d, k)}

ManagedTypes == {"L3", "L3V6", "MAC"}
AclKeys ==
    {AclTable(t) : t \in AclTables}
    \cup {AclRule(t, p) : t \in AclTables, p \in Priorities}
    \cup {RuleDesc(t, p) : t \in AclTables, p \in Priorities}
AclFields ==
    {"type", "stage", "policy_desc", "ports@", "ports", "PRIORITY", "PACKET_ACTION",
     "IP_PROTOCOL", "SRC_IP", "SRC_IPV6", "SRC_MAC", "L4_SRC_PORT", "L4_SRC_PORT_RANGE",
     "MIRROR_ACTION", "MIRROR_INGRESS_ACTION", "description"}
AclValues ==
    ManagedTypes \cup {"MIRROR", "ingress", "egress", "set", "", "FORWARD", "DROP",
                       "6", "17", "1", "58", "ipv4", "ipv6", "mac", "22", "1024-65535"}
    \cup Members \cup Priorities

ASSUME AclConstants ==
    /\ IsFiniteSet(Priorities)
    /\ AclKeys \subseteq Keys /\ AclFields \subseteq Fields /\ AclValues \subseteq Values
    /\ TableInputs \subseteq
          [kind : ManagedTypes, stage : {"ingress", "egress"}, desc : Option,
           port : Members \cup {""}]
    /\ RuleInputs \subseteq
          [action : {"forward", "drop"}, desc : Option,
           src : {"ipv4", "ipv6", "mac", Absent}, protocol : {"tcp", "udp", "icmp", Absent},
           src_port : {"22", "1024-65535", Absent}]

----------------------------------------------------------------------------
\* GET /api/security/acls.  The @ spelling of a list field wins.
ports_of(row) == OrElse(field(row, "ports@"), OrElse(field(row, "ports"), ""))

src_field(kind) ==
    CASE kind = "L3V6" -> "SRC_IPV6" [] kind = "MAC" -> "SRC_MAC" [] OTHER -> "SRC_IP"

protocol_name(num, kind) ==
    CASE num = "6" -> "tcp" [] num = "17" -> "udp"
      [] <<num, kind = "L3V6">> \in {<<"1", FALSE>>, <<"58", TRUE>>} -> "icmp"
      [] OTHER -> num

rule_doc(kind, row, desc) ==
    [action |-> IF row["PACKET_ACTION"] = "DROP" THEN "drop" ELSE "forward",
     desc |-> desc,
     src |-> row[src_field(kind)],
     protocol |-> protocol_name(row["IP_PROTOCOL"], kind),
     src_port |-> OrElse(row["L4_SRC_PORT_RANGE"], row["L4_SRC_PORT"])]

rule_docs(d, t) ==
    [p \in {q \in Priorities : Exists(d, AclRule(t, q))} |->
        rule_doc(d[AclTable(t)]["type"], d[AclRule(t, p)], d[RuleDesc(t, p)]["description"])]

table_doc(d, t) ==
    [kind |-> d[AclTable(t)]["type"], stage |-> d[AclTable(t)]["stage"],
     desc |-> d[AclTable(t)]["policy_desc"], port |-> ports_of(d[AclTable(t)])]

----------------------------------------------------------------------------
\* Mutant of managed: any table will do.
ManagedAny(d, t) == Exists(d, AclTable(t))

\* managed_table: of the tables that exist, those of the console's types.
managed(d, t) == Exists(d, AclTable(t)) /\ d[AclTable(t)]["type"] \in ManagedTypes
Unmanaged(h, t) ==
    \/ ~Exists(db, AclTable(t)) /\ Decline(h, "acl", 404)
    \/ Exists(db, AclTable(t)) /\ ~managed(db, t) /\ Decline(h, "acl", 409)

\* Ports are always there; port channels and VLANs are looked up.
check_table_input(in) == in.port \in Lags => Exists(db, Lag(in.port))

table_fields(in) ==
    Given([f \in {"type", "stage", "policy_desc", "ports@"} |->
              CASE f = "type" -> in.kind [] f = "stage" -> in.stage
                [] f = "policy_desc" -> in.desc [] f = "ports@" -> in.port])

create_table(h, t, in) ==
    \/ /\ ~Exists(db, AclTable(t)) /\ check_table_input(in)
       /\ Accept(h, "acl", <<HSet(AclTable(t), table_fields(in))>>, FALSE,
                 [op |-> "table", name |-> t, doc |-> in])
    \/ Exists(db, AclTable(t)) /\ Decline(h, "acl", 409)
    \/ ~Exists(db, AclTable(t)) /\ ~check_table_input(in) /\ Decline(h, "acl", 400)

same_type(t, in) == db[AclTable(t)]["type"] = in.kind

UpdateWrites(t, in) ==
    <<HSet(AclTable(t), table_fields(in))>>
    \o (IF in.desc = Absent THEN <<HDel(AclTable(t), {"policy_desc"})>> ELSE <<>>)
    \o <<HDel(AclTable(t), {"ports"})>>

update_table(h, t, in) ==
    \/ Unmanaged(h, t)
    \/ /\ managed(db, t) /\ same_type(t, in) /\ check_table_input(in)
       /\ Accept(h, "acl", UpdateWrites(t, in), TRUE, [op |-> "table", name |-> t, doc |-> in])
    \/ managed(db, t) /\ ~same_type(t, in) /\ Decline(h, "acl", 409)
    \/ managed(db, t) /\ same_type(t, in) /\ ~check_table_input(in) /\ Decline(h, "acl", 400)

\* Mutant of TableDels: the table's own row goes first.
TableDelsFirst(t) == <<Del(AclTable(t))>> \o Dels(RulesOf(db, t)) \o Dels(DescsOf(db, t))
TableDels(t) == Dels(RulesOf(db, t)) \o Dels(DescsOf(db, t)) \o <<Del(AclTable(t))>>

delete_table(h, t) ==
    \/ Unmanaged(h, t)
    \/ managed(db, t) /\ Accept(h, "acl", TableDels(t), FALSE, [op |-> "drop"])

----------------------------------------------------------------------------
\* An address of the table's family.
check_match_addr(kind, src) ==
    src = (CASE kind = "L3V6" -> "ipv6" [] kind = "MAC" -> "mac" [] OTHER -> "ipv4")

\* A single port, or a range.
port_field(port) == IF port = "1024-65535" THEN "L4_SRC_PORT_RANGE" ELSE "L4_SRC_PORT"

protocol_number(kind, v) ==
    CASE v = "tcp" -> "6" [] v = "udp" -> "17"
      [] v = "icmp" -> IF kind = "L3V6" THEN "58" ELSE "1"
      [] OTHER -> v

RuleOk(kind, in) ==
    /\ in.src # Absent => check_match_addr(kind, in.src)
    /\ in.protocol # Absent => kind # "MAC"
    /\ in.src_port # Absent => in.protocol \in {"tcp", "udp"}

rule_fields(kind, p, in) ==
    Given([f \in {"PRIORITY", "PACKET_ACTION", "IP_PROTOCOL",
                  src_field(kind), port_field(in.src_port)} |->
              CASE f = "PRIORITY" -> p
                [] f = "PACKET_ACTION" -> IF in.action = "drop" THEN "DROP" ELSE "FORWARD"
                [] f = "IP_PROTOCOL" -> protocol_number(kind, in.protocol)
                [] f = src_field(kind) -> in.src
                [] f = port_field(in.src_port) -> in.src_port])

\* "Full replace: stale match fields must not linger."
RuleWrites(t, p, in) ==
    <<Del(AclRule(t, p)), HSet(AclRule(t, p), rule_fields(db[AclTable(t)]["type"], p, in)),
      IF in.desc = Absent THEN Del(RuleDesc(t, p))
      ELSE HSet(RuleDesc(t, p), [description |-> in.desc])>>

put_rule(h, t, p, in) ==
    \/ Unmanaged(h, t)
    \/ /\ managed(db, t) /\ RuleOk(db[AclTable(t)]["type"], in)
       /\ Accept(h, "acl", RuleWrites(t, p, in), TRUE,
                 [op |-> "rule", name |-> t, priority |-> p, doc |-> in])
    \/ managed(db, t) /\ ~RuleOk(db[AclTable(t)]["type"], in) /\ Decline(h, "acl", 400)

delete_rule(h, t, p) ==
    \/ Unmanaged(h, t)
    \/ /\ managed(db, t) /\ Exists(db, AclRule(t, p))
       /\ Accept(h, "acl", <<Del(AclRule(t, p)), Del(RuleDesc(t, p))>>, FALSE, [op |-> "drop"])
    \/ managed(db, t) /\ ~Exists(db, AclRule(t, p)) /\ Decline(h, "acl", 404)

AclRequest(h) ==
    \E t \in AclTables :
        \/ delete_table(h, t)
        \/ \E in \in TableInputs : create_table(h, t, in) \/ update_table(h, t, in)
        \/ \E p \in Priorities :
              delete_rule(h, t, p) \/ \E in \in RuleInputs : put_rule(h, t, p, in)
----------------------------------------------------------------------------
(***************************************************************************)
(* A rule has its table, at every instant, in redis and in the saved file: *)
(* delete_table removes the rules first, also when it is cut short.  And   *)
(* it only matches on the address family of its table, whatever requests   *)
(* and kills led there: "The type decides which SAI table the rules        *)
(* compile into - SONiC cannot change it in place" (update_table).  (The   *)
(* undo of an update_table deletes the table's row before it writes it     *)
(* back: said of the time before a first failure.)                         *)
(***************************************************************************)
RulesHaveTheirTable ==
    faults = 0 =>
        /\ \A d \in {db, saved}, t \in AclTables : RulesOf(d, t) # {} => Exists(d, AclTable(t))
        /\ \A t \in AclTables, p \in Priorities, f \in {"SRC_IP", "SRC_IPV6", "SRC_MAC"} :
              managed(db, t) /\ db[AclRule(t, p)][f] # Absent =>
                  f = src_field(db[AclTable(t)]["type"])

(***************************************************************************)
(* The image's own tables are "invisible to - and protected from - this    *)
(* API": no request changes a row of an unmanaged table, other than a      *)
(* restore, which replaces the whole configuration.                        *)
(***************************************************************************)
UnmanagedUntouched ==
    [][stops' = stops /\ (\A h \in Handlers : req[h].op # "restore") =>
         \A t \in AclTables :
            Exists(db, AclTable(t)) /\ db[AclTable(t)]["type"] \notin ManagedTypes =>
               \A k \in AclKeys : k[2] = t => db'[k] = db[k]]_vars

(***************************************************************************)
(* When the last write of a request is answered, GET shows the table, or   *)
(* the rule with its description, exactly as requested: no match field,    *)
(* description or legacy port list of an earlier request shines through.   *)
(***************************************************************************)
AclReadBack ==
    \A h \in Handlers :
        Answered(h) =>
            /\ req[h].op = "table" => table_doc(db, req[h].name) = req[h].doc
            /\ req[h].op = "rule" =>
                  rule_docs(db, req[h].name)[req[h].priority] = req[h].doc
=============================================================================
