----------------------------- MODULE Switching -----------------------------
(***************************************************************************)
(* Ports, VLANs and port channels (src/src/sonic/switching.rs).  These     *)
(* handlers take no mutex and have no rollback: they check, write, read    *)
(* again, and write what the second reading told them to.  `rest` holds    *)
(* the readings still to come.                                             *)
(***************************************************************************)
EXTENDS Service

CONSTANTS
    Ports,        \* physical ports; their PORT row always exists
    Lags,         \* names accepted by valid_port_channel_name
    VlanIds,      \* ids accepted by check_vlan_id
    Addresses     \* addresses accepted by check_cidrs

Members == Ports \cup Lags
Port(n) == <<"PORT", n>>
Lag(n) == <<"PORTCHANNEL", n>>
LagMember(l, n) == <<"PORTCHANNEL_MEMBER", l, n>>
Vlan(i) == <<"VLAN", i>>
VlanMember(i, n) == <<"VLAN_MEMBER", i, n>>
Svi(i) == <<"VLAN_INTERFACE", i>>
SviIp(i, a) == <<"VLAN_INTERFACE", i, a>>

SwitchingKeys ==
    {Port(n) : n \in Ports} \cup {Lag(l) : l \in Lags}
    \cup {LagMember(l, n) : l \in Lags, n \in Ports}
    \cup {Vlan(i) : i \in VlanIds} \cup {Svi(i) : i \in VlanIds}
    \cup {VlanMember(i, n) : i \in VlanIds, n \in Members}
    \cup {SviIp(i, a) : i \in VlanIds, a \in Addresses}

(***************************************************************************)
(* One optional field stands for each group the code writes field by field *)
(* in a row of its own: "mtu" for a port's scalars, "static" for a LAG's   *)
(* options.  A VLAN's description is left out; its DHCP helper list has    *)
(* two spellings, of which the agent writes one.                           *)
(***************************************************************************)
SwitchingFields == {"mtu", "vlanid", "dhcp_servers@", "dhcp_servers", "tagging_mode", "NULL",
                    "admin_status", "static"}
SwitchingValues == {"set", "tagged", "untagged", "NULL"}

ASSUME SwitchingConstants ==
    /\ SwitchingKeys \subseteq Keys
    /\ SwitchingFields \subseteq Fields
    /\ SwitchingValues \subseteq Values
    /\ Ports \cap Lags = {}
    /\ Configs0 \subseteq [Keys -> Row]

----------------------------------------------------------------------------
\* What a database d says.  Memberships are functions to tagging modes.
VlansOf(d, n) ==
    [i \in {j \in VlanIds : Exists(d, VlanMember(j, n))} |->
        d[VlanMember(i, n)]["tagging_mode"]]
MembersOf(d, i) ==
    [n \in {m \in Members : Exists(d, VlanMember(i, m))} |->
        d[VlanMember(i, n)]["tagging_mode"]]
AddressesOf(d, i) == {a \in Addresses : Exists(d, SviIp(i, a))}
LagMembersOf(d, l) == {n \in Ports : Exists(d, LagMember(l, n))}

\* The @ spelling wins.
dhcp_helpers(d, i) == OrElse(d[Vlan(i)]["dhcp_servers@"], d[Vlan(i)]["dhcp_servers"])

\* The rows of a port, of a VLAN, and of sets of addresses and LAG members.
PortRows(n) == [i \in VlanIds |-> VlanMember(i, n)]
VlanRows(i) == [n \in Members |-> VlanMember(i, n)]
SviIps(i, ips) == {SviIp(i, a) : a \in ips}
LagRows(l, ports) == {LagMember(l, n) : n \in ports}

Memberships(S) == UNION {[T -> {"tagged", "untagged"}] : T \in SUBSET S}

(***************************************************************************)
(* desired_vlan_rows: routed has no row, access one untagged row, trunk    *)
(* the tagged ones with the native VLAN's row untagged.  Without a         *)
(* vlan_mode (Keep) the memberships are not looked at.                     *)
(***************************************************************************)
desired_vlan_rows(mode, untagged, tagged) ==
    CASE mode \in {"routed", Keep} -> <<>>
      [] mode = "access" -> [i \in {untagged} |-> "untagged"]
      [] mode = "trunk" ->
            [i \in tagged \cup ({untagged} \cap VlanIds) |->
                IF i = untagged THEN "untagged" ELSE "tagged"]

Writes(rows, key) ==
    LET order == SetToSeq(DOMAIN rows)
    IN  [i \in DOMAIN order |-> HSet(key[order[i]], [tagging_mode |-> rows[order[i]]])]

\* Mutant of diff_rows: a row that only differs is not rewritten.
DiffOnlyMissing(current, desired, key) ==
    Dels({key[x] : x \in DOMAIN current \ DOMAIN desired})
    \o Writes(Restrict(desired, DOMAIN desired \ DOMAIN current), key)

(***************************************************************************)
(* diff_rows: delete the rows that are not wanted, then write the ones     *)
(* that are missing or differ; key[x] is the row of element x.             *)
(***************************************************************************)
diff_rows(current, desired, key) ==
    Dels({key[x] : x \in DOMAIN current \ DOMAIN desired})
    \o Writes(Restrict(desired, {x \in DOMAIN desired :
                                   x \notin DOMAIN current \/ current[x] # desired[x]}), key)

\* "Drop the plain-name variant too so the reader can't fall back to a stale list."
HelperWrites(i, servers) ==
    IF servers = Absent
    THEN <<HDel(Vlan(i), {"dhcp_servers@"}), HDel(Vlan(i), {"dhcp_servers"})>>
    ELSE <<HSetField(Vlan(i), "dhcp_servers@", servers)>>

check_members_exist(ms) ==
    \A n \in DOMAIN ms \ Ports : Exists(db, Lag(n))

write_port_channel_fields(l, static) ==
    <<HSet(Lag(l), [admin_status |-> "set"]), Optional(Lag(l), "static", static)>>

----------------------------------------------------------------------------
\* Admitted, or refused, without a mutex.
Unlocked(h, ops, readings, r) ==
    Take(h, {}, ops, FALSE, readings, r) /\ UNCHANGED blindReads
Rejected(h, status) == Answer(h, {}, status) /\ UNCHANGED blindReads

update_port(h, n, mtu, mode, untagged, tagged) ==
    LET rows == desired_vlan_rows(mode, untagged, tagged)
    IN  \/ /\ \A i \in DOMAIN rows : Exists(db, Vlan(i))
           /\ Unlocked(h, IF mtu = Keep THEN <<>> ELSE <<Optional(Port(n), "mtu", mtu)>>,
                     IF mode = Keep THEN <<>> ELSE <<"port_vlans">>,
                     IF mode = Keep THEN [op |-> "patch"]
                     ELSE [op |-> "port", name |-> n, rows |-> rows])
        \/ (\E i \in DOMAIN rows : ~Exists(db, Vlan(i))) /\ Rejected(h, 400)

create_vlan(h, i, servers, ms, ips) ==
    \/ /\ ~Exists(db, Vlan(i)) /\ check_members_exist(ms)
       /\ Unlocked(h,
              <<HSet(Vlan(i), [vlanid |-> "set"])>>
              \o (IF servers = Absent THEN <<>>
                  ELSE <<HSetField(Vlan(i), "dhcp_servers@", servers)>>)
              \o Writes(ms, VlanRows(i))
              \o (IF ips = {} THEN <<>> ELSE <<HSet(Svi(i), Marker)>>)
              \o Marks(SviIps(i, ips)),
              <<>>, [op |-> "vlan", id |-> i, servers |-> servers, members |-> ms, ips |-> ips])
    \/ (Exists(db, Vlan(i)) \/ ~check_members_exist(ms)) /\ Rejected(h, 400)

update_vlan(h, i, servers, ms, ips) ==
    \/ /\ Exists(db, Vlan(i)) /\ check_members_exist(ms)
       /\ Unlocked(h, HelperWrites(i, servers), <<"members", "addresses">>,
                 [op |-> "vlan", id |-> i, servers |-> servers, members |-> ms, ips |-> ips])
    \/ ~Exists(db, Vlan(i)) /\ Rejected(h, 404)
    \/ Exists(db, Vlan(i)) /\ ~check_members_exist(ms) /\ Rejected(h, 400)

delete_vlan(h, i) ==
    \/ Exists(db, Vlan(i))
       /\ Unlocked(h, <<>>, <<"drop_members", "drop_vlan">>, [op |-> "drop", id |-> i])
    \/ ~Exists(db, Vlan(i)) /\ Rejected(h, 404)

create_port_channel(h, l, static, ports) ==
    \/ /\ ~Exists(db, Lag(l))
       /\ Unlocked(h, write_port_channel_fields(l, static) \o Marks(LagRows(l, ports)),
                 <<>>, [op |-> "lag", name |-> l, ports |-> ports])
    \/ Exists(db, Lag(l)) /\ Rejected(h, 400)

update_port_channel(h, l, static, ports) ==
    \/ Exists(db, Lag(l))
       /\ Unlocked(h, write_port_channel_fields(l, static), <<"lag_members">>,
                 [op |-> "lag", name |-> l, ports |-> ports])
    \/ ~Exists(db, Lag(l)) /\ Rejected(h, 404)

delete_port_channel(h, l) ==
    \/ Exists(db, Lag(l))
       /\ Unlocked(h, <<>>, <<"drop_lag">>, [op |-> "droplag", name |-> l])
    \/ ~Exists(db, Lag(l)) /\ Rejected(h, 404)

----------------------------------------------------------------------------
(***************************************************************************)
(* The writes that follow from each later reading of the database.         *)
(* A row that hgetall_on fails to read (unread) looks "untagged".          *)
(***************************************************************************)
Seen(rows, key, unread) ==
    [x \in DOMAIN rows |-> IF key[x] \in unread THEN "untagged" ELSE rows[x]]

port_vlans(r, unread) ==
    LET key == PortRows(r.name)
    IN  diff_rows(Seen(VlansOf(db, r.name), key, unread), r.rows, key)

vlan_members(r, unread) ==
    LET key == VlanRows(r.id)
    IN  diff_rows(Seen(MembersOf(db, r.id), key, unread), r.members, key)

\* Mutant of vlan_addresses: the parent row is written last.
SviLast(r) ==
    LET cur == AddressesOf(db, r.id)
    IN  Dels(SviIps(r.id, cur \ r.ips)) \o Marks(SviIps(r.id, r.ips \ cur))
        \o (IF r.ips = {} THEN <<Del(Svi(r.id))>> ELSE <<HSet(Svi(r.id), Marker)>>)

vlan_addresses(r) ==
    LET cur == AddressesOf(db, r.id)
    IN  Dels(SviIps(r.id, cur \ r.ips))
        \o (IF r.ips = {} THEN <<Del(Svi(r.id))>> ELSE <<HSet(Svi(r.id), Marker)>>)
        \o Marks(SviIps(r.id, r.ips \ cur))

\* Mutant of drop_vlan: the VLAN row goes first.
DropVlanFirst(r) ==
    <<Del(Vlan(r.id))>> \o Dels(SviIps(r.id, AddressesOf(db, r.id))) \o <<Del(Svi(r.id))>>

drop_vlan(r) ==
    Dels(SviIps(r.id, AddressesOf(db, r.id))) \o <<Del(Svi(r.id)), Del(Vlan(r.id))>>

lag_members(r) ==
    LET cur == LagMembersOf(db, r.name)
    IN  Dels(LagRows(r.name, cur \ r.ports)) \o Marks(LagRows(r.name, r.ports \ cur))

drop_lag(r) ==
    Append(Dels(LagRows(r.name, LagMembersOf(db, r.name))), Del(Lag(r.name)))

drop_members(r) ==
    Dels({VlanMember(r.id, n) : n \in DOMAIN MembersOf(db, r.id)})

MemberRows == {VlanMember(i, n) : i \in VlanIds, n \in Members}

\* A reading that is made, and what follows from it.
Read(h) ==
    /\ rest[h] # <<>>
    /\ \E unread \in SUBSET {k \in MemberRows : Exists(db, k)} :
          /\ unread # {} => /\ Head(rest[h]) \in {"port_vlans", "members"}
                            /\ blindReads < MaxBlindReads
          /\ blindReads' = IF unread = {} THEN blindReads ELSE blindReads + 1
          /\ LET r == req[h]
             IN  Extend(h, CASE Head(rest[h]) = "port_vlans" -> port_vlans(r, unread)
                             [] Head(rest[h]) = "members" -> vlan_members(r, unread)
                             [] Head(rest[h]) = "addresses" -> vlan_addresses(r)
                             [] Head(rest[h]) = "drop_members" -> drop_members(r)
                             [] Head(rest[h]) = "drop_vlan" -> drop_vlan(r)
                             [] Head(rest[h]) = "lag_members" -> lag_members(r)
                             [] Head(rest[h]) = "drop_lag" -> drop_lag(r))
    /\ rest' = [rest EXCEPT ![h] = Tail(@)]
    /\ UNCHANGED <<req, served>>

PortRequest(h) ==
    \E n \in Ports, mtu \in Option \cup {Keep} :
        \/ \E mode \in {"routed", Keep} : update_port(h, n, mtu, mode, Absent, {})
        \/ \E i \in VlanIds : update_port(h, n, mtu, "access", i, {})
        \/ \E i \in VlanIds \cup {Absent}, ids \in SUBSET VlanIds :
              update_port(h, n, mtu, "trunk", i, ids)

VlanRequest(h) ==
    \E i \in VlanIds :
        \/ delete_vlan(h, i)
        \/ \E d \in Option, ms \in Memberships(Members), ips \in SUBSET Addresses :
              create_vlan(h, i, d, ms, ips) \/ update_vlan(h, i, d, ms, ips)

LagRequest(h) ==
    \E l \in Lags :
        \/ delete_port_channel(h, l)
        \/ \E static \in Option, ports \in SUBSET Ports :
              create_port_channel(h, l, static, ports)
              \/ update_port_channel(h, l, static, ports)

Next ==
    \/ \E h \in Handlers :
          \/ Receive(h) \/ Malformed(h) \/ Read(h) \/ ReadFault(h) \/ Finish(h)
          \/ pc[h] = "queued" /\ (PortRequest(h) \/ VlanRequest(h) \/ LagRequest(h))
    \/ Crash

Spec == Init /\ [][Next]_vars
----------------------------------------------------------------------------
(***************************************************************************)
(* update_port, create_vlan, update_vlan, delete_vlan: a VLAN_MEMBER or    *)
(* VLAN_INTERFACE row always has its VLAN row, at every instant, so also   *)
(* after a write failed or the agent was killed half way.                  *)
(***************************************************************************)
NothingHangsOffNoVlan ==
    \A i \in VlanIds :
        \/ Exists(db, Vlan(i))
        \/ /\ DOMAIN MembersOf(db, i) = {}
           /\ ~Exists(db, Svi(i))
           /\ AddressesOf(db, i) = {}

(***************************************************************************)
(* create_vlan and update_vlan write VLAN_INTERFACE|VlanN before its       *)
(* address rows, and take it away after them: "intfmgrd only picks up the  *)
(* per-address child keys when the two-part parent row exists".  The       *)
(* port-channel handlers do the same: at every instant a member row has    *)
(* its PORTCHANNEL row.                                                    *)
(***************************************************************************)
ChildrenHaveParent ==
    /\ \A i \in VlanIds : AddressesOf(db, i) # {} => Exists(db, Svi(i))
    /\ \A l \in Lags : LagMembersOf(db, l) # {} => Exists(db, Lag(l))

(***************************************************************************)
(* "converge ... to the given sets": when the last write of a request is   *)
(* answered, the rows are exactly the requested ones, whatever failed or   *)
(* killed requests left before.  (A membership row that cannot be read     *)
(* passes for an untagged one and may be left as it is.)                   *)
(***************************************************************************)
Converged ==
    \A h \in Handlers :
        blindReads = 0 /\ pc[h] = "plain" /\ todo[h] = <<>> /\ rest[h] = <<>> =>
            CASE req[h].op = "port" -> VlansOf(db, req[h].name) = req[h].rows
              [] req[h].op = "vlan" ->
                    /\ dhcp_helpers(db, req[h].id) = req[h].servers
                    /\ MembersOf(db, req[h].id) = req[h].members
                    /\ AddressesOf(db, req[h].id) = req[h].ips
              [] req[h].op = "lag" -> LagMembersOf(db, req[h].name) = req[h].ports
              [] req[h].op = "drop" ->
                    ~Exists(db, Vlan(req[h].id)) /\ DOMAIN MembersOf(db, req[h].id) = {}
              [] req[h].op = "droplag" ->
                    ~Exists(db, Lag(req[h].name)) /\ LagMembersOf(db, req[h].name) = {}
              [] OTHER -> TRUE
=============================================================================
