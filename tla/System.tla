------------------------------- MODULE System -------------------------------
(***************************************************************************)
(* The system pages (src/src/sonic/system.rs): general settings, SNMP and  *)
(* the management interface in CONFIG_DB; local users, which are accounts  *)
(* of the host; and the maintenance requests that write or reload the      *)
(* configuration file.  All hold the "system" mutex.                       *)
(*                                                                         *)
(* /etc/passwd and /etc/group are rows here too, which no config save      *)
(* stores and no reload or reboot changes; each account tool is a command. *)
(***************************************************************************)
EXTENDS Service

CONSTANTS
    Users,         \* account names
    Builtin,       \* the image's own account
    AdminGroups,   \* those of sudo, docker and admin the image has
    Hosts,         \* addresses of NTP and syslog servers
    Communities,   \* SNMP community names
    Cidrs,         \* management addresses, in GET's order
    GeneralInputs, SnmpInputs, ManagementInputs,  \* bodies
    Backups        \* configurations a restore may bring

Meta == <<"DEVICE_METADATA", "localhost">>
Ntp(s) == <<"NTP_SERVER", s>>
Syslog(s) == <<"SYSLOG_SERVER", s>>
SnmpRow(r) == <<"SNMP", r>>
Community(c) == <<"SNMP_COMMUNITY", c>>
SnmpFeature == <<"FEATURE", "snmp">>
Mgmt == <<"MGMT_INTERFACE", "eth0">>
MgmtIp(a) == <<"MGMT_INTERFACE", "eth0", a>>
Passwd(u) == <<"passwd", u>>
Group(u) == <<"group", u>>
Account(k) == k[1] \in {"passwd", "group"}

SystemKeys ==
    {Meta, SnmpRow("LOCATION"), SnmpRow("CONTACT"), SnmpFeature, Mgmt} \cup
    {Ntp(s) : s \in Hosts} \cup {Syslog(s) : s \in Hosts} \cup
    {Community(c) : c \in Communities} \cup {MgmtIp(a) : a \in Range(Cidrs)} \cup
    {Passwd(u) : u \in Users} \cup {Group(u) : u \in Users}
SystemFields ==
    {"hostname", "NULL", "port", "Location", "Contact", "TYPE", "state", "gwaddr",
     "login", "password"} \cup {"sudo", "docker", "admin"}
SystemValues == {"set", "NULL", "RO", "RW", "enabled", "disabled", "bash", "nologin", "in"}

ASSUME SystemConstants ==
    /\ SystemKeys \subseteq Keys /\ SystemFields \subseteq Fields
    /\ SystemValues \subseteq Values
    /\ AdminGroups \subseteq {"sudo", "docker", "admin"}
    /\ Builtin \in Users
    /\ \A S \in {Users, Hosts, Communities, Range(Cidrs)} : IsFiniteSet(S)
    /\ \A in \in GeneralInputs : in.ntp \subseteq Hosts /\ DOMAIN in.syslog \subseteq Hosts
    /\ \A in \in SnmpInputs : DOMAIN in.communities \subseteq Communities
    /\ Backups \subseteq [Keys -> Row]
----------------------------------------------------------------------------
\* The replacement of a set of keyed rows: the ones not desired, then the new ones.
Gone(table, current, desired) == Dels({<<table, n>> : n \in current \ desired})
Rows(d, table, names) == {n \in names : Exists(d, <<table, n>>)}

SyslogWrite(s, port) ==
    IF port # Absent THEN <<HSet(Syslog(s), [port |-> port])>>
    ELSE <<HSet(Syslog(s), Marker), HDel(Syslog(s), {"port"})>>

\* hostname stands for the timezone too: one command sets both.
GeneralWrites(d, in) ==
    LET ntp == Rows(d, "NTP_SERVER", Hosts)
        order == SetToSeq(DOMAIN in.syslog)
    IN  <<HSet(Meta, [hostname |-> in.hostname])>>
        \o Gone("NTP_SERVER", ntp, in.ntp) \o Marks({Ntp(s) : s \in in.ntp \ ntp})
        \o Gone("SYSLOG_SERVER", Rows(d, "SYSLOG_SERVER", Hosts), DOMAIN in.syslog)
        \o FlattenSeq([j \in DOMAIN order |-> SyslogWrite(order[j], in.syslog[order[j]])])
put_general(h, d, in) ==
    Accept(h, "system", GeneralWrites(d, in), TRUE, [op |-> "general", in |-> in])
get_general(d) ==
    [hostname |-> d[Meta]["hostname"],
     ntp |-> Rows(d, "NTP_SERVER", Hosts),
     syslog |-> [s \in Rows(d, "SYSLOG_SERVER", Hosts) |-> d[Syslog(s)]["port"]]]

TextRow(k, f, v) == IF v = Absent THEN Del(k) ELSE HSetField(k, f, v)
SnmpWrites(d, in) ==
    LET order == SetToSeq(DOMAIN in.communities)
    IN  <<HSet(SnmpFeature, [state |-> IF in.enabled THEN "enabled" ELSE "disabled"]),
          TextRow(SnmpRow("LOCATION"), "Location", in.location),
          TextRow(SnmpRow("CONTACT"), "Contact", in.contact)>>
        \o Gone("SNMP_COMMUNITY", Rows(d, "SNMP_COMMUNITY", Communities), DOMAIN in.communities)
        \o [j \in DOMAIN order |->
               HSet(Community(order[j]), [TYPE |-> IF in.communities[order[j]] = "ro" THEN "RO" ELSE "RW"])]
\* It ends by dropping the cached capability probe, which is the subject of Lldp.
put_snmp(h, d, in) == Accept(h, "system", SnmpWrites(d, in), TRUE, [op |-> "snmp", in |-> in])
get_snmp(d) ==
    [enabled |-> d[SnmpFeature]["state"] = "enabled",
     location |-> d[SnmpRow("LOCATION")]["Location"],
     contact |-> d[SnmpRow("CONTACT")]["Contact"],
     communities |-> [c \in Rows(d, "SNMP_COMMUNITY", Communities) |->
                         IF d[Community(c)]["TYPE"] = "RW" THEN "rw" ELSE "ro"]]

\* The addresses of eth0, and the one GET shows.
mgmt_rows(d) == {a \in Range(Cidrs) : Exists(d, MgmtIp(a))}
get_management(d) ==
    IF mgmt_rows(d) = {} THEN [dhcp |-> TRUE, ip |-> Absent, gateway |-> Absent]
    ELSE LET a == Cidrs[Min({j \in DOMAIN Cidrs : Cidrs[j] \in mgmt_rows(d)})]
         IN  [dhcp |-> FALSE, ip |-> a, gateway |-> d[MgmtIp(a)]["gwaddr"]]

StaticWrites(d, in) ==
    Dels({MgmtIp(a) : a \in mgmt_rows(d) \ {in.ip}})
    \o IF in.gateway # Absent THEN <<HSet(MgmtIp(in.ip), [gwaddr |-> in.gateway])>>
       ELSE <<HSet(MgmtIp(in.ip), Marker), HDel(MgmtIp(in.ip), {"gwaddr"})>>
\* Back to DHCP outside a batch, a static address inside one.
put_management(h, in) ==
    LET r == [op |-> "management", in |-> in]
    IN  \/ /\ in.dhcp
           /\ Accept(h, "system", Append(Dels({MgmtIp(a) : a \in mgmt_rows(db)}), Del(Mgmt)), FALSE, r)
        \/ ~in.dhcp /\ in.ip = Absent /\ Decline(h, "system", 400)
        \/ ~in.dhcp /\ in.ip # Absent /\ Accept(h, "system", StaticWrites(db, in), TRUE, r)
----------------------------------------------------------------------------
\* parse_users: the accounts one can log in to; sudo or admin makes an admin.
UsersIn(d) == {u \in Users : d[Passwd(u)]["login"] = "bash"}
Admins(d) == {u \in UsersIn(d) : d[Group(u)]["sudo"] = "in" \/ d[Group(u)]["admin"] = "in"}

\* groups: the admin groups as /etc/group reads at that moment, which may be {}.
apply_role(u, role, groups) ==
    IF role = "operator"
    THEN LET order == SetToSeq(groups) IN [j \in DOMAIN order |-> HDel(Group(u), {order[j]})]
    ELSE IF groups = {} THEN <<>> ELSE <<HSet(Group(u), [g \in groups |-> "in"])>>
SetPassword(u, given) == IF given THEN <<HSet(Passwd(u), [password |-> "set"])>> ELSE <<>>

create_user(h, u, role, groups) ==
    \/ Exists(db, Passwd(u)) /\ Decline(h, "system", 409)
    \/ /\ ~Exists(db, Passwd(u))
       /\ Accept(h, "system",
                 <<HSet(Passwd(u), [login |-> "bash"])>> \o apply_role(u, role, groups) \o SetPassword(u, TRUE),
                 FALSE, [op |-> "user", user |-> u, role |-> role])

\* Mutant of LastAdmin: the count is of users, not of admins.
LastAdminOfUsers(d, u) == u \in Admins(d) /\ Cardinality(UsersIn(d)) <= 1
LastAdmin(d, u) == u \in Admins(d) /\ Cardinality(Admins(d)) <= 1

update_user(h, d, u, role, given, groups) ==
    \/ u \notin UsersIn(d) /\ Decline(h, "system", 404)
    \/ u \in UsersIn(d) /\ role = "operator" /\ LastAdmin(d, u) /\ Decline(h, "system", 409)
    \/ /\ u \in UsersIn(d)
       /\ role = "operator" => ~LastAdmin(d, u)
       /\ Accept(h, "system", apply_role(u, role, groups) \o SetPassword(u, given), FALSE,
                 [op |-> "user", user |-> u, role |-> role])

\* userdel edits both files.
delete_user(h, d, u) ==
    \/ u \notin UsersIn(d) /\ Decline(h, "system", 404)
    \/ u \in UsersIn(d) /\ (u = Builtin \/ LastAdmin(d, u)) /\ Decline(h, "system", 409)
    \/ /\ u \in UsersIn(d) /\ u # Builtin /\ ~LastAdmin(d, u)
       /\ Accept(h, "system", <<Del(Passwd(u)), Del(Group(u))>>, FALSE, [op |-> "delete user", user |-> u])

\* A failure of `gpasswd -d` is ignored and the next command runs.
Gpasswd(h) ==
    /\ pc[h] = "plain" /\ todo[h] # <<>>
    /\ req[h].op = "user" /\ req[h].role = "operator"
    /\ Head(todo[h]).key = Group(req[h].user)
IgnoredFault(h) ==
    /\ faults < MaxFaults
    /\ faults' = faults + 1
    /\ todo' = [todo EXCEPT ![h] = Tail(todo[h])]
    /\ UNCHANGED <<db, saved, lock, pc, snaps, code, pre, torn, stops>>
----------------------------------------------------------------------------
\* save_config and restore act on the whole file.
save_config(h) == Take(h, {"system"}, <<>>, FALSE, <<"config save">>, [op |-> "save"])
restore(h, backup) ==
    Take(h, {"system"}, <<>>, FALSE, <<"write file", "config reload">>,
         [op |-> "restore", backup |-> backup])

\* What `config reload` or a reboot makes of the configuration file.
Reloaded == [k \in Keys |-> IF Account(k) THEN db[k] ELSE saved[k]]

Maintain(h) ==
    /\ pc[h] = "plain" /\ todo[h] = <<>> /\ rest[h] # <<>>
    /\ rest' = [rest EXCEPT ![h] = Tail(rest[h])]
    /\ CASE Head(rest[h]) = "config save" -> saved' = db /\ UNCHANGED db
         [] Head(rest[h]) = "write file" -> saved' = req[h].backup /\ UNCHANGED db
         [] Head(rest[h]) = "config reload" -> db' = Reloaded /\ UNCHANGED saved
    /\ UNCHANGED <<lock, pc, todo, snaps, code, pre, torn, faults, stops>>
    /\ UNCHANGED <<req, served, blindReads>>

SystemReboot == Stopped /\ db' = Reloaded /\ UNCHANGED saved
SystemCrash == (Kill \/ SystemReboot) /\ Forget

\* Which requests are followed by a config save.
Persists(h) == req[h].op \in {"general", "snmp", "management"}
SystemStep(h) ==
    \/ Maintain(h)
    \/ /\ Gpasswd(h)
       /\ Execute(h) \/ IgnoredFault(h)
       /\ UNCHANGED <<req, rest, served, blindReads>>
    \/ ~Gpasswd(h) /\ Proceed(h, Persists(h))

\* T: what cannot be read, in the user list or when the groups are looked up.
UserRequest(h, T) ==
    LET groups == IF "admin_groups" \in T THEN {} ELSE AdminGroups
    IN  \E u \in Users :
           \/ delete_user(h, Blinded(T), u)
           \/ \E role \in {"admin", "operator"} :
                 \/ create_user(h, u, role, groups)
                 \/ \E given \in BOOLEAN : update_user(h, Blinded(T), u, role, given, groups)
SystemRequest(h) ==
    \/ \E T \in SUBSET {"NTP_SERVER", "SYSLOG_SERVER"}, in \in GeneralInputs :
          Blindness(T) /\ put_general(h, Blinded(T), in)
    \/ \E T \in SUBSET {"SNMP_COMMUNITY"}, in \in SnmpInputs :
          Blindness(T) /\ put_snmp(h, Blinded(T), in)
    \/ \E in \in ManagementInputs : put_management(h, in) /\ UNCHANGED blindReads
MaintenanceRequest(h) == save_config(h) \/ \E b \in Backups : restore(h, b)
----------------------------------------------------------------------------
(***************************************************************************)
(* "the last admin": somebody can always administer the switch.  No order  *)
(* of demotions and deletions, overlapping, killed or failing half way,    *)
(* takes the last admin away, provided that the account files could be     *)
(* read (an unreadable /etc/group makes every user look like an operator,  *)
(* and the last-admin rule does not apply to operators).                   *)
(***************************************************************************)
AdminRemains == blindReads = 0 => Admins(db) # {}

(***************************************************************************)
(* An acknowledged user request did what it says although its commands are *)
(* not undone when one fails: the account is there with the role asked     *)
(* for, or gone.  (A failed `gpasswd -d` is ignored: the user then stays   *)
(* an admin although the answer is 200.)                                   *)
(***************************************************************************)
UserReadBack ==
    \A h \in Handlers : Answered(h) /\ blindReads = 0 =>
        /\ req[h].op = "user" /\ faults = 0 =>
              /\ req[h].user \in UsersIn(db)
              /\ (req[h].user \in Admins(db)) = (req[h].role = "admin")
        /\ req[h].op = "delete user" =>
              ~Exists(db, Passwd(req[h].user)) /\ ~Exists(db, Group(req[h].user))

(***************************************************************************)
(* The general, SNMP and management pages read back what was put: the      *)
(* settings and servers asked for are there, and, if the present rows      *)
(* could be listed, no other server or community is left.                  *)
(***************************************************************************)
SystemReadBack ==
    \A h \in Handlers : Answered(h) =>
        /\ req[h].op = "general" =>
              /\ get_general(db).hostname = req[h].in.hostname
              /\ req[h].in.ntp \subseteq get_general(db).ntp
              /\ blindReads = 0 => get_general(db) = req[h].in
        /\ req[h].op = "snmp" =>
              /\ get_snmp(db).enabled = req[h].in.enabled
              /\ DOMAIN req[h].in.communities \subseteq DOMAIN get_snmp(db).communities
              /\ blindReads = 0 => get_snmp(db) = req[h].in
        /\ req[h].op = "management" =>
              /\ get_management(db) = req[h].in
              /\ Cardinality(mgmt_rows(db)) <= 1

(***************************************************************************)
(* "restore: write config_db.json + `config reload -y`": when a restore is *)
(* acknowledged, the switch runs the restored configuration.               *)
(***************************************************************************)
RestoreTakes ==
    \A h \in Handlers : Answered(h) /\ req[h].op = "restore" =>
        \A k \in Keys : ~Account(k) => db[k] = req[h].backup[k]
=============================================================================
