-------------------------------- MODULE Stp --------------------------------
(***************************************************************************)
(* Spanning tree and loop protection (src/src/sonic/stp.rs), behind the    *)
(* "stp" mutex.  Enabling is one batch; disabling and the per-VLAN and     *)
(* per-port writes are plain commands.                                     *)
(***************************************************************************)
EXTENDS Switching

CONSTANTS
    MaxStpInst,     \* STATE_DB max_stp_inst: instances stpd can run
    ForwardDelays,  \* values of the three timers, within their ranges
    HelloTimes,
    MaxAges

StpGlobal == <<"STP", "GLOBAL">>
StpMst == <<"STP_MST", "GLOBAL">>
StpVlan(i) == <<"STP_VLAN", i>>
StpPort(n) == <<"STP_PORT", n>>
StpKeys ==
    {StpGlobal, StpMst} \cup {StpVlan(i) : i \in VlanIds} \cup {StpPort(n) : n \in Members}
StpFields == {"mode", "forward_delay", "hello_time", "max_age", "enabled", "priority",
              "bpdu_guard", "name", "NULL"}
StpValues ==
    {"pvst", "mst", "true", "false", "set", "up", "NULL", "2", "15", "20"}
    \cup ForwardDelays \cup HelloTimes \cup MaxAges

Seconds == [s \in {"1", "2", "4", "6", "9", "15", "20"} |->
              CASE s = "1" -> 1 [] s = "2" -> 2 [] s = "4" -> 4 [] s = "6" -> 6
                [] s = "9" -> 9 [] s = "15" -> 15 [] s = "20" -> 20]

ASSUME StpConstants ==
    /\ StpKeys \subseteq Keys /\ StpFields \subseteq Fields /\ StpValues \subseteq Values
    /\ MaxStpInst \in Nat
    /\ ForwardDelays \cup HelloTimes \cup MaxAges \subseteq DOMAIN Seconds

Defaults == [forward_delay |-> "15", hello_time |-> "2", max_age |-> "20"]
DEF_MAX_STP_INST == 255

----------------------------------------------------------------------------
\* Every VLAN member, and whatever already has an STP_PORT row.
l2_interfaces(d) ==
    {n \in Members : (\E i \in VlanIds : Exists(d, VlanMember(i, n))) \/ Exists(d, StpPort(n))}

\* An absent "enabled" follows the global switch.
enabled_of(d, k) ==
    CASE d[k]["enabled"] = "true" -> TRUE [] d[k]["enabled"] = "false" -> FALSE
      [] OTHER -> Exists(d, StpGlobal)

\* GET /api/switching/spanning-tree, the configured part.
get_stp(d) ==
    [global |-> IF ~Exists(d, StpGlobal) THEN Absent
                ELSE [f \in DOMAIN Defaults |-> OrElse(d[StpGlobal][f], Defaults[f])]
                     @@ [mode |-> OrElse(d[StpGlobal]["mode"], "pvst"),
                         region |-> d[StpMst]["name"]],
     vlans |-> [i \in {j \in VlanIds : Exists(d, Vlan(j)) \/ Exists(d, StpVlan(j))} |->
                  [enabled |-> enabled_of(d, StpVlan(i)),
                   forward_delay |-> d[StpVlan(i)]["forward_delay"]]],
     ports |-> [n \in l2_interfaces(d) |->
                  [enabled |-> enabled_of(d, StpPort(n)),
                   priority |-> d[StpPort(n)]["priority"],
                   bpdu_guard |-> d[StpPort(n)]["bpdu_guard"] = "true"]]]

(***************************************************************************)
(* The IEEE relation 2*(forward_delay-1) >= max_age >= 2*(hello_time+1).   *)
(***************************************************************************)
check_timer_relation(t) ==
    /\ 2 * (Seconds[t.forward_delay] - 1) >= Seconds[t.max_age]
    /\ Seconds[t.max_age] >= 2 * (Seconds[t.hello_time] + 1)

\* Effective values: payload, else current row, else PVST defaults.
effective(in) ==
    [f \in DOMAIN Defaults |-> OrElse(in[f], OrElse(db[StpGlobal][f], Defaults[f]))]

Enable(k) == HSet(k, [enabled |-> "true"])
Seeds(d) ==
    LET ks == SetToSeq({StpVlan(i) : i \in {j \in VlanIds : Exists(db, Vlan(j))}})
              \o SetToSeq({StpPort(n) : n \in l2_interfaces(d)})
    IN  [j \in DOMAIN ks |-> Enable(ks[j])]

\* Mutant of MstRow: a region that was given is not written.
MstRowBare(in) == Marker
MstRow(in) == IF in.region = Absent THEN Marker ELSE [name |-> in.region]

\* Mutant of GlobalWrites: an absent timer goes back to its default.
GlobalWritesDefaults(d, in) ==
    <<HSet(StpGlobal, [mode |-> in.mode] @@ [f \in DOMAIN Defaults |-> OrElse(in[f], Defaults[f])])>>
    \o (IF Exists(db, StpGlobal) THEN <<>> ELSE Seeds(d))
\* Enabling seeds the interfaces that the scans behind d show.
GlobalWrites(d, in) ==
    <<HSet(StpGlobal, [mode |-> in.mode] @@ effective(in))>>
    \o (IF in.mode # "mst" THEN <<>>
        ELSE <<HSet(StpMst, MstRow(in))>>)
    \o (IF Exists(db, StpGlobal) THEN <<>> ELSE Seeds(d))

\* Readings that degrade: T names the tables whose scan or row fails.
StpScans == {"STP_TABLE", "STP_VLAN", "STP_PORT", "VLAN_MEMBER"}
max_stp_instances(T) == IF "STP_TABLE" \in T THEN DEF_MAX_STP_INST ELSE MaxStpInst

\* Enabling may not start more instances than stpd can run.
fits_instances(T) ==
    Cardinality({i \in VlanIds : Exists(db, Vlan(i))}) <= max_stp_instances(T)

StpRows == {k \in StpKeys : Exists(db, k)}

disable ==
    (IF Exists(db, StpGlobal) THEN <<Del(StpGlobal)>> ELSE <<>>) \o Dels(StpRows \ {StpGlobal})

\* The limit and the interfaces matter only when spanning tree is enabled.
put_stp_global(h, T, in) ==
    LET enabling == ~Exists(db, StpGlobal)
    IN  \/ in.mode = "disabled" /\ Accept(h, "stp", disable, FALSE, [op |-> "stpoff"])
        \/ /\ in.mode # "disabled" /\ check_timer_relation(effective(in))
           /\ enabling => fits_instances(T)
           /\ Accept(h, "stp", GlobalWrites(Blinded(T), in), TRUE, [op |-> "stpglobal", doc |-> in])
        \/ in.mode # "disabled" /\ ~check_timer_relation(effective(in)) /\ Decline(h, "stp", 400)
        \/ /\ in.mode # "disabled" /\ check_timer_relation(effective(in))
           /\ enabling /\ ~fits_instances(T)
           /\ Decline(h, "stp", 422)

----------------------------------------------------------------------------
\* VLANs with an STP_VLAN row, as d shows it, that counts as an instance, but for i.
OthersOn(d, i) ==
    {j \in VlanIds \ {i} : Exists(db, StpVlan(j)) /\ d[StpVlan(j)]["enabled"] # "false"}

\* Mutant of within_limit: the VLAN itself is not counted.
WithinLimitOthers(T, i) == Cardinality(OthersOn(Blinded(T), i)) <= max_stp_instances(T)
within_limit(T, i) == Cardinality(OthersOn(Blinded(T), i)) + 1 <= max_stp_instances(T)

\* An override is set, removed (null: inherit again) or left alone (Keep).
Override(k, f, v) == IF v = Keep THEN <<>> ELSE <<Optional(k, f, v)>>
Bool(b) == IF b THEN "true" ELSE "false"

put_stp_vlan(h, T, i, enabled, delay) ==
    LET ready == Exists(db, Vlan(i)) /\ Exists(db, StpGlobal)
    IN  \/ /\ ready /\ (enabled => within_limit(T, i))
           /\ Accept(h, "stp", <<HSet(StpVlan(i), [enabled |-> Bool(enabled)])>>
                               \o Override(StpVlan(i), "forward_delay", delay), FALSE,
                     [op |-> "stpvlan", id |-> i, enabled |-> enabled, delay |-> delay])
        \/ ~Exists(db, Vlan(i)) /\ Decline(h, "stp", 404)
        \/ Exists(db, Vlan(i)) /\ ~Exists(db, StpGlobal) /\ Decline(h, "stp", 409)
        \/ ready /\ enabled /\ ~within_limit(T, i) /\ Decline(h, "stp", 422)

interface_exists(n) == n \in Lags => Exists(db, Lag(n))

\* "priority" stands for the overrides, "bpdu_guard" for the switches.
put_stp_port(h, n, enabled, priority, guard) ==
    \/ /\ interface_exists(n) /\ Exists(db, StpGlobal)
       /\ Accept(h, "stp", <<HSet(StpPort(n), [enabled |-> Bool(enabled)])>>
                           \o Override(StpPort(n), "priority", priority)
                           \o (IF guard = Keep THEN <<>>
                               ELSE <<HSet(StpPort(n), [bpdu_guard |-> guard])>>), FALSE,
                 [op |-> "stpport", name |-> n, enabled |-> enabled, priority |-> priority, guard |-> guard])
    \/ ~interface_exists(n) /\ Decline(h, "stp", 404)
    \/ interface_exists(n) /\ ~Exists(db, StpGlobal) /\ Decline(h, "stp", 409)

\* Loop protection: "touches only the three guard fields".
put_loop_port(h, n, guard) ==
    \/ interface_exists(n)
       /\ Accept(h, "stp", <<HSet(StpPort(n), [bpdu_guard |-> guard])>>, FALSE, [op |-> "loop", name |-> n, guard |-> guard])
    \/ ~interface_exists(n) /\ Decline(h, "stp", 404)

\* Re-enable a port that BPDU guard has shut; shut is what APPL_DB says.
recover_port(h, n, shut) ==
    \/ interface_exists(n) /\ shut
       /\ Accept(h, "stp", <<HSet(IF n \in Lags THEN Lag(n) ELSE Port(n), [admin_status |-> "up"])>>,
                 FALSE, [op |-> "recover", name |-> n])
    \/ ~interface_exists(n) /\ Decline(h, "stp", 404)
    \/ interface_exists(n) /\ ~shut /\ Decline(h, "stp", 409)

TimerInputs ==
    [forward_delay : ForwardDelays \cup {Absent}, hello_time : HelloTimes \cup {Absent},
     max_age : MaxAges \cup {Absent}]
GlobalInputs ==
    {[mode |-> "disabled", region |-> Absent] @@ [f \in DOMAIN Defaults |-> Absent]}
    \cup {[mode |-> m, region |-> r] @@ t : m \in {"pvst", "mst"}, r \in Option, t \in TimerInputs}

StpRequest(h) ==
    \/ \E T \in SUBSET (StpScans \ {"STP_VLAN"}) :
          /\ T # {} => ~Exists(db, StpGlobal)
          /\ Blindness(T)
          /\ \E in \in GlobalInputs : put_stp_global(h, T, in)
    \/ \E T \in SUBSET {"STP_TABLE", "STP_VLAN"}, i \in VlanIds, enabled \in BOOLEAN :
          /\ T # {} => enabled
          /\ Blindness(T)
          /\ \E delay \in ForwardDelays \cup {Absent, Keep} :
                put_stp_vlan(h, T, i, enabled, delay)
    \/ UNCHANGED blindReads /\ \E n \in Members :
          \/ \E guard \in {"true", "false"} :
                \/ put_loop_port(h, n, guard)
                \/ \E enabled \in BOOLEAN, priority \in Option \cup {Keep} :
                      put_stp_port(h, n, enabled, priority, IF priority = Keep THEN guard ELSE Keep)
          \/ \E shut \in BOOLEAN : recover_port(h, n, shut)
----------------------------------------------------------------------------
(***************************************************************************)
(* put_global checks the relation "on what will actually be in effect":    *)
(* whatever mixture of requested, configured and default timers a sequence *)
(* of PUTs, restarts and one failure leaves, the global timers GET shows   *)
(* satisfy the IEEE relation.  (A second failure, of the DEL a rollback    *)
(* starts with, is ignored: the HSET after it puts back only the timers    *)
(* the row had, beside the new ones.  put_vlan checks ranges only, so a    *)
(* VLAN's effective timers need not satisfy the relation either.)          *)
(***************************************************************************)
GlobalTimersSane ==
    faults < 2 /\ get_stp(db).global # Absent => check_timer_relation(get_stp(db).global)

(***************************************************************************)
(* "Enabling one more instance must stay within the platform limit": the   *)
(* VLANs with a spanning-tree instance never outnumber what stpd can run,  *)
(* whether they were enabled one by one or all at once, provided that the  *)
(* limit could be read (without it, 255 is assumed).  (After a disable     *)
(* that stopped half way they may: put_global counts VLANs, not rows.)     *)
(***************************************************************************)
InstancesWithinLimit ==
    Exists(db, StpGlobal) /\ faults = 0 /\ stops = 0 /\ blindReads = 0 =>
        Cardinality({i \in VlanIds : Exists(db, StpVlan(i)) /\ db[StpVlan(i)]["enabled"] # "false"})
            <= MaxStpInst

\* What GET shows of a global document that was put on the database "was": a
\* timer left out stays or gets its default, the region is taken in MST mode
\* only, and enabling switches every VLAN and interface on that it finds.
GlobalTaken(doc, was) ==
    LET stp == get_stp(db)
    IN  /\ stp.global # Absent
        /\ stp.global.mode = doc.mode
        /\ \A f \in DOMAIN Defaults :
              stp.global[f] = OrElse(doc[f], OrElse(was[StpGlobal][f], Defaults[f]))
        /\ stp.global.region =
              IF doc.mode = "mst" THEN OrElse(doc.region, was[StpMst]["name"]) ELSE was[StpMst]["name"]
        /\ ~Exists(was, StpGlobal) =>
              /\ \A i \in VlanIds : Exists(was, Vlan(i)) => stp.vlans[i].enabled
              /\ blindReads = 0 => \A n \in DOMAIN stp.ports : stp.ports[n].enabled

(***************************************************************************)
(* A PUT shows in GET when its last write is answered, an override that    *)
(* was removed as inherited again and a setting left out as it was; after  *)
(* a disable no row of spanning tree is left, so that the next enable      *)
(* starts afresh.  (A recover has no document: the port is up again.)      *)
(***************************************************************************)
StpReadBack ==
    \A h \in Handlers :
        Answered(h) =>
            LET r == req[h]  ports == get_stp(db).ports
            IN  CASE r.op = "stpoff" -> StpRows = {}
                  [] r.op = "stpglobal" -> GlobalTaken(r.doc, pre[h])
                  [] r.op = "stpvlan" ->
                        /\ get_stp(db).vlans[r.id].enabled = r.enabled
                        /\ r.delay # Keep => get_stp(db).vlans[r.id].forward_delay = r.delay
                  [] r.op = "stpport" ->
                        /\ ports[r.name].enabled = r.enabled
                        /\ r.priority # Keep => ports[r.name].priority = r.priority
                        /\ r.guard # Keep => ports[r.name].bpdu_guard = (r.guard = "true")
                  [] r.op = "loop" -> ports[r.name].bpdu_guard = (r.guard = "true")
                  [] r.op = "recover" ->
                        db[IF r.name \in Lags THEN Lag(r.name) ELSE Port(r.name)]["admin_status"] = "up"
                  [] OTHER -> TRUE
=============================================================================
