-------------------------------- MODULE L3 --------------------------------
(***************************************************************************)
(* Layer-3 interfaces and VRFs (src/src/sonic/l3.rs): every write holds    *)
(* the "l3" mutex from its first read to its last write.  Interface writes *)
(* go through store::apply, VRF writes and loopback deletion do not.       *)
(***************************************************************************)
EXTENDS Service

CONSTANTS
    Ports,         \* interfaces whose PORT row always exists
    Loopbacks,     \* names accepted by valid_loopback_name
    Addresses,     \* well-formed CIDRs
    Vrfs,          \* names accepted by valid_vrf_name
    Vnis           \* values accepted by check_vni

Interfaces == Ports \cup Loopbacks
Attr(n) == <<"attr", n>>     \* INTERFACE|n or LOOPBACK_INTERFACE|n
Ip(n, a) == <<"ip", n, a>>   \* INTERFACE|n|a
Vrf(v) == <<"vrf", v>>       \* VRF|v

L3Keys ==
    {Attr(n) : n \in Interfaces} \cup {Vrf(v) : v \in Vrfs}
    \cup {Ip(n, a) : n \in Interfaces, a \in Addresses}
L3Fields == {"vrf_name", "NULL", "fallback", "vni"}
L3Values == Vrfs \cup Vnis \cup {"NULL", "true", "false"}

ASSUME L3Constants ==
    /\ L3Keys \subseteq Keys
    /\ L3Fields \subseteq Fields
    /\ L3Values \subseteq Values
    /\ "l3" \in Features
    /\ Ports \cap Loopbacks = {} /\ IsFiniteSet(Addresses)
    /\ Configs0 \subseteq [Keys -> Row]

----------------------------------------------------------------------------
\* What a database d says.
AddressesOf(d, n) == {a \in Addresses : Exists(d, Ip(n, a))}
VrfOf(d, n) == d[Attr(n)]["vrf_name"]
IpRows(n, ips) == {Ip(n, a) : a \in ips}
BoundTo(d, v) == {n \in Interfaces : VrfOf(d, n) = v}

\* Reads with store::keys and store::row turn a failed read into "nothing".
Blindly(blind) ==
    /\ blind => blindReads < MaxBlindReads
    /\ blindReads' = IF blind THEN blindReads + 1 ELSE blindReads

(***************************************************************************)
(* A port's row is always there; a loopback exists iff it has rows, and    *)
(* looks absent if the scan for them failed (blind).                       *)
(***************************************************************************)
base_exists(n, blind) ==
    \/ n \in Ports
    \/ ~blind /\ (Exists(db, Attr(n)) \/ AddressesOf(db, n) # {})

\* An absent vrf is the default VRF; cidr syntax is checked by Malformed.
check_input(vrf) == vrf # Absent => Exists(db, Vrf(vrf))

(***************************************************************************)
(* converge: drop the stale addresses (all of them when the VRF changes),  *)
(* rewrite the attribute row, then add the missing addresses.              *)
(***************************************************************************)
vrf_changed(n, vrf) == VrfOf(db, n) # vrf

\* Mutant of stale: only the unwanted addresses go, VRF change or not.
StaleUnwanted(n, vrf, ips) == AddressesOf(db, n) \ ips
stale(n, vrf, ips) ==
    IF vrf_changed(n, vrf) THEN AddressesOf(db, n) ELSE AddressesOf(db, n) \ ips

\* Mutant of missing: the addresses dropped for a VRF change are not put back.
MissingNew(n, vrf, ips) == ips \ AddressesOf(db, n)
missing(n, vrf, ips) ==
    IF vrf_changed(n, vrf) THEN ips ELSE ips \ AddressesOf(db, n)

attribute(n, vrf, ips) ==
    IF vrf # Absent
    THEN <<HSet(Attr(n), [vrf_name |-> vrf]), HDel(Attr(n), {"NULL"})>>
    ELSE IF ips # {}
    THEN <<HDel(Attr(n), {"vrf_name"}), HSet(Attr(n), Marker)>>
    ELSE <<Del(Attr(n))>>

\* Mutant of converge: the attribute row is written last.
ConvergeParentLast(n, vrf, ips) ==
    Dels(IpRows(n, stale(n, vrf, ips)))
    \o Marks(IpRows(n, missing(n, vrf, ips)))
    \o attribute(n, vrf, ips)
converge(n, vrf, ips) ==
    Dels(IpRows(n, stale(n, vrf, ips)))
    \o attribute(n, vrf, ips)
    \o Marks(IpRows(n, missing(n, vrf, ips)))

write_vrf_fields(v, fallback, vni) ==
    <<HSet(Vrf(v), [fallback |-> fallback]),
      IF vni = Absent THEN HDel(Vrf(v), {"vni"}) ELSE HSet(Vrf(v), [vni |-> vni])>>

----------------------------------------------------------------------------
put_interface(h, n, vrf, ips, blind) ==
    /\ \/ base_exists(n, blind) /\ check_input(vrf)
          /\ Accept(h, "l3", converge(n, vrf, ips), TRUE,
                    [op |-> "put", name |-> n, vrf |-> vrf, ips |-> ips])
       \/ ~base_exists(n, blind) /\ Decline(h, "l3", 404)
       \/ base_exists(n, blind) /\ ~check_input(vrf) /\ Decline(h, "l3", 400)
    /\ Blindly(blind)

create_loopback(h, n, vrf, ips, blind) ==
    /\ n \in Loopbacks
    /\ \/ ~base_exists(n, blind) /\ check_input(vrf)
          /\ Accept(h, "l3", converge(n, vrf, ips), TRUE,
                    [op |-> "create", name |-> n, vrf |-> vrf, ips |-> ips])
       \/ (base_exists(n, blind) \/ ~check_input(vrf)) /\ Decline(h, "l3", 400)
    /\ Blindly(blind)

\* Only loopbacks; the address rows go first.
delete_interface(h, n, blind) ==
    /\ \/ n \in Loopbacks /\ base_exists(n, blind)
          /\ Accept(h, "l3", Append(Dels(IpRows(n, AddressesOf(db, n))), Del(Attr(n))), FALSE,
                    [op |-> "delete", name |-> n])
       \/ n \notin Loopbacks /\ Decline(h, "l3", 400)
       \/ n \in Loopbacks /\ ~base_exists(n, blind) /\ Decline(h, "l3", 404)
    /\ Blindly(blind)

create_vrf(h, v, fallback, vni) ==
    /\ \/ ~Exists(db, Vrf(v))
          /\ Accept(h, "l3", write_vrf_fields(v, fallback, vni), FALSE, [op |-> "vrf"])
       \/ Exists(db, Vrf(v)) /\ Decline(h, "l3", 400)
    /\ UNCHANGED blindReads

update_vrf(h, v, fallback, vni) ==
    /\ \/ Exists(db, Vrf(v))
          /\ Accept(h, "l3", write_vrf_fields(v, fallback, vni), FALSE, [op |-> "vrf"])
       \/ ~Exists(db, Vrf(v)) /\ Decline(h, "l3", 404)
    /\ UNCHANGED blindReads

\* Mutant of delete_vrf: nothing is asked about the interfaces bound to it.
DeleteVrfBound(h, v) ==
    /\ UNCHANGED blindReads
    /\ \/ Exists(db, Vrf(v)) /\ Accept(h, "l3", <<Del(Vrf(v))>>, FALSE, [op |-> "vrf"])
       \/ ~Exists(db, Vrf(v)) /\ Decline(h, "l3", 404)

(***************************************************************************)
(* l3_rows reads each attribute row with store::row: the interfaces in     *)
(* unread are those whose row could not be read.                           *)
(***************************************************************************)
delete_vrf(h, v) ==
    /\ \/ /\ Exists(db, Vrf(v))
          /\ \E unread \in SUBSET BoundTo(db, v) :
                /\ Blindly(unread # {})
                /\ IF BoundTo(db, v) \ unread = {}
                   THEN Accept(h, "l3", <<Del(Vrf(v))>>, FALSE, [op |-> "vrf"])
                   ELSE Decline(h, "l3", 409)
       \/ ~Exists(db, Vrf(v)) /\ Decline(h, "l3", 404) /\ UNCHANGED blindReads

InterfaceRequest(h) ==
    \E n \in Interfaces, blind \in BOOLEAN :
        \/ \E vrf \in Vrfs \cup {Absent}, ips \in SUBSET Addresses :
              put_interface(h, n, vrf, ips, blind) \/ create_loopback(h, n, vrf, ips, blind)
        \/ delete_interface(h, n, blind)

VrfRequest(h) ==
    \E v \in Vrfs :
        \/ delete_vrf(h, v)
        \/ \E fallback \in {"true", "false"}, vni \in Vnis \cup {Absent} :
              create_vrf(h, v, fallback, vni) \/ update_vrf(h, v, fallback, vni)

Next ==
    \/ \E h \in Handlers :
        \/ Receive(h) \/ Malformed(h) \/ Finish(h)
        \/ pc[h] = "queued" /\ (InterfaceRequest(h) \/ VrfRequest(h))
    \/ Crash

Spec == Init /\ [][Next]_vars
----------------------------------------------------------------------------
BindingsValid(d) ==
    \A n \in Interfaces : VrfOf(d, n) # Absent => Exists(d, Vrf(VrfOf(d, n)))

(***************************************************************************)
(* check_input and delete_vrf: no interface is ever bound to a VRF that is *)
(* not there, in redis or in the saved file, through failed writes,        *)
(* rollbacks, kills and reboots, as long as no row read degraded to an     *)
(* empty one: delete_vrf takes an interface whose row it cannot read for   *)
(* an unbound one, and deletes the VRF under it.                           *)
(***************************************************************************)
BoundVrfExists == blindReads = 0 => BindingsValid(db) /\ BindingsValid(saved)

(***************************************************************************)
(* converge and delete_interface order their writes so that an address row *)
(* always has its interface's attribute row, even if the agent is killed   *)
(* between two of them.  (An undo deletes the attribute row before it      *)
(* writes it back, so this is said of the writes before a first failure.)  *)
(***************************************************************************)
AddressesHaveParent ==
    faults = 0 =>
        \A n \in Interfaces : AddressesOf(db, n) # {} => Exists(db, Attr(n))

(***************************************************************************)
(* converge: "all of them on a VRF change (SONiC refuses rebinding while   *)
(* addresses exist)": an attribute row changes VRF only while the          *)
(* interface has no address, on whatever rows earlier failures left.  (The *)
(* undo of a rollback and a reboot, which loads another database, are not  *)
(* sequenced that way.)                                                    *)
(***************************************************************************)
RebindOnlyWhenBare ==
    [][stops' = stops /\ (\A h \in Handlers : pc[h] \notin {"undoDel", "undoSet"}) =>
         \A n \in Interfaces :
            VrfOf(db, n) # VrfOf(db', n) => AddressesOf(db, n) = {}]_vars

(***************************************************************************)
(* put_interface: when the last write of a PUT has been answered, the      *)
(* interface has exactly the requested VRF and addresses, whatever the     *)
(* other handler was doing.                                                *)
(***************************************************************************)
Converged ==
    \A h \in Handlers :
        pc[h] = "batch" /\ todo[h] = <<>> =>
            /\ VrfOf(db, req[h].name) = req[h].vrf
            /\ AddressesOf(db, req[h].name) = req[h].ips
=============================================================================
