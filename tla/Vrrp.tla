------------------------------- MODULE Vrrp -------------------------------
(***************************************************************************)
(* VRRP groups (src/src/sonic/vrrp.rs) behind the "vrrp" mutex, without a  *)
(* batch: a put deletes the row and writes it whole.  A group rides on an  *)
(* interface's addresses, rows of module L3 under another mutex.           *)
(***************************************************************************)
EXTENDS L3

CONSTANTS
    Groups,     \* virtual router ids
    VipLists,   \* virtual_ips bodies, with the addresses they name
    Number,     \* the stored adv_interval strings in use, with their values
    AdvInputs   \* adv_interval_ms bodies

Group(n, vrid) == <<"VRRP", n, vrid>>
VrrpKeys == {Group(n, vrid) : n \in Interfaces, vrid \in Groups}
VrrpFields == {"vip@", "vip", "pre_empt", "preempt", "adv_interval"}
VrrpValues == DOMAIN VipLists \cup DOMAIN Number \cup {"True", "False", "enabled"}

ASSUME VrrpConstants ==
    VrrpKeys \subseteq Keys /\ VrrpFields \subseteq Fields /\ VrrpValues \subseteq Values

\* "values under 100 are treated as seconds"
adv_interval_ms(stored) ==
    IF stored = Absent THEN Absent
    ELSE IF Number[stored] < 100 THEN Number[stored] * 1000 ELSE Number[stored]

\* GET /api/ha/vrrp, less the live role.
get_group(d, n, vrid) ==
    LET row == d[Group(n, vrid)]
    IN  [vips |-> OrElse(row["vip@"], row["vip"]),
         preempt |-> OrElse(OrElse(row["pre_empt"], row["preempt"]), "True") \in {"True", "enabled"},
         adv |-> adv_interval_ms(row["adv_interval"])]

own_addresses(d) == UNION {AddressesOf(d, n) : n \in Interfaces}

\* "Round to the centisecond granularity the daemons take"
rounded(ms) == ((ms + 5) \div 10) * 10
Stored(ms) == IF ms = Absent THEN Absent ELSE CHOOSE s \in DOMAIN Number : Number[s] = rounded(ms)
AdvInRange(ms) == ms # Absent => rounded(ms) >= 100 /\ rounded(ms) <= 40950

\* "Replace the whole row so cleared optionals never linger."
GroupWrites(n, vrid, l, preempt, ms) ==
    <<Del(Group(n, vrid)),
      HSet(Group(n, vrid),
           Given(("vip@" :> l) @@ ("pre_empt" :> IF preempt THEN "True" ELSE "False")
                 @@ ("adv_interval" :> Stored(ms))))>>

\* The interface's addresses are scanned, then those of all interfaces: T
\* names the scan that fails (the second stands for that of any table).
VrrpScans == {"addresses", "own_addresses"}
Scanned(T, scan) == IF scan \in T THEN Blinded({"ip"}) ELSE db
CanCarry(T, n, l) ==
    /\ n \in Ports
    /\ AddressesOf(Scanned(T, "addresses"), n) # {}
    /\ VipLists[l] \cap own_addresses(Scanned(T, "own_addresses")) = {}

put_group(h, T, n, vrid, l, preempt, ms) ==
    \/ AdvInRange(ms) /\ CanCarry(T, n, l)
       /\ Accept(h, "vrrp", GroupWrites(n, vrid, l, preempt, ms), FALSE,
                 [op |-> "group", name |-> n, vrid |-> vrid, vips |-> l,
                  preempt |-> preempt, adv |-> ms])
    \/ ~AdvInRange(ms) /\ Decline(h, "vrrp", 422)
    \/ AdvInRange(ms) /\ ~CanCarry(T, n, l) /\ Decline(h, "vrrp", 400)

delete_group(h, n, vrid) ==
    \/ Exists(db, Group(n, vrid))
       /\ Accept(h, "vrrp", <<Del(Group(n, vrid))>>, FALSE, [op |-> "drop"])
    \/ ~Exists(db, Group(n, vrid)) /\ Decline(h, "vrrp", 404)

VrrpRequest(h, T) ==
    \E n \in Interfaces, vrid \in Groups :
        \/ delete_group(h, n, vrid)
        \/ \E l \in DOMAIN VipLists, preempt \in BOOLEAN, ms \in AdvInputs :
              put_group(h, T, n, vrid, l, preempt, ms)
----------------------------------------------------------------------------
\* a and b differ by at most five.
Near(a, b) == a <= b + 5 /\ b <= a + 5

(***************************************************************************)
(* "milliseconds rounded to centiseconds ...; on read values under 100 are *)
(* treated as seconds": the two spellings never collide.  When the last    *)
(* write of a PUT has been answered, GET shows the group as requested, the *)
(* interval within half a centisecond, whatever row was there before.      *)
(***************************************************************************)
VrrpReadBack ==
    \A h \in Handlers :
        Answered(h) /\ req[h].op = "group" =>
            LET doc == get_group(db, req[h].name, req[h].vrid)
            IN  /\ doc.vips = req[h].vips /\ doc.preempt = req[h].preempt
                /\ IF req[h].adv = Absent THEN doc.adv = Absent ELSE Near(doc.adv, req[h].adv)
=============================================================================
