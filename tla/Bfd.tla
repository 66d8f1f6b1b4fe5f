-------------------------------- MODULE Bfd --------------------------------
(***************************************************************************)
(* Configured BFD peers (src/src/sonic/bfd.rs).  FRR keys a peer block by  *)
(* address, local address, interface, VRF and multihop; the API identifies *)
(* a peer by the same without the local address.                           *)
(***************************************************************************)
EXTENDS Frr

CONSTANTS
    PeerInputs,  \* PeerInput bodies
    PeerKeys,    \* PeerKey bodies of a delete: [peer, ifc, vrf, multihop]
    Addresses    \* spelling of an address -> [addr, family], unparsable ones left out

ASSUME BfdConstants == Absent \notin Keys

PeerRows(d) == {k \in Keys : k[1] = "peer" /\ Exists(d, k)}

\* The settings of a peer, as the statements of its block.
Settings == {"receive-interval", "transmit-interval", "detect-multiplier", "passive-mode", "shutdown"}

\* parse_running_bfd: the settings of a block that are not the default.
PeerDoc(d, k) == Given([s \in Settings |-> Held(d, k, s)])
----------------------------------------------------------------------------
Parses(spelling) == spelling \in DOMAIN Addresses
Addr(spelling) == Addresses[spelling].addr

PeerOK(in) ==
    /\ Parses(in.peer)
    /\ in.local # Absent =>
          Parses(in.local) /\ Addresses[in.local].family = Addresses[in.peer].family
    /\ in.multihop => in.local # Absent /\ in.ifc = Absent
    /\ \A v \in {in.rx, in.tx} \ {Absent} : v \in 10..60000
    /\ in.mult # Absent => in.mult \in 2..255

\* Mutant of same_identity: addresses are compared as they are spelled.
SameSpelling(k, in) ==
    k[2] = in.peer /\ k[4] = in.ifc /\ k[5] = in.vrf /\ k[6] = in.multihop

\* The row's own address is the one FRR prints.
same_identity(k, in) ==
    k[2] = Addr(in.peer) /\ k[4] = in.ifc /\ k[5] = in.vrf /\ k[6] = in.multihop

\* The first configured peer with that identity.
Configured(d, in) ==
    LET same == {k \in PeerRows(d) : same_identity(k, in)}
    IN  IF same = {} THEN {Absent} ELSE same

\* What FRR makes of the identity line.
identity_of(in) ==
    <<"peer", Addr(in.peer), IF in.local = Absent THEN Absent ELSE Addr(in.local),
      in.ifc, in.vrf, in.multihop>>

GivenLine(k, word, v) == IF v = Absent THEN <<>> ELSE <<Set(k, word, <<word, v>>)>>
PeerLines(in) ==
    LET k == identity_of(in)
    IN  <<Open(k)>> \o GivenLine(k, "receive-interval", in.rx) \o
        GivenLine(k, "transmit-interval", in.tx) \o GivenLine(k, "detect-multiplier", in.mult) \o
        (IF in.passive THEN <<Set(k, "passive-mode", <<"yes">>)>> ELSE <<>>) \o
        <<Switched(k, "shutdown", in.shutdown)>>

\* Mutant of ReplaceLines: the block to remove is named by the new body.
ReplaceLinesNamed(cur, in) ==
    (IF cur = Absent THEN <<>> ELSE <<Del(identity_of(in))>>) \o PeerLines(in)

\* The block of that identity goes, with whatever local address it carries.
ReplaceLines(cur, in) ==
    (IF cur = Absent THEN <<>> ELSE <<Del(cur)>>) \o PeerLines(in)

put_peer(h, in) ==
    \/ ~PeerOK(in) /\ Refused(h, "bfd", 400)
    \/ /\ PeerOK(in)
       /\ \E cur \in Configured(db, in) :
             vtysh_config(h, "bfd", ReplaceLines(cur, in), [op |-> "put peer", in |-> in])

delete_peer(h, in) ==
    \/ ~Parses(in.peer) /\ Refused(h, "bfd", 400)
    \/ /\ Parses(in.peer)
       /\ \E cur \in Configured(db, in) :
             \/ cur = Absent /\ Refused(h, "bfd", 404)
             \/ cur # Absent /\ vtysh_config(h, "bfd", <<Del(cur)>>, [op |-> "delete peer", in |-> in])

BfdRequest(h) ==
    (\E in \in PeerInputs : put_peer(h, in)) \/ (\E in \in PeerKeys : delete_peer(h, in))
----------------------------------------------------------------------------
(***************************************************************************)
(* The API shows one peer per identity although FRR, which also keys by    *)
(* local address, would hold two: no sequence of puts that move a peer to  *)
(* another local address, overlapping or failing half way, makes a second. *)
(***************************************************************************)
OnePeerPerIdentity ==
    \A k, l \in PeerRows(db) :
        (\A i \in {2, 4, 5, 6} : k[i] = l[i]) => k = l

\* The settings a body asks for, defaults left out.
Asked(in) ==
    Given([s \in Settings |->
        CASE s = "receive-interval" -> IF in.rx = Absent THEN Absent ELSE <<s, in.rx>>
          [] s = "transmit-interval" -> IF in.tx = Absent THEN Absent ELSE <<s, in.tx>>
          [] s = "detect-multiplier" -> IF in.mult = Absent THEN Absent ELSE <<s, in.mult>>
          [] s = "passive-mode" -> IF in.passive THEN <<"yes">> ELSE Absent
          [] s = "shutdown" -> IF in.shutdown THEN <<"yes">> ELSE Absent])

(***************************************************************************)
(* After an accepted put, the peer has the settings of the body and none   *)
(* of an earlier one, however the address was spelled and whatever local   *)
(* address it had before; after a delete the identity is gone.             *)
(***************************************************************************)
BfdReadBack ==
    \A h \in Handlers : Answered(h) =>
        CASE req[h].op = "put peer" ->
                 /\ Configured(db, req[h].in) = {identity_of(req[h].in)}
                 /\ PeerDoc(db, identity_of(req[h].in)) = Asked(req[h].in)
          [] req[h].op = "delete peer" -> Configured(db, req[h].in) = {Absent}
          [] OTHER -> TRUE
=============================================================================
