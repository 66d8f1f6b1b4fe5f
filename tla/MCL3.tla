------------------------------- MODULE MCL3 -------------------------------
(***************************************************************************)
(* One port, one loopback, two addresses, two VRFs.  The switch starts     *)
(* with the port bound to the first VRF with one address, or bare.         *)
(***************************************************************************)
EXTENDS L3, TLC

CONSTANTS p, lo, a1, a2, v1, v2

MCVrfs == [k \in Keys |-> IF k \in {Vrf(v1), Vrf(v2)}
                          THEN [NoRow EXCEPT !["fallback"] = "false"] ELSE NoRow]
MCBound == [MCVrfs EXCEPT ![Attr(p)]["vrf_name"] = v1,
                          ![Ip(p, a1)]["NULL"] = "NULL"]
MCConfigs == {MCVrfs, MCBound}
HandlerSymmetry == Permutations(Handlers)
=============================================================================
