------------------------------ MODULE MCBatch ------------------------------
(***************************************************************************)
(* Two features, the first guarding two rows and the second one.  k1 and   *)
(* k3 start with one of their two fields, k2 without a row.  One plan      *)
(* deletes a row, creates another and comes back to the first; the other   *)
(* sets and removes single fields.                                         *)
(***************************************************************************)
EXTENDS Batch, TLC

CONSTANTS k1, k2, k3, fa, fb, v, w, f1, f2

Filled(x) == [f \in Fields |-> x]

MCOwner == k1 :> fa @@ k2 :> fa @@ k3 :> fb
Rewrite == <<Del(k1), HSet(k2, Filled(v)), HSet(k1, f1 :> w)>>
Amend == <<HSet(k3, f2 :> w), HDel(k3, {f1})>>
MCPlans == fa :> {Rewrite} @@ fb :> {Amend}
MCConfig0 ==
    k1 :> [NoRow EXCEPT ![f1] = v] @@ k2 :> NoRow @@ k3 :> [NoRow EXCEPT ![f1] = v]
=============================================================================
