-------------------------------- MODULE Frr --------------------------------
(***************************************************************************)
(* The pages SONiC has no CONFIG_DB schema for program FRR directly: one   *)
(* `vtysh -c "configure terminal" -c ...` per request, then `write memory` *)
(* where FRR owns its configuration file (vtysh_config, the same code in   *)
(* policy.rs, isis.rs and bfd.rs).                                         *)
(*                                                                         *)
(* FRR is external.  Its running configuration takes the place of          *)
(* CONFIG_DB in Store: a key names a configuration block (with what vtysh  *)
(* identifies it by), a field a statement of the block, and one line of a  *)
(* vtysh batch is one command.  vtysh runs the lines in order and stops at *)
(* the first that FRR refuses: the lines before it stay, which is what     *)
(* Store does with commands outside a batch.  `saved` is the configuration *)
(* FRR boots with.                                                         *)
(***************************************************************************)
EXTENDS Service

VARIABLE split  \* docker_routing_config_mode is split or split-unified

frrVars == <<vars, split>>

\* Statements are <<number, word>> pairs: numbered inside a list or a map, else 0.
Statement(word) == <<0, word>>
\* The line that opens a block creates it, with no statement of its own.
Open(k) == HSetField(k, Statement("opened"), <<"yes">>)
Set(k, word, v) == HSetField(k, Statement(word), v)
No(k, word) == HDel(k, {Statement(word)})
Held(d, k, word) == d[k][Statement(word)]
Switched(k, word, on) == IF on THEN Set(k, word, <<"yes">>) ELSE No(k, word)

\* vtysh_config: the lines, under the page's mutex, then the write memory.
vtysh_config(h, page, lines, r) ==
    /\ Take(h, {page}, lines, FALSE, IF split THEN <<"write memory">> ELSE <<>>, r)
    /\ UNCHANGED <<blindReads, split>>
Refused(h, page, status) == Decline(h, page, status) /\ UNCHANGED <<blindReads, split>>

\* `write memory` exits: best effort, a failure is only logged.
WriteMemory(h) ==
    /\ pc[h] = "plain" /\ todo[h] = <<>> /\ rest[h] # <<>>
    /\ saved' \in {saved, db}
    /\ rest' = [rest EXCEPT ![h] = <<>>]
    /\ UNCHANGED <<db, lock, pc, todo, snaps, code, pre, torn, faults, stops>>
    /\ UNCHANGED <<req, served, blindReads, split>>

\* Everything of a request that does not depend on the page; no config save.
FrrStep(h) ==
    \/ WriteMemory(h)
    \/ (Receive(h) \/ Malformed(h) \/ ReadFault(h) \/ Proceed(h, FALSE)) /\ UNCHANGED split
FrrCrash == Crash /\ UNCHANGED split
=============================================================================
