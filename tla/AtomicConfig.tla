---------------------------- MODULE AtomicConfig ----------------------------
(***************************************************************************)
(* What store::apply (src/src/sonic/store.rs) promises of CONFIG_DB: the   *)
(* committed configuration moves only by whole batches, or by single       *)
(* commands of handlers that do not batch, unless a command of a rollback  *)
(* itself fails or the agent is stopped in the middle of one.              *)
(***************************************************************************)
EXTENDS Naturals, Sequences

CONSTANTS Keys, Fields, Values, Absent, Keep, Features, Plans

VARIABLES cfg,   \* the configuration, in-flight batches not counted
          flaw,  \* a rollback command has failed
          down   \* how often the agent was killed or the switch rebooted

Configs == [Keys -> [Fields -> Values \cup {Absent}]]

Patch(row, upd) ==
    [f \in Fields |-> IF upd[f] = Keep THEN row[f] ELSE upd[f]]
One(c, cmd) == [c EXCEPT ![cmd.key] = Patch(c[cmd.key], cmd.upd)]

\* A field ends up as the last of the first n commands that decides it says.
Deciding(plan, n, k, f) ==
    {i \in 1..n : plan[i].key = k /\ plan[i].upd[f] # Keep}
Latest(S) == CHOOSE i \in S : \A j \in S : j <= i
After(c, plan, n) ==
    [k \in Keys |-> [f \in Fields |->
        LET S == Deciding(plan, n, k, f)
        IN  IF S = {} THEN c[k][f] ELSE plan[Latest(S)].upd[f]]]
Whole(c, plan) == After(c, plan, Len(plan))

Batch == \E f \in Features : \E p \in Plans[f] : cfg' = Whole(cfg, p)
Single ==
    \E f \in Features : \E p \in Plans[f] :
        \E i \in 1..Len(p) : cfg' = One(cfg, p[i])
Tear == flaw /\ cfg' \in Configs
Stop == down' = down + 1 /\ flaw' = FALSE /\ cfg' \in Configs

Init == cfg \in Configs /\ flaw = FALSE /\ down = 0
Write == (Batch \/ Single \/ Tear \/ UNCHANGED cfg) /\ flaw' \in BOOLEAN /\ UNCHANGED down

Next == Write \/ Stop

vars == <<cfg, flaw, down>>
Spec == Init /\ [][Next]_vars
=============================================================================
