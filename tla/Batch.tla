------------------------------- MODULE Batch -------------------------------
(***************************************************************************)
(* The write path of Store driven by arbitrary plans: any handler may run  *)
(* any plan of any feature, batched or not.  Each feature's plans touch    *)
(* only rows that its own mutex guards (Owner); the handlers for which     *)
(* that is not so are the subject of other modules.                        *)
(***************************************************************************)
EXTENDS Store

CONSTANTS
    Owner,   \* the feature whose mutex guards each key
    Plans,   \* the command sequences each feature may issue
    Config0, \* CONFIG_DB when the agent starts
    Refusals \* the statuses a validation may refuse a request with

ASSUME BatchConstants ==
    /\ Owner \in [Keys -> Features]
    /\ \A f \in Features : \A p \in Plans[f] :
          /\ p \in Seq(Command)
          /\ \A i \in 1..Len(p) : Owner[p[i].key] = f
    /\ Config0 \in [Keys -> Row]
    /\ Refusals \subseteq Statuses

Init == StoreInit(Config0)

Begin(h) ==
    \E f \in Features : \E p \in Plans[f] : \E batched \in BOOLEAN :
        Admit(h, {f}, p, batched)

Reject(h) ==
    \E f \in Features, status \in Refusals : Refuse(h, {f}, status)

Step(h) ==
    \/ Arrive(h) \/ Begin(h) \/ Reject(h) \/ Run(h)
    \/ \E persist \in BOOLEAN : Commit(h, persist)

Next == Kill \/ Reboot \/ \E h \in Handlers : Step(h)

Spec == Init /\ [][Next]_storeVars

\* A thread that can run does run, up to the agent's next stop.
Progress(h) ==
    Execute(h) \/ Abort(h) \/ Save(h) \/ Respond(h)
    \/ UndoDel(h, TRUE) \/ UndoSet(h, TRUE)
    \/ \E persist \in BOOLEAN : Commit(h, persist)
LiveSpec == Spec /\ \A h \in Handlers : WF_storeVars(Progress(h))
----------------------------------------------------------------------------
Holds(h, k) == lock[Owner[k]] = h

\* The module's type invariant.
TypeOK == StoreTypeOK

(***************************************************************************)
(* store::apply, store.rs Batch: when a failed batch has finished its      *)
(* rollback and no command of the rollback failed, every row the feature   *)
(* guards is what it was when the request was admitted - even if the       *)
(* failing write was applied with its reply lost, and whatever the other   *)
(* features wrote meanwhile.                                               *)
(***************************************************************************)
RollbackRestores ==
    \A h \in Handlers :
        pc[h] = "undoDel" /\ snaps[h] = <<>> /\ ~torn[h]
            => \A k \in Keys : Holds(h, k) => db[k] = pre[h][k]

(***************************************************************************)
(* Why it is so: a handler writes only rows whose mutex it holds; a        *)
(* snapshot is the row the batch found; a held row without a snapshot has  *)
(* not changed since; and between the DEL and the HSET of an undo the row  *)
(* is gone.                                                                *)
(***************************************************************************)
CommandsGuarded(h) ==
    pc[h] \in {"batch", "plain"} =>
        \A i \in 1..Len(todo[h]) : Holds(h, todo[h][i].key)
SnapshotsTrue(h) ==
    InBatch(h) =>
        \A i \in 1..Len(snaps[h]) :
            /\ Holds(h, snaps[h][i].key)
            /\ snaps[h][i].prior = pre[h][snaps[h][i].key]
SnapshotsDistinct(h) ==
    \A i, j \in 1..Len(snaps[h]) : snaps[h][i].key = snaps[h][j].key => i = j
UntouchedSame(h) ==
    InBatch(h) /\ ~torn[h] =>
        \A k \in Keys : Holds(h, k) /\ ~Snapped(h, k) => db[k] = pre[h][k]
HalfUndone(h) ==
    pc[h] = "undoSet" =>
        snaps[h] # <<>> /\ (~torn[h] => db[LastSnap(h).key] = NoRow)
TornWhileUndoing(h) == torn[h] => pc[h] \in {"undoDel", "undoSet"}

HandlerInv(h) ==
    /\ CommandsGuarded(h) /\ SnapshotsTrue(h) /\ SnapshotsDistinct(h)
    /\ UntouchedSame(h) /\ HalfUndone(h) /\ TornWhileUndoing(h)

BatchInv == TypeOK /\ \A h \in Handlers : HandlerInv(h)

\* The database as it would be with the open batches left out.
Committed ==
    [k \in Keys |->
        IF \E h \in Handlers : Holds(h, k) /\ InBatch(h)
        THEN pre[lock[Owner[k]]][k]
        ELSE db[k]]

Abstract == INSTANCE AtomicConfig WITH
    cfg <- Committed, flaw <- (\E h \in Handlers : torn[h]), down <- stops

(***************************************************************************)
(* feature_lock and apply together: seen from outside, a batch happens as  *)
(* a whole at its commit or not at all, unless the agent is stopped first. *)
(***************************************************************************)
AllOrNothing == Abstract!Spec

(***************************************************************************)
(* A mutex that is taken is given back: neither a failed write nor a       *)
(* failed rollback wedges a feature for the requests that come after.      *)
(***************************************************************************)
LockGivenBack == \A f \in Features : lock[f] # NoOne ~> lock[f] = NoOne
=============================================================================
