------------------------------- MODULE Store -------------------------------
(***************************************************************************)
(* The write path every configuration feature shares: the SONiC CONFIG_DB  *)
(* rows, the per-feature lock, the rolled-back-on-error write batch        *)
(* (src/src/sonic/store.rs) and the trailing `config save -y` of the       *)
(* management API (src/src/sonic/mgmtapi.rs).                              *)
(*                                                                         *)
(* Feature modules EXTEND this one: they compute a plan (the redis write   *)
(* commands of one request, in the order the code issues them) and hand it *)
(* to Admit; the actions below execute it one redis command at a time.     *)
(* Module Batch drives the same actions with arbitrary plans, so what is   *)
(* shown there holds of every feature whose rows its own mutex guards.     *)
(***************************************************************************)
EXTENDS Naturals, Sequences, SequencesExt

CONSTANTS
    Keys,        \* CONFIG_DB keys
    Fields,      \* hash fields
    Values,      \* field values
    Absent,      \* "the hash has no such field"
    Keep,        \* in an update: "leave the field alone"
    Handlers,    \* request handler threads (tokio spawn_blocking)
    Features,    \* the mutexes of feature_lock
    NoOne,       \* the holder of a free mutex
    MaxFaults,   \* bound on failing redis commands
    MaxStops     \* bound on process kills and reboots

ASSUME StoreConstants ==
    /\ Absent # Keep
    /\ Absent \notin Values /\ Keep \notin Values
    /\ NoOne \notin Handlers
    /\ MaxFaults \in Nat /\ MaxStops \in Nat

VARIABLES
    db,      \* CONFIG_DB as redis holds it
    saved,   \* /etc/sonic/config_db.json
    lock,    \* who holds each feature's mutex
    pc,      \* where each handler is
    todo,    \* the write commands it still has to issue
    snaps,   \* Batch.snapshots, in order of first touch
    code,    \* the HTTP status it answers with
    pre,     \* ghost: the database when the batch was opened
    torn,    \* ghost: a command of this handler's rollback failed
    faults,  \* redis faults so far
    stops    \* kills and reboots so far

storeVars == <<db, saved, lock, pc, todo, snaps, code, pre, torn, faults, stops>>

(***************************************************************************)
(* Redis hashes.  A row gives every field a value or Absent; a row with no *)
(* field at all does not exist (redis drops a hash with its last field).   *)
(***************************************************************************)
Row == [Fields -> Values \cup {Absent}]
NoRow == [f \in Fields |-> Absent]
NoConfig == [k \in Keys |-> NoRow]
Update == [Fields -> Values \cup {Absent, Keep}]
Command == [key : Keys, upd : Update]
Snapshot == [key : Keys, prior : Row]

Exists(d, k) == d[k] # NoRow

HSet(k, vals) ==
    [key |-> k,
     upd |-> [f \in Fields |-> IF f \in DOMAIN vals THEN vals[f] ELSE Keep]]
HSetField(k, f, v) == HSet(k, [x \in {f} |-> v])
HDel(k, fs) ==
    [key |-> k, upd |-> [f \in Fields |-> IF f \in fs THEN Absent ELSE Keep]]
Del(k) == [key |-> k, upd |-> NoRow]

\* The keyless-row idiom of CONFIG_DB: a row whose presence is the message.
Marker == [NULL |-> "NULL"]

\* One command for each row of a set.
Dels(ks) == LET order == SetToSeq(ks) IN [i \in DOMAIN order |-> Del(order[i])]
Marks(ks) == LET order == SetToSeq(ks) IN [i \in DOMAIN order |-> HSet(order[i], Marker)]

\* An optional input whose value does not matter.
Option == {"set", Absent}

\* A field that is set when the request gives a value and removed when not.
Optional(k, field, v) ==
    IF v = Absent THEN HDel(k, {field}) ELSE HSetField(k, field, v)

\* The fields of a new row, those without a value left out.
Given(vals) == Restrict(vals, {f \in DOMAIN vals : vals[f] # Absent})

\* store::field: an empty string is no value.
field(row, f) == IF row[f] = "" THEN Absent ELSE row[f]
OrElse(v, w) == IF v = Absent THEN w ELSE v

\* Mutant of Patched: a write replaces the row instead of merging into it.
PatchedWhole(row, upd) == [f \in Fields |-> upd[f]]

\* What one redis write command leaves in the row it addresses.
Patched(row, upd) ==
    [f \in Fields |-> IF upd[f] = Keep THEN row[f] ELSE upd[f]]
Issue(d, c) == [d EXCEPT ![c.key] = Patched(d[c.key], c.upd)]

(***************************************************************************)
(* Phases of a handler.                                                    *)
(*   queued  the ProxyRequest is dispatched, the mutex not yet taken       *)
(*   batch   inside store::apply: each key is snapshotted before its first *)
(*           write                                                         *)
(*   plain   issuing commands straight through the Platform, no rollback   *)
(*   undoDel, undoSet   inside Batch::rollback                             *)
(*   save    the mutex is released, `config save -y` is still to run       *)
(*   done    the ProxyResponse is ready                                    *)
(***************************************************************************)
Phases == {"idle", "queued", "batch", "plain", "undoDel", "undoSet", "save", "done"}
InBatch(h) == pc[h] \in {"batch", "undoDel", "undoSet"}
Statuses == {0, 200, 400, 404, 409, 422, 500}

StoreTypeOK ==
    /\ db \in [Keys -> Row]
    /\ saved \in [Keys -> Row]
    /\ lock \in [Features -> Handlers \cup {NoOne}]
    /\ pc \in [Handlers -> Phases]
    /\ todo \in [Handlers -> Seq(Command)]
    /\ snaps \in [Handlers -> Seq(Snapshot)]
    /\ code \in [Handlers -> Statuses]
    /\ pre \in [Handlers -> [Keys -> Row]]
    /\ torn \in [Handlers -> BOOLEAN]
    /\ faults \in 0..MaxFaults
    /\ stops \in 0..MaxStops

StoreInit(d0) ==
    /\ db = d0
    /\ saved = d0
    /\ lock = [f \in Features |-> NoOne]
    /\ pc = [h \in Handlers |-> "idle"]
    /\ todo = [h \in Handlers |-> <<>>]
    /\ snaps = [h \in Handlers |-> <<>>]
    /\ code = [h \in Handlers |-> 0]
    /\ pre = [h \in Handlers |-> NoConfig]
    /\ torn = [h \in Handlers |-> FALSE]
    /\ faults = 0
    /\ stops = 0

----------------------------------------------------------------------------
\* The control stream spawned a task for a write request.
Arrive(h) ==
    /\ pc[h] = "idle"
    /\ pc' = [pc EXCEPT ![h] = "queued"]
    /\ UNCHANGED <<db, saved, lock, todo, snaps, code, pre, torn, faults, stops>>

\* Mutant of Admit: the mutex is not waited for.
AdmitUnlocked(h, fs, ops, batched) ==
    /\ pc[h] = "queued"
    /\ lock' = [f \in Features |-> IF f \in fs THEN h ELSE lock[f]]
    /\ pc' = [pc EXCEPT ![h] = IF batched THEN "batch" ELSE "plain"]
    /\ todo' = [todo EXCEPT ![h] = ops]
    /\ snaps' = [snaps EXCEPT ![h] = <<>>]
    /\ pre' = [pre EXCEPT ![h] = IF batched THEN db ELSE NoConfig]
    /\ UNCHANGED <<db, saved, code, torn, faults, stops>>

(***************************************************************************)
(* The handler takes the mutexes in fs (one, or none for the code that     *)
(* predates feature_lock), reads the rows it needs and validates.          *)
(***************************************************************************)
Admit(h, fs, ops, batched) ==
    /\ pc[h] = "queued"
    /\ \A f \in fs : lock[f] = NoOne
    /\ lock' = [f \in Features |-> IF f \in fs THEN h ELSE lock[f]]
    /\ pc' = [pc EXCEPT ![h] = IF batched THEN "batch" ELSE "plain"]
    /\ todo' = [todo EXCEPT ![h] = ops]
    /\ snaps' = [snaps EXCEPT ![h] = <<>>]
    /\ pre' = [pre EXCEPT ![h] = IF batched THEN db ELSE NoConfig]
    /\ UNCHANGED <<db, saved, code, torn, faults, stops>>

\* An unlocked handler reads again and goes on with what it now sees.
Extend(h, ops) ==
    /\ pc[h] = "plain"
    /\ todo[h] = <<>>
    /\ todo' = [todo EXCEPT ![h] = ops]
    /\ UNCHANGED <<db, saved, lock, pc, snaps, code, pre, torn, faults, stops>>

\* Validation failed: the guard drops, nothing was written.
Refuse(h, fs, status) ==
    /\ pc[h] = "queued"
    /\ \A f \in fs : lock[f] = NoOne
    /\ pc' = [pc EXCEPT ![h] = "done"]
    /\ code' = [code EXCEPT ![h] = status]
    /\ UNCHANGED <<db, saved, lock, todo, snaps, pre, torn, faults, stops>>

Released(h) == [f \in Features |-> IF lock[f] = h THEN NoOne ELSE lock[f]]

\* Batch::snapshot: the row as it was before the batch first touched the key.
Snapped(h, k) == \E i \in 1..Len(snaps[h]) : snaps[h][i].key = k
WithSnapshot(h, k) ==
    IF Snapped(h, k)
    THEN snaps[h]
    ELSE Append(snaps[h], [key |-> k, prior |-> db[k]])

\* One redis command is issued and answered.
Execute(h) ==
    /\ pc[h] \in {"batch", "plain"}
    /\ todo[h] # <<>>
    /\ db' = Issue(db, Head(todo[h]))
    /\ snaps' = IF pc[h] = "batch"
                THEN [snaps EXCEPT ![h] = WithSnapshot(h, Head(todo[h]).key)]
                ELSE snaps
    /\ todo' = [todo EXCEPT ![h] = Tail(todo[h])]
    /\ UNCHANGED <<saved, lock, pc, code, pre, torn, faults, stops>>

\* Mutant of ExecuteFault: apply returns the error without rolling back.
ExecuteFaultNoRollback(h) ==
    /\ pc[h] \in {"batch", "plain"}
    /\ todo[h] # <<>>
    /\ faults < MaxFaults
    /\ faults' = faults + 1
    /\ todo' = [todo EXCEPT ![h] = <<>>]
    /\ code' = [code EXCEPT ![h] = 500]
    /\ pc' = [pc EXCEPT ![h] = "done"]
    /\ lock' = Released(h)
    /\ UNCHANGED <<db, saved, snaps, pre, torn, stops>>

(***************************************************************************)
(* The command fails: the snapshot read failed, or the write was refused,  *)
(* or it was applied and the reply lost.  The rest of the plan is          *)
(* abandoned; only a batch rolls back.                                     *)
(***************************************************************************)
ExecuteFault(h) ==
    /\ pc[h] \in {"batch", "plain"}
    /\ todo[h] # <<>>
    /\ faults < MaxFaults
    /\ faults' = faults + 1
    /\ \/ UNCHANGED <<db, snaps>>
       \/ /\ pc[h] = "batch"
          /\ snaps' = [snaps EXCEPT ![h] = WithSnapshot(h, Head(todo[h]).key)]
          /\ db' \in {db, Issue(db, Head(todo[h]))}
       \/ /\ pc[h] = "plain"
          /\ db' = Issue(db, Head(todo[h]))
          /\ UNCHANGED snaps
    /\ todo' = [todo EXCEPT ![h] = <<>>]
    /\ code' = [code EXCEPT ![h] = 500]
    /\ pc' = [pc EXCEPT ![h] = IF pc[h] = "batch" THEN "undoDel" ELSE "done"]
    /\ lock' = IF pc[h] = "batch" THEN lock ELSE Released(h)
    /\ UNCHANGED <<saved, pre, torn, stops>>

\* The operation returned Ok: the mutex is released before the config save.
Commit(h, persist) ==
    /\ pc[h] \in {"batch", "plain"}
    /\ todo[h] = <<>>
    /\ lock' = Released(h)
    /\ snaps' = [snaps EXCEPT ![h] = <<>>]
    /\ code' = [code EXCEPT ![h] = 200]
    /\ pc' = [pc EXCEPT ![h] = IF persist THEN "save" ELSE "done"]
    /\ pre' = [pre EXCEPT ![h] = NoConfig]
    /\ UNCHANGED <<db, saved, todo, torn, faults, stops>>

----------------------------------------------------------------------------
(***************************************************************************)
(* Batch::rollback walks the snapshots from the last to the first: DEL the *)
(* key, then HSET the prior fields if there were any.  Either command's    *)
(* failure is ignored and the walk goes on.                                *)
(***************************************************************************)
LastSnap(h) == snaps[h][Len(snaps[h])]
Popped(h) == [snaps EXCEPT ![h] = SubSeq(snaps[h], 1, Len(snaps[h]) - 1)]

\* ok: the command took effect and was answered; otherwise it is a fault.
UndoOutcome(h, ok, c) ==
    \/ /\ ok
       /\ db' = Issue(db, c)
       /\ UNCHANGED <<torn, faults, stops>>
    \/ /\ ~ok
       /\ faults < MaxFaults
       /\ faults' = faults + 1
       /\ torn' = [torn EXCEPT ![h] = TRUE]
       /\ db' \in {db, Issue(db, c)}

\* Mutant of UndoDel: a row that was there before is not deleted first.
UndoDelSkipped(h, ok) ==
    /\ pc[h] = "undoDel"
    /\ snaps[h] # <<>>
    /\ IF LastSnap(h).prior = NoRow
       THEN /\ UndoOutcome(h, ok, Del(LastSnap(h).key))
            /\ snaps' = Popped(h) /\ UNCHANGED pc
       ELSE /\ pc' = [pc EXCEPT ![h] = "undoSet"]
            /\ ok /\ UNCHANGED <<db, snaps, torn, faults>>
    /\ UNCHANGED <<saved, lock, todo, code, pre, stops>>

UndoDel(h, ok) ==
    /\ pc[h] = "undoDel"
    /\ snaps[h] # <<>>
    /\ UndoOutcome(h, ok, Del(LastSnap(h).key))
    /\ IF LastSnap(h).prior = NoRow
       THEN snaps' = Popped(h) /\ UNCHANGED pc
       ELSE pc' = [pc EXCEPT ![h] = "undoSet"] /\ UNCHANGED snaps
    /\ UNCHANGED <<saved, lock, todo, code, pre, stops>>

Present(row) == {f \in Fields : row[f] # Absent}

UndoSet(h, ok) ==
    /\ pc[h] = "undoSet"
    /\ snaps[h] # <<>>
    /\ UndoOutcome(h, ok, HSet(LastSnap(h).key,
                     [f \in Present(LastSnap(h).prior) |-> LastSnap(h).prior[f]]))
    /\ snaps' = Popped(h)
    /\ pc' = [pc EXCEPT ![h] = "undoDel"]
    /\ UNCHANGED <<saved, lock, todo, code, pre, stops>>

\* Mutant of Abort: the mutex is not given back on the error path.
AbortKeepsLock(h) ==
    /\ pc[h] = "undoDel"
    /\ snaps[h] = <<>>
    /\ pc' = [pc EXCEPT ![h] = "done"]
    /\ pre' = [pre EXCEPT ![h] = NoConfig]
    /\ torn' = [torn EXCEPT ![h] = FALSE]
    /\ UNCHANGED <<db, saved, lock, todo, snaps, code, faults, stops>>

\* apply returns the original error and the mutex is released.
Abort(h) ==
    /\ pc[h] = "undoDel"
    /\ snaps[h] = <<>>
    /\ lock' = Released(h)
    /\ pc' = [pc EXCEPT ![h] = "done"]
    /\ pre' = [pre EXCEPT ![h] = NoConfig]
    /\ torn' = [torn EXCEPT ![h] = FALSE]
    /\ UNCHANGED <<db, saved, todo, snaps, code, faults, stops>>

----------------------------------------------------------------------------
\* persist_config: best effort, a failed save is only logged.
Save(h) ==
    /\ pc[h] = "save"
    /\ saved' \in {saved, db}
    /\ pc' = [pc EXCEPT ![h] = "done"]
    /\ UNCHANGED <<db, lock, todo, snaps, code, pre, torn, faults, stops>>

\* The ProxyResponse is handed to the stream; the thread is free again.
Respond(h) ==
    /\ pc[h] = "done"
    /\ pc' = [pc EXCEPT ![h] = "idle"]
    /\ code' = [code EXCEPT ![h] = 0]
    /\ UNCHANGED <<db, saved, lock, todo, snaps, pre, torn, faults, stops>>

\* The agent is killed: threads, snapshots and mutexes are gone, redis stays.
Stopped ==
    /\ stops < MaxStops
    /\ stops' = stops + 1
    /\ UNCHANGED faults
    /\ lock' = [f \in Features |-> NoOne]
    /\ pc' = [h \in Handlers |-> "idle"]
    /\ todo' = [h \in Handlers |-> <<>>]
    /\ snaps' = [h \in Handlers |-> <<>>]
    /\ code' = [h \in Handlers |-> 0]
    /\ pre' = [h \in Handlers |-> NoConfig]
    /\ torn' = [h \in Handlers |-> FALSE]

Kill == Stopped /\ UNCHANGED <<db, saved>>

\* The switch reboots: CONFIG_DB is reloaded from the saved file.
Reboot == Stopped /\ db' = saved /\ UNCHANGED saved

\* What a handler does once admitted, whatever its request was.
Run(h) ==
    \/ Execute(h) \/ ExecuteFault(h) \/ Abort(h) \/ Save(h) \/ Respond(h)
    \/ \E ok \in BOOLEAN : UndoDel(h, ok) \/ UndoSet(h, ok)
=============================================================================
