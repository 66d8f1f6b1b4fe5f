---------------------------- MODULE BatchProofs ----------------------------
(***************************************************************************)
(* A failed write batch leaves the rows its feature guards as it found     *)
(* them: for any database, any plans, any number of handlers and features, *)
(* any faults, and agents killed or switches rebooted at any point.  And   *)
(* Batch implements AtomicConfig: nobody sees a part of a batch.           *)
(***************************************************************************)
EXTENDS Batch, StoreProofs

----------------------------------------------------------------------------
(* Type correctness.                                                       *)

\* Every action of the write path keeps every variable in its type.
LEMMA TypeStep == TypeOK /\ [Next]_storeVars => TypeOK'
  <1> SUFFICES ASSUME TypeOK, [Next]_storeVars PROVE TypeOK'
    OBVIOUS
  <1> USE DEF TypeOK
  <1>1. ASSUME NEW h \in Handlers, Begin(h) PROVE TypeOK'
    <2>1. PICK f \in Features : \E p \in Plans[f] : \E b \in BOOLEAN : Admit(h, {f}, p, b)
      BY <1>1 DEF Begin
    <2>2. PICK p \in Plans[f], b \in BOOLEAN : Admit(h, {f}, p, b)
      BY <2>1
    <2>3. p \in Seq(Command)
      BY BatchConstants
    <2> QED
      BY <2>2, <2>3, AdmitType
  <1>2. ASSUME NEW h \in Handlers, Reject(h) PROVE TypeOK'
    <2>1. PICK f \in Features, status \in Refusals : Refuse(h, {f}, status)
      BY <1>2 DEF Reject
    <2> QED
      BY <2>1, BatchConstants, RefuseType
  <1>3. CASE UNCHANGED storeVars
    BY <1>3 DEF storeVars, StoreTypeOK
  <1> QED
    BY <1>1, <1>2, <1>3, ArriveType, RunType, CommitType, StopType DEF Next, Step

----------------------------------------------------------------------------
(* The invariant.                                                          *)

(***************************************************************************)
(* A step of somebody else: it leaves a handler's invariant alone if it    *)
(* leaves its private state, its mutexes and the rows they guard alone.    *)
(***************************************************************************)
LEMMA Frame ==
  ASSUME TypeOK, NEW g \in Handlers, HandlerInv(g),
         pc'[g] = pc[g], todo'[g] = todo[g], snaps'[g] = snaps[g],
         pre'[g] = pre[g], torn'[g] = torn[g],
         \A k \in Keys : Holds(g, k)' <=> Holds(g, k),
         \A k \in Keys : Holds(g, k) => db'[k] = db[k]
  PROVE  HandlerInv(g)'
  <1>1. \A i \in 1..Len(todo[g]) : todo[g][i].key \in Keys
    <2>1. todo[g] \in Seq(Command)
      BY DEF TypeOK, StoreTypeOK
    <2>2. \A i \in 1..Len(todo[g]) : todo[g][i] \in Command
      BY <2>1, LenProperties
    <2> QED
      BY <2>2 DEF Command
  <1>2. \A i \in 1..Len(snaps[g]) : snaps[g][i].key \in Keys
    <2>1. snaps[g] \in Seq(Snapshot)
      BY DEF TypeOK, StoreTypeOK
    <2>2. \A i \in 1..Len(snaps[g]) : snaps[g][i] \in Snapshot
      BY <2>1, LenProperties
    <2> QED
      BY <2>2 DEF Snapshot
  <1>3. CommandsGuarded(g)'
    BY <1>1 DEF HandlerInv, CommandsGuarded
  <1>4. SnapshotsTrue(g)' /\ SnapshotsDistinct(g)'
    BY <1>2 DEF HandlerInv, SnapshotsTrue, SnapshotsDistinct, InBatch
  <1>5. UntouchedSame(g)'
    BY DEF HandlerInv, UntouchedSame, InBatch, Snapped
  <1>6. HalfUndone(g)'
    <2> SUFFICES ASSUME pc[g] = "undoSet"
                 PROVE  snaps[g] # <<>> /\ (~torn[g] => db'[LastSnap(g).key] = NoRow)
      BY DEF HalfUndone, LastSnap
    <2>1. snaps[g] # <<>> /\ (~torn[g] => db[LastSnap(g).key] = NoRow)
      BY DEF HandlerInv, HalfUndone
    <2>2. Len(snaps[g]) \in 1..Len(snaps[g]) /\ LastSnap(g).key \in Keys
      BY <2>1, LastSnapshot DEF TypeOK
    <2>3. Holds(g, LastSnap(g).key)
      BY <2>2 DEF HandlerInv, SnapshotsTrue, InBatch, LastSnap
    <2> QED
      BY <2>1, <2>2, <2>3
  <1>7. TornWhileUndoing(g)'
    BY DEF HandlerInv, TornWhileUndoing
  <1> QED
    BY <1>3, <1>4, <1>5, <1>6, <1>7 DEF HandlerInv

\* The row a plan's next command addresses is guarded by the handler.
LEMMA HeadGuarded ==
  ASSUME BatchInv, NEW h \in Handlers, pc[h] \in {"batch", "plain"}, todo[h] # <<>>
  PROVE  Holds(h, Head(todo[h]).key)
  <1>1. Len(todo[h]) \in Nat \ {0} /\ Head(todo[h]) = todo[h][1]
    BY HeadCommand DEF BatchInv, TypeOK
  <1> QED
    BY <1>1 DEF BatchInv, HandlerInv, CommandsGuarded

\* Writing a row one holds leaves everybody else's rows alone.
LEMMA OthersUntouched ==
  ASSUME BatchInv, NEW h \in Handlers, NEW k0 \in Keys, Holds(h, k0),
         \A k \in Keys : k # k0 => db'[k] = db[k],
         NEW g \in Handlers, g # h
  PROVE  \A k \in Keys : Holds(g, k) => db'[k] = db[k]
  BY DEF Holds

(***************************************************************************)
(* Batch::snapshot before a write: the snapshot is the row the batch       *)
(* found, and after it only rows that have a snapshot differ.              *)
(***************************************************************************)
LEMMA SnapshotStep ==
  ASSUME BatchInv, NEW h \in Handlers, pc[h] = "batch", todo[h] # <<>>,
         snaps'[h] = WithSnapshot(h, Head(todo[h]).key),
         db' \in {db, Issue(db, Head(todo[h]))},
         lock' = lock, pre'[h] = pre[h], torn'[h] = torn[h]
  PROVE  SnapshotsTrue(h)' /\ SnapshotsDistinct(h)' /\ UntouchedSame(h)'
  <1> DEFINE k0 == Head(todo[h]).key
  <1>1. /\ k0 \in Keys /\ Head(todo[h]) \in Command
        /\ db \in [Keys -> Row] /\ snaps[h] \in Seq(Snapshot)
    BY HeadCommand DEF BatchInv, TypeOK, StoreTypeOK
  <1>2. Holds(h, k0)
    BY HeadGuarded
  <1>3. \A k \in Keys : k # k0 => db'[k] = db[k]
    BY <1>1, IssueFrame
  <1>4. ~torn[h] /\ InBatch(h)
    BY DEF BatchInv, HandlerInv, TornWhileUndoing, InBatch
  <1>5. \A k : Holds(h, k)' <=> Holds(h, k)
    BY DEF Holds
  <1>6. SnapshotsTrue(h) /\ SnapshotsDistinct(h) /\ UntouchedSame(h)
    BY DEF BatchInv, HandlerInv
  <1> HIDE DEF k0
  <1>7. CASE Snapped(h, k0)
    <2>1. snaps'[h] = snaps[h]
      BY <1>7 DEF WithSnapshot, k0
    <2>2. UntouchedSame(h)'
      BY <1>3, <1>4, <1>5, <1>6, <1>7, <2>1 DEF UntouchedSame, Snapped
    <2> QED
      BY <1>4, <1>5, <1>6, <2>1, <2>2 DEF SnapshotsTrue, SnapshotsDistinct
  <1>8. CASE ~Snapped(h, k0)
    <2> DEFINE new == [key |-> k0, prior |-> db[k0]]
    <2>1. snaps'[h] = Append(snaps[h], new)
      BY <1>8 DEF WithSnapshot, k0
    <2>2. new \in Snapshot
      BY <1>1 DEF Snapshot
    <2>3. /\ Len(snaps[h]) \in Nat
          /\ Len(snaps'[h]) = Len(snaps[h]) + 1
          /\ \A i \in 1..Len(snaps[h]) : snaps'[h][i] = snaps[h][i]
          /\ snaps'[h][Len(snaps[h]) + 1] = new
      <3> HIDE DEF new
      <3>1. Len(snaps[h]) \in Nat
        BY <1>1, LenProperties
      <3>2. /\ Len(Append(snaps[h], new)) = Len(snaps[h]) + 1
            /\ \A i \in 1..Len(snaps[h]) : Append(snaps[h], new)[i] = snaps[h][i]
            /\ Append(snaps[h], new)[Len(snaps[h]) + 1] = new
        BY <1>1, <2>2, PushLast
      <3> QED
        BY <2>1, <3>1, <3>2
    <2>4. db[k0] = pre[h][k0]
      BY <1>1, <1>2, <1>4, <1>6, <1>8 DEF UntouchedSame
    <2>5. \A i \in 1..Len(snaps'[h]) :
             i \in 1..Len(snaps[h]) \/ i = Len(snaps[h]) + 1
      BY <2>3
    <2>6. SnapshotsTrue(h)'
      BY <1>2, <1>4, <1>5, <1>6, <2>3, <2>4, <2>5 DEF SnapshotsTrue
    <2>7. SnapshotsDistinct(h)'
      <3> DEFINE n == Len(snaps[h]) + 1
      <3> SUFFICES ASSUME NEW i \in 1..Len(snaps'[h]), NEW j \in 1..Len(snaps'[h]),
                          snaps'[h][i].key = snaps'[h][j].key
                   PROVE  i = j
        BY DEF SnapshotsDistinct
      <3>1. \A m \in 1..Len(snaps[h]) : snaps'[h][m].key # k0
        BY <1>8, <2>3 DEF Snapped
      <3>2. snaps'[h][n].key = k0
        BY <2>3
      <3>3. (i \in 1..Len(snaps[h]) \/ i = n) /\ (j \in 1..Len(snaps[h]) \/ j = n)
        BY <2>5
      <3>4. CASE i \in 1..Len(snaps[h]) /\ j \in 1..Len(snaps[h])
        <4>1. snaps[h][i].key = snaps[h][j].key
          BY <2>3, <3>4
        <4> QED
          BY <1>6, <3>4, <4>1 DEF SnapshotsDistinct
      <3> HIDE DEF n
      <3> QED
        BY <3>1, <3>2, <3>3, <3>4
    <2>8. \A k \in Keys : ~Snapped(h, k)' => ~Snapped(h, k) /\ k # k0
      <3> SUFFICES ASSUME NEW k \in Keys, Snapped(h, k) \/ k = k0 PROVE Snapped(h, k)'
        OBVIOUS
      <3>1. CASE k = k0
        <4>1. Len(snaps[h]) + 1 \in 1..Len(snaps'[h])
          BY <2>3
        <4> QED
          BY <2>3, <3>1, <4>1 DEF Snapped
      <3>2. CASE Snapped(h, k)
        BY <2>3, <3>2 DEF Snapped
      <3> QED
        BY <3>1, <3>2
    <2>9. UntouchedSame(h)'
      BY <1>3, <1>4, <1>5, <1>6, <2>8 DEF UntouchedSame
    <2> QED
      BY <2>6, <2>7, <2>9
  <1> QED
    BY <1>7, <1>8

(***************************************************************************)
(* Batch::rollback has dealt with the last snapshot: unless a command of   *)
(* the rollback failed, its row is again what the batch found, and the     *)
(* remaining snapshots are as true as before.                              *)
(***************************************************************************)
LEMMA UndoPop ==
  ASSUME BatchInv, NEW h \in Handlers, InBatch(h), snaps[h] # <<>>,
         snaps'[h] = SubSeq(snaps[h], 1, Len(snaps[h]) - 1),
         lock' = lock, pre'[h] = pre[h],
         \A k \in Keys : k # LastSnap(h).key => db'[k] = db[k],
         ~torn'[h] => ~torn[h] /\ db'[LastSnap(h).key] = LastSnap(h).prior
  PROVE  SnapshotsTrue(h)' /\ SnapshotsDistinct(h)' /\ UntouchedSame(h)'
  <1> DEFINE n == Len(snaps[h])
  <1>1. /\ n \in 1..n /\ n \in Nat
        /\ Len(snaps'[h]) = n - 1
        /\ \A i \in 1..Len(snaps'[h]) : snaps'[h][i] = snaps[h][i]
    <2>1. snaps[h] \in Seq(Snapshot)
      BY DEF BatchInv, TypeOK, StoreTypeOK
    <2> QED
      BY <2>1, PopLast, LenProperties
  <1>2. \A k : Holds(h, k)' <=> Holds(h, k)
    BY DEF Holds
  <1>3. SnapshotsTrue(h) /\ SnapshotsDistinct(h) /\ UntouchedSame(h)
    BY DEF BatchInv, HandlerInv
  <1>4. LastSnap(h) = snaps[h][n]
    BY DEF LastSnap
  <1> HIDE DEF n
  <1>5. \A i \in 1..Len(snaps'[h]) : i \in 1..n /\ i # n
    BY <1>1
  <1>6. n = Len(snaps[h])
    BY DEF n
  <1>7. SnapshotsTrue(h)'
    BY <1>1, <1>2, <1>3, <1>5, <1>6 DEF SnapshotsTrue
  <1>8. SnapshotsDistinct(h)'
    BY <1>1, <1>3, <1>5, <1>6 DEF SnapshotsDistinct
  <1>9. LastSnap(h).prior = pre[h][LastSnap(h).key]
    BY <1>1, <1>3, <1>4, <1>6 DEF SnapshotsTrue
  <1>10. \A k \in Keys : Snapped(h, k) => Snapped(h, k)' \/ k = LastSnap(h).key
    <2> SUFFICES ASSUME NEW k \in Keys, NEW i \in 1..n, snaps[h][i].key = k, i # n
                 PROVE  Snapped(h, k)'
      BY <1>4, <1>6 DEF Snapped
    <2>1. i \in 1..Len(snaps'[h])
      BY <1>1
    <2> QED
      BY <1>1, <2>1 DEF Snapped
  <1>11. UntouchedSame(h)'
    <2> SUFFICES ASSUME ~torn'[h], NEW k \in Keys, Holds(h, k), ~Snapped(h, k)'
                 PROVE  db'[k] = pre[h][k]
      BY <1>2 DEF UntouchedSame
    <2>1. CASE k = LastSnap(h).key
      BY <1>9, <2>1
    <2>2. CASE k # LastSnap(h).key
      BY <1>3, <1>10, <2>2 DEF UntouchedSame
    <2> QED
      BY <2>1, <2>2
  <1> QED
    BY <1>7, <1>8, <1>11

(***************************************************************************)
(* A step of one handler that keeps its own invariant and leaves the other *)
(* handlers' private state, mutexes and rows alone keeps the invariant.    *)
(***************************************************************************)
LEMMA OneMoves ==
  ASSUME BatchInv, TypeOK', NEW h \in Handlers, HandlerInv(h)',
         \A g \in Handlers \ {h} :
            /\ pc'[g] = pc[g] /\ todo'[g] = todo[g] /\ snaps'[g] = snaps[g]
            /\ pre'[g] = pre[g] /\ torn'[g] = torn[g]
            /\ \A f \in Features : lock'[f] = g <=> lock[f] = g
            /\ \A k \in Keys : Holds(g, k) => db'[k] = db[k]
  PROVE  BatchInv'
  <1>1. ASSUME NEW g \in Handlers, g # h PROVE HandlerInv(g)'
    <2>1. \A k \in Keys : Holds(g, k)' <=> Holds(g, k)
      BY <1>1, BatchConstants DEF Holds
    <2>2. TypeOK /\ HandlerInv(g)
      BY DEF BatchInv
    <2> QED
      BY <1>1, <2>1, <2>2, Frame
  <1> QED
    BY <1>1 DEF BatchInv

----------------------------------------------------------------------------
(* One lemma per group of actions.                                         *)

\* A handler outside a batch and without a plan has nothing to keep.
LEMMA Idle ==
  ASSUME NEW h \in Handlers,
         pc'[h] \notin {"batch", "plain", "undoDel", "undoSet"},
         ~torn'[h], SnapshotsDistinct(h)'
  PROVE  HandlerInv(h)'
  BY DEF HandlerInv, CommandsGuarded, SnapshotsTrue, UntouchedSame,
         HalfUndone, TornWhileUndoing, InBatch

\* A request arrives, is refused, is saved or is answered.
LEMMA QuietStep ==
  ASSUME BatchInv, TypeOK', NEW h \in Handlers,
         Arrive(h) \/ Reject(h) \/ Save(h) \/ Respond(h)
  PROVE  BatchInv'
  <1>1. /\ UNCHANGED <<db, lock, todo, snaps, pre, torn>>
        /\ \A g \in Handlers \ {h} : pc'[g] = pc[g]
        /\ pc[h] \in {"idle", "queued", "save", "done"}
        /\ pc'[h] \in {"idle", "queued", "done"}
    BY DEF Arrive, Reject, Refuse, Save, Respond, BatchInv, TypeOK, StoreTypeOK
  <1>2. ~torn'[h] /\ SnapshotsDistinct(h)'
    BY <1>1 DEF BatchInv, HandlerInv, TornWhileUndoing, SnapshotsDistinct
  <1>3. HandlerInv(h)'
    BY <1>1, <1>2, Idle
  <1> QED
    BY <1>1, <1>3, OneMoves

\* feature_lock is taken and the plan is set.
LEMMA BeginStep ==
  ASSUME BatchInv, TypeOK', NEW h \in Handlers, Begin(h)
  PROVE  BatchInv'
  <1>1. PICK f \in Features : \E p \in Plans[f] : \E b \in BOOLEAN : Admit(h, {f}, p, b)
    BY DEF Begin
  <1>2. PICK p \in Plans[f] : \E b \in BOOLEAN : Admit(h, {f}, p, b)
    BY <1>1
  <1>3. PICK b \in BOOLEAN : Admit(h, {f}, p, b)
    BY <1>2
  <1>4. p \in Seq(Command) /\ \A i \in 1..Len(p) : Owner[p[i].key] = f
    BY BatchConstants
  <1>5. /\ pc[h] = "queued" /\ lock[f] = NoOne /\ lock'[f] = h
        /\ \A e \in Features : e # f => lock'[e] = lock[e]
        /\ pc'[h] \in {"batch", "plain"} /\ (pc'[h] = "batch" => pre'[h] = db)
        /\ todo'[h] = p /\ snaps'[h] = <<>> /\ UNCHANGED <<db, torn>>
        /\ \A g \in Handlers \ {h} :
              /\ pc'[g] = pc[g] /\ todo'[g] = todo[g]
              /\ snaps'[g] = snaps[g] /\ pre'[g] = pre[g]
    BY <1>3 DEF Admit, BatchInv, TypeOK, StoreTypeOK
  <1>6. ~torn[h]
    BY <1>5 DEF BatchInv, HandlerInv, TornWhileUndoing
  <1>7. CommandsGuarded(h)'
    <2>1. \A i \in 1..Len(p) : lock'[Owner[p[i].key]] = h
      BY <1>4, <1>5
    <2> QED
      BY <1>5, <2>1 DEF CommandsGuarded, Holds
  <1>8. Len(snaps'[h]) = 0
    BY <1>5
  <1>9. SnapshotsTrue(h)' /\ SnapshotsDistinct(h)'
    BY <1>8 DEF SnapshotsTrue, SnapshotsDistinct
  <1>10. UntouchedSame(h)' /\ HalfUndone(h)' /\ TornWhileUndoing(h)'
    BY <1>5, <1>6 DEF UntouchedSame, HalfUndone, TornWhileUndoing, InBatch
  <1>11. HandlerInv(h)'
    BY <1>7, <1>9, <1>10 DEF HandlerInv
  <1>12. \A g \in Handlers \ {h} : \A e \in Features : lock'[e] = g <=> lock[e] = g
    BY <1>5, StoreConstants
  <1> QED
    BY <1>5, <1>11, <1>12, OneMoves

\* Dropping the first command keeps the rest guarded.
LEMMA TailGuarded ==
  ASSUME BatchInv, NEW h \in Handlers, todo[h] # <<>>, pc[h] \in {"batch", "plain"},
         todo'[h] = Tail(todo[h]), lock' = lock
  PROVE  CommandsGuarded(h)'
  <1>1. todo[h] \in Seq(Command)
    BY DEF BatchInv, TypeOK, StoreTypeOK
  <1>2. /\ Len(todo[h]) \in Nat \ {0} /\ Len(Tail(todo[h])) = Len(todo[h]) - 1
        /\ \A i \in 1..Len(Tail(todo[h])) : Tail(todo[h])[i] = todo[h][i + 1]
    BY <1>1, HeadTailProperties, EmptySeq, LenProperties
  <1>3. \A i \in 1..Len(Tail(todo[h])) : i + 1 \in 1..Len(todo[h])
    BY <1>2
  <1>4. CommandsGuarded(h)
    BY DEF BatchInv, HandlerInv
  <1> QED
    BY <1>2, <1>3, <1>4 DEF CommandsGuarded, Holds

\* One redis write of a plan, answered.
LEMMA ExecuteStep ==
  ASSUME BatchInv, TypeOK', NEW h \in Handlers, Execute(h)
  PROVE  BatchInv'
  <1>1. /\ pc[h] \in {"batch", "plain"} /\ todo[h] # <<>>
        /\ db' = Issue(db, Head(todo[h])) /\ todo'[h] = Tail(todo[h])
        /\ UNCHANGED <<lock, pc, pre, torn>>
        /\ \A g \in Handlers \ {h} : todo'[g] = todo[g] /\ snaps'[g] = snaps[g]
    BY DEF Execute, BatchInv, TypeOK, StoreTypeOK
  <1>2. /\ Head(todo[h]).key \in Keys /\ Holds(h, Head(todo[h]).key)
        /\ \A k \in Keys : k # Head(todo[h]).key => db'[k] = db[k]
    <2>1. Head(todo[h]) \in Command /\ Head(todo[h]).key \in Keys
      BY <1>1, HeadCommand DEF BatchInv, TypeOK
    <2>2. Holds(h, Head(todo[h]).key)
      BY <1>1, HeadGuarded
    <2>3. db \in [Keys -> Row]
      BY DEF BatchInv, TypeOK, StoreTypeOK
    <2> QED
      BY <1>1, <2>1, <2>2, <2>3, IssueFrame
  <1>3. CommandsGuarded(h)'
    BY <1>1, TailGuarded
  <1>4. HalfUndone(h)' /\ TornWhileUndoing(h)'
    BY <1>1 DEF BatchInv, HandlerInv, HalfUndone, TornWhileUndoing
  <1>5. SnapshotsTrue(h)' /\ SnapshotsDistinct(h)' /\ UntouchedSame(h)'
    <2>1. CASE pc[h] = "batch"
      <3>1. snaps'[h] = WithSnapshot(h, Head(todo[h]).key)
        BY <2>1 DEF Execute, BatchInv, TypeOK, StoreTypeOK
      <3> QED
        BY <1>1, <2>1, <3>1, SnapshotStep
    <2>2. CASE pc[h] = "plain"
      BY <1>1, <2>2 DEF Execute, SnapshotsTrue, UntouchedSame, InBatch,
                        BatchInv, HandlerInv, SnapshotsDistinct
    <2> QED
      BY <1>1, <2>1, <2>2
  <1>6. HandlerInv(h)'
    BY <1>3, <1>4, <1>5 DEF HandlerInv
  <1> QED
    BY <1>1, <1>2, <1>6, OthersUntouched, OneMoves

\* One redis write of a plan fails, or is applied with its reply lost.
LEMMA FaultStep ==
  ASSUME BatchInv, TypeOK', NEW h \in Handlers, ExecuteFault(h)
  PROVE  BatchInv'
  <1>1. /\ pc[h] \in {"batch", "plain"} /\ todo[h] # <<>>
        /\ db' \in {db, Issue(db, Head(todo[h]))} /\ todo'[h] = <<>>
        /\ UNCHANGED <<pre, torn>>
        /\ pc'[h] = IF pc[h] = "batch" THEN "undoDel" ELSE "done"
        /\ lock' = IF pc[h] = "batch" THEN lock ELSE Released(h)
        /\ \A g \in Handlers \ {h} :
              pc'[g] = pc[g] /\ todo'[g] = todo[g] /\ snaps'[g] = snaps[g]
    BY DEF ExecuteFault, BatchInv, TypeOK, StoreTypeOK
  <1>2. /\ Head(todo[h]).key \in Keys /\ Holds(h, Head(todo[h]).key)
        /\ \A k \in Keys : k # Head(todo[h]).key => db'[k] = db[k]
    <2>1. Head(todo[h]) \in Command /\ Head(todo[h]).key \in Keys
      BY <1>1, HeadCommand DEF BatchInv, TypeOK
    <2>2. \A k \in Keys : k # Head(todo[h]).key => Issue(db, Head(todo[h]))[k] = db[k]
      BY <2>1, IssueFrame DEF BatchInv, TypeOK, StoreTypeOK
    <2> QED
      BY <1>1, <2>1, <2>2, HeadGuarded
  <1>3. ~torn[h]
    BY <1>1 DEF BatchInv, HandlerInv, TornWhileUndoing
  <1>4. HandlerInv(h)'
    <2>1. CASE pc[h] = "batch"
      <3>1. CommandsGuarded(h)' /\ HalfUndone(h)' /\ TornWhileUndoing(h)'
        BY <1>1, <1>3, <2>1 DEF CommandsGuarded, HalfUndone, TornWhileUndoing
      <3>2. CASE snaps'[h] = WithSnapshot(h, Head(todo[h]).key)
        BY <1>1, <2>1, <3>1, <3>2, SnapshotStep DEF HandlerInv
      <3>3. CASE UNCHANGED <<db, snaps>>
        <4>1. SnapshotsTrue(h)' /\ SnapshotsDistinct(h)' /\ UntouchedSame(h)'
          BY <1>1, <2>1, <3>3 DEF BatchInv, HandlerInv, SnapshotsTrue,
             SnapshotsDistinct, UntouchedSame, InBatch, Snapped, Holds
        <4> QED
          BY <3>1, <4>1 DEF HandlerInv
      <3> QED
        BY <2>1, <3>2, <3>3 DEF ExecuteFault, BatchInv, TypeOK, StoreTypeOK
    <2>2. CASE pc[h] = "plain"
      <3>1. SnapshotsDistinct(h)'
        BY <2>2 DEF ExecuteFault, BatchInv, HandlerInv, SnapshotsDistinct
      <3> QED
        BY <1>1, <1>3, <2>2, <3>1, Idle
    <2> QED
      BY <1>1, <2>1, <2>2
  <1>5. \A g \in Handlers \ {h} : \A f \in Features : lock'[f] = g <=> lock[f] = g
    BY <1>1, ReleasedFrame
  <1> QED
    BY <1>1, <1>2, <1>4, <1>5, OthersUntouched, OneMoves

\* The batch is committed, or its rollback has come to its end.
LEMMA FinishStep ==
  ASSUME BatchInv, TypeOK', NEW h \in Handlers,
         Abort(h) \/ \E persist \in BOOLEAN : Commit(h, persist)
  PROVE  BatchInv'
  <1>1. /\ UNCHANGED <<db, todo>> /\ lock' = Released(h)
        /\ pc'[h] \in {"save", "done"} /\ snaps'[h] = <<>>
        /\ \A g \in Handlers \ {h} :
              /\ pc'[g] = pc[g] /\ snaps'[g] = snaps[g]
              /\ pre'[g] = pre[g] /\ torn'[g] = torn[g]
    BY DEF Abort, Commit, BatchInv, TypeOK, StoreTypeOK
  <1>2. ~torn'[h]
    BY DEF Abort, Commit, BatchInv, TypeOK, StoreTypeOK, HandlerInv, TornWhileUndoing
  <1>3. Len(snaps'[h]) = 0
    BY <1>1
  <1>4. SnapshotsDistinct(h)'
    BY <1>3 DEF SnapshotsDistinct
  <1>5. HandlerInv(h)'
    BY <1>1, <1>2, <1>4, Idle
  <1> QED
    BY <1>1, <1>5, ReleasedFrame, OneMoves

(***************************************************************************)
(* The DEL or the HSET of a rollback changes at most the row of the last   *)
(* snapshot, which the handler guards, and if it fails the rollback is     *)
(* known to be torn.                                                       *)
(***************************************************************************)
LEMMA UndoCommand ==
  ASSUME BatchInv, NEW h \in Handlers, NEW ok \in BOOLEAN, InBatch(h), snaps[h] # <<>>,
         NEW c \in Command, c.key = LastSnap(h).key, UndoOutcome(h, ok, c)
  PROVE  /\ LastSnap(h).key \in Keys /\ Holds(h, LastSnap(h).key)
         /\ \A k \in Keys : k # LastSnap(h).key => db'[k] = db[k]
         /\ ~torn'[h] => ~torn[h] /\ db'[c.key] = Patched(db[c.key], c.upd)
         /\ \A g \in Handlers \ {h} : torn'[g] = torn[g]
  <1>1. LastSnap(h).key \in Keys /\ Len(snaps[h]) \in 1..Len(snaps[h])
    BY LastSnapshot DEF BatchInv, TypeOK
  <1>2. Holds(h, LastSnap(h).key)
    BY <1>1 DEF BatchInv, HandlerInv, SnapshotsTrue, LastSnap
  <1>3. /\ Issue(db, c)[c.key] = Patched(db[c.key], c.upd)
        /\ \A k \in Keys : k # LastSnap(h).key => Issue(db, c)[k] = db[k]
    BY IssueFrame DEF BatchInv, TypeOK, StoreTypeOK
  <1>4. db' \in {db, Issue(db, c)}
    BY DEF UndoOutcome
  <1>5. torn \in [Handlers -> BOOLEAN]
    BY DEF BatchInv, TypeOK, StoreTypeOK
  <1>6. ~torn'[h] => ~torn[h] /\ db' = Issue(db, c)
    BY <1>5 DEF UndoOutcome
  <1>7. \A g \in Handlers \ {h} : torn'[g] = torn[g]
    BY <1>5 DEF UndoOutcome
  <1>8. \A k \in Keys : k # LastSnap(h).key => db'[k] = db[k]
    BY <1>3, <1>4
  <1>9. ~torn'[h] => ~torn[h] /\ db'[c.key] = Patched(db[c.key], c.upd)
    BY <1>3, <1>6
  <1> QED
    BY <1>1, <1>2, <1>7, <1>8, <1>9

\* The DEL of a rollback.
LEMMA UndoDelStep ==
  ASSUME BatchInv, TypeOK', NEW h \in Handlers, NEW ok \in BOOLEAN, UndoDel(h, ok)
  PROVE  BatchInv'
  <1> DEFINE c == Del(LastSnap(h).key)
  <1>1. /\ pc[h] = "undoDel" /\ snaps[h] # <<>> /\ InBatch(h)
        /\ UndoOutcome(h, ok, c) /\ UNCHANGED <<lock, todo, pre>>
        /\ pc'[h] \in {"undoDel", "undoSet"}
        /\ \A g \in Handlers \ {h} : pc'[g] = pc[g] /\ snaps'[g] = snaps[g]
    BY DEF UndoDel, InBatch, Popped, BatchInv, TypeOK, StoreTypeOK
  <1>2. LastSnap(h).key \in Keys /\ db[LastSnap(h).key] \in Row
    BY <1>1, LastSnapshot DEF BatchInv, TypeOK, StoreTypeOK
  <1>3. /\ c \in Command /\ c.key = LastSnap(h).key
        /\ Patched(db[c.key], c.upd) = NoRow
    BY <1>2, DelClears
  <1> HIDE DEF c
  <1>4. /\ Holds(h, LastSnap(h).key)
        /\ \A k \in Keys : k # LastSnap(h).key => db'[k] = db[k]
        /\ ~torn'[h] => ~torn[h] /\ db'[LastSnap(h).key] = NoRow
        /\ \A g \in Handlers \ {h} : torn'[g] = torn[g]
    BY <1>1, <1>3, UndoCommand
  <1>5. CommandsGuarded(h)' /\ TornWhileUndoing(h)'
    BY <1>1 DEF CommandsGuarded, TornWhileUndoing
  <1>6. HandlerInv(h)'
    <2>1. CASE LastSnap(h).prior = NoRow
      <3>1. snaps'[h] = SubSeq(snaps[h], 1, Len(snaps[h]) - 1) /\ pc' = pc
        BY <2>1 DEF UndoDel, Popped, BatchInv, TypeOK, StoreTypeOK
      <3>2. SnapshotsTrue(h)' /\ SnapshotsDistinct(h)' /\ UntouchedSame(h)'
        BY <1>1, <1>4, <2>1, <3>1, UndoPop
      <3>3. HalfUndone(h)'
        BY <1>1, <3>1 DEF HalfUndone
      <3> QED
        BY <1>5, <3>2, <3>3 DEF HandlerInv
    <2>2. CASE LastSnap(h).prior # NoRow
      <3>1. UNCHANGED snaps
        BY <2>2 DEF UndoDel
      <3>2. Snapped(h, LastSnap(h).key)
        BY <1>1, LastSnapshot DEF Snapped, LastSnap, BatchInv
      <3>3. SnapshotsTrue(h)' /\ SnapshotsDistinct(h)'
        BY <1>1, <3>1 DEF BatchInv, HandlerInv, SnapshotsTrue, SnapshotsDistinct, Holds
      <3>4. UntouchedSame(h)
        BY DEF BatchInv, HandlerInv
      <3>5. UntouchedSame(h)'
        BY <1>1, <1>4, <3>1, <3>2, <3>4 DEF UntouchedSame, Snapped, Holds
      <3>6. HalfUndone(h)'
        BY <1>1, <1>4, <3>1 DEF HalfUndone, LastSnap
      <3> QED
        BY <1>5, <3>3, <3>5, <3>6 DEF HandlerInv
    <2> QED
      BY <2>1, <2>2
  <1> QED
    BY <1>1, <1>2, <1>4, <1>6, OthersUntouched, OneMoves

\* The HSET of a rollback, on the row the DEL removed.
LEMMA UndoSetStep ==
  ASSUME BatchInv, TypeOK', NEW h \in Handlers, NEW ok \in BOOLEAN, UndoSet(h, ok)
  PROVE  BatchInv'
  <1> DEFINE c == HSet(LastSnap(h).key,
                       [f \in Present(LastSnap(h).prior) |-> LastSnap(h).prior[f]])
  <1>1. /\ pc[h] = "undoSet" /\ snaps[h] # <<>> /\ InBatch(h)
        /\ UndoOutcome(h, ok, c) /\ UNCHANGED <<lock, todo, pre>>
        /\ pc'[h] = "undoDel"
        /\ snaps'[h] = SubSeq(snaps[h], 1, Len(snaps[h]) - 1)
        /\ \A g \in Handlers \ {h} : pc'[g] = pc[g] /\ snaps'[g] = snaps[g]
    BY DEF UndoSet, InBatch, Popped, BatchInv, TypeOK, StoreTypeOK
  <1>2. LastSnap(h).key \in Keys /\ LastSnap(h).prior \in Row
    BY <1>1, LastSnapshot DEF BatchInv, TypeOK
  <1>3. /\ c \in Command /\ c.key = LastSnap(h).key
        /\ Patched(NoRow, c.upd) = LastSnap(h).prior
    BY <1>2, SetRestores
  <1> HIDE DEF c
  <1>4. /\ Holds(h, LastSnap(h).key)
        /\ \A k \in Keys : k # LastSnap(h).key => db'[k] = db[k]
        /\ ~torn'[h] => ~torn[h] /\ db'[c.key] = Patched(db[c.key], c.upd)
        /\ \A g \in Handlers \ {h} : torn'[g] = torn[g]
    BY <1>1, <1>3, UndoCommand
  <1>5. ~torn[h] => db[LastSnap(h).key] = NoRow
    BY <1>1 DEF BatchInv, HandlerInv, HalfUndone
  <1>6. SnapshotsTrue(h)' /\ SnapshotsDistinct(h)' /\ UntouchedSame(h)'
    BY <1>1, <1>3, <1>4, <1>5, UndoPop
  <1>7. CommandsGuarded(h)' /\ TornWhileUndoing(h)' /\ HalfUndone(h)'
    BY <1>1 DEF CommandsGuarded, TornWhileUndoing, HalfUndone
  <1>8. HandlerInv(h)'
    BY <1>6, <1>7 DEF HandlerInv
  <1> QED
    BY <1>1, <1>2, <1>4, <1>8, OthersUntouched, OneMoves

\* Every step of the write path keeps the invariant.
LEMMA InvStep == BatchInv /\ [Next]_storeVars => BatchInv'
  <1> SUFFICES ASSUME BatchInv, [Next]_storeVars PROVE BatchInv'
    OBVIOUS
  <1>1. TypeOK'
    BY TypeStep DEF BatchInv
  <1>2. ASSUME NEW h \in Handlers, Step(h) PROVE BatchInv'
    <2>1. CASE Arrive(h) \/ Reject(h) \/ Save(h) \/ Respond(h)
      BY <1>1, <2>1, QuietStep
    <2>2. CASE Begin(h)
      BY <1>1, <2>2, BeginStep
    <2>3. CASE Execute(h)
      BY <1>1, <2>3, ExecuteStep
    <2>4. CASE ExecuteFault(h)
      BY <1>1, <2>4, FaultStep
    <2>5. CASE Abort(h) \/ \E persist \in BOOLEAN : Commit(h, persist)
      BY <1>1, <2>5, FinishStep
    <2>6. CASE \E ok \in BOOLEAN : UndoDel(h, ok) \/ UndoSet(h, ok)
      BY <1>1, <2>6, UndoDelStep, UndoSetStep
    <2> QED
      BY <1>2, <2>1, <2>2, <2>3, <2>4, <2>5, <2>6 DEF Step, Run
  <1>3. CASE Kill \/ Reboot
    <2>1. \A h \in Handlers : pc'[h] = "idle" /\ snaps'[h] = <<>> /\ ~torn'[h]
      BY <1>3 DEF Kill, Reboot, Stopped
    <2>2. \A h \in Handlers : Len(snaps'[h]) = 0
      BY <2>1
    <2>3. \A h \in Handlers : SnapshotsDistinct(h)'
      BY <2>2 DEF SnapshotsDistinct
    <2>4. \A h \in Handlers : HandlerInv(h)'
      BY <2>1, <2>3, Idle
    <2> QED
      BY <1>1, <2>4 DEF BatchInv
  <1>4. CASE UNCHANGED storeVars
    BY <1>4 DEF storeVars, BatchInv, TypeOK, StoreTypeOK, HandlerInv, CommandsGuarded,
       SnapshotsTrue, SnapshotsDistinct, UntouchedSame, HalfUndone, TornWhileUndoing,
       InBatch, Holds, Snapped, LastSnap
  <1> QED
    BY <1>2, <1>3, <1>4 DEF Next

\* The agent starts with no request in flight.
LEMMA InvInit == Init => BatchInv
  <1> SUFFICES ASSUME Init PROVE BatchInv
    OBVIOUS
  <1> USE DEF Init, StoreInit
  <1>1. TypeOK
    BY StoreInitType, BatchConstants DEF TypeOK
  <1>2. \A h \in Handlers : Len(snaps[h]) = 0
    OBVIOUS
  <1>3. \A h \in Handlers : HandlerInv(h)
    BY <1>2 DEF HandlerInv, CommandsGuarded, SnapshotsTrue, SnapshotsDistinct,
       UntouchedSame, HalfUndone, TornWhileUndoing, InBatch
  <1> QED
    BY <1>1, <1>3 DEF BatchInv

----------------------------------------------------------------------------
(***************************************************************************)
(* store::apply and mgmtapi's write path keep every variable in its type:  *)
(* in particular every row in CONFIG_DB and in the saved file stays a row, *)
(* and only handlers hold mutexes.                                         *)
(***************************************************************************)
THEOREM TypeCorrect == Spec => []TypeOK
  <1>1. Init => TypeOK
    BY InvInit DEF BatchInv
  <1> QED
    BY <1>1, TypeStep, PTL DEF Spec

(***************************************************************************)
(* The invariant behind the rollback: commands stay under their mutex,     *)
(* snapshots are what the batch found, rows without one are unchanged.     *)
(***************************************************************************)
THEOREM Invariance == Spec => []BatchInv
  BY InvInit, InvStep, PTL DEF Spec

(***************************************************************************)
(* Batch::rollback: a failed batch whose rollback met no fault leaves the  *)
(* rows its mutex guards as it found them, for any database, plans,        *)
(* handlers, features, faults and kills.                                   *)
(***************************************************************************)
THEOREM RollbackSafe == Spec => []RollbackRestores
  <1>1. BatchInv => RollbackRestores
    <2> SUFFICES ASSUME BatchInv, NEW h \in Handlers, NEW k \in Keys, Holds(h, k),
                        pc[h] = "undoDel", snaps[h] = <<>>, ~torn[h]
                 PROVE  db[k] = pre[h][k]
      BY DEF RollbackRestores
    <2>1. UntouchedSame(h) /\ InBatch(h)
      BY DEF BatchInv, HandlerInv, InBatch
    <2>2. ~Snapped(h, k)
      BY DEF Snapped
    <2> QED
      BY <2>1, <2>2 DEF UntouchedSame
  <1> QED
    BY <1>1, Invariance, PTL

----------------------------------------------------------------------------
(***************************************************************************)
(* The write path implements AtomicConfig: seen through the committed      *)
(* configuration, every step of Batch is a step of AtomicConfig or leaves  *)
(* its state alone.                                                        *)
(***************************************************************************)
\* AtomicConfig and the proofs mean the same by the effect of a plan.
LEMMA SameAfter ==
  ASSUME NEW c, NEW p, NEW n
  PROVE  Abstract!After(c, p, n) = After(c, p, n)
  BY DEF Abstract!After, Abstract!Deciding, Abstract!Latest, After, Deciding, Decides, Latest

----------------------------------------------------------------------------
(***************************************************************************)
(* BatchInv does not say what a batch has written so far.  This does: a    *)
(* handler that is writing holds the mutex of one feature, is n commands   *)
(* into one of its plans, and in a batch the rows that mutex guards are    *)
(* what those n commands make of the rows the batch found.  A handler that *)
(* is not in its critical section holds no mutex.                          *)
(***************************************************************************)
OnlyHolds(h, f) == \A g \in Features : lock[g] = h <=> g = f
Remaining(h, p, n) ==
    /\ Len(todo[h]) = Len(p) - n
    /\ \A i \in 1..Len(todo[h]) : todo[h][i] = p[n + i]
Written(h, f, p, n) ==
    \A k \in Keys : Owner[k] = f => db[k] = After(pre[h], p, n)[k]
Course(h, f, p, n) ==
    /\ OnlyHolds(h, f) /\ Remaining(h, p, n)
    /\ pc[h] = "batch" => Written(h, f, p, n)
Underway(h) ==
    pc[h] \in {"batch", "plain"} =>
        \E f \in Features : \E p \in Plans[f] : \E n \in 0..Len(p) : Course(h, f, p, n)
FreeHanded(h) ==
    pc[h] \in {"idle", "queued", "save", "done"} => \A g \in Features : lock[g] # h

CourseInv == BatchInv /\ \A h \in Handlers : Underway(h) /\ FreeHanded(h)

\* Somebody else's step that leaves the handler's rows and mutexes alone.
LEMMA CourseFrame ==
  ASSUME NEW h \in Handlers, Underway(h), FreeHanded(h),
         pc'[h] = pc[h], todo'[h] = todo[h], pre'[h] = pre[h],
         \A f \in Features : lock'[f] = h <=> lock[f] = h,
         \A k \in Keys : Holds(h, k) => db'[k] = db[k]
  PROVE  Underway(h)' /\ FreeHanded(h)'
  <1>1. FreeHanded(h)'
    BY DEF FreeHanded
  <1>2. ASSUME pc[h] \in {"batch", "plain"} PROVE Underway(h)'
    <2>1. PICK f \in Features : \E p \in Plans[f] : \E n \in 0..Len(p) : Course(h, f, p, n)
      BY <1>2 DEF Underway
    <2>2. PICK p \in Plans[f] : \E n \in 0..Len(p) : Course(h, f, p, n)
      BY <2>1
    <2>3. PICK n \in 0..Len(p) : Course(h, f, p, n)
      BY <2>2
    <2>4. OnlyHolds(h, f)' /\ Remaining(h, p, n)'
      BY <2>3 DEF Course, OnlyHolds, Remaining
    <2>5. ASSUME pc[h] = "batch" PROVE Written(h, f, p, n)'
      <3>1. \A k \in Keys : Owner[k] = f => Holds(h, k)
        BY <2>3 DEF Course, OnlyHolds, Holds
      <3> QED
        BY <2>3, <2>5, <3>1 DEF Course, Written
    <2>6. Course(h, f, p, n)'
      BY <2>4, <2>5 DEF Course
    <2> QED
      BY <2>6 DEF Underway
  <1>3. CASE pc[h] \notin {"batch", "plain"}
    BY <1>1, <1>3 DEF Underway
  <1> QED
    BY <1>1, <1>2, <1>3

\* The same for all the handlers a step does not belong to.
LEMMA CourseMoves ==
  ASSUME CourseInv, BatchInv', NEW h \in Handlers, Underway(h)', FreeHanded(h)',
         \A g \in Handlers \ {h} :
            /\ pc'[g] = pc[g] /\ todo'[g] = todo[g] /\ pre'[g] = pre[g]
            /\ \A f \in Features : lock'[f] = g <=> lock[f] = g
            /\ \A k \in Keys : Holds(g, k) => db'[k] = db[k]
  PROVE  CourseInv'
  <1>1. ASSUME NEW g \in Handlers, g # h PROVE Underway(g)' /\ FreeHanded(g)'
    <2>1. Underway(g) /\ FreeHanded(g)
      BY DEF CourseInv
    <2> QED
      BY <1>1, <2>1, CourseFrame
  <1> QED
    BY <1>1 DEF CourseInv

\* Where a handler that is writing is, in its plan.
LEMMA Position ==
  ASSUME CourseInv, NEW h \in Handlers, pc[h] \in {"batch", "plain"}
  PROVE  \E f \in Features : \E p \in Plans[f] : \E n \in 0..Len(p) :
            p \in Seq(Command) /\ Len(p) \in Nat /\ Course(h, f, p, n)
  <1>1. PICK f \in Features : \E p \in Plans[f] : \E n \in 0..Len(p) : Course(h, f, p, n)
    BY DEF CourseInv, Underway
  <1>2. PICK p \in Plans[f] : \E n \in 0..Len(p) : Course(h, f, p, n)
    BY <1>1
  <1>3. PICK n \in 0..Len(p) : Course(h, f, p, n)
    BY <1>2
  <1>4. p \in Seq(Command) /\ Len(p) \in Nat
    BY BatchConstants, LenProperties
  <1> QED
    BY <1>3, <1>4

\* The next command of a plan is the one after the n that are done.
LEMMA NextOfPlan ==
  ASSUME CourseInv, NEW h \in Handlers, todo[h] # <<>>,
         NEW f \in Features, NEW p \in Plans[f], NEW n \in 0..Len(p),
         p \in Seq(Command), Len(p) \in Nat, Course(h, f, p, n)
  PROVE  /\ n \in Nat /\ n + 1 \in 1..Len(p) /\ n + 1 \in 0..Len(p)
         /\ Head(todo[h]) = p[n + 1] /\ Owner[p[n + 1].key] = f
         /\ p[n + 1].key \in Keys
         /\ Len(Tail(todo[h])) = Len(p) - (n + 1)
         /\ \A i \in 1..Len(Tail(todo[h])) : Tail(todo[h])[i] = p[n + 1 + i]
  <1>1. todo[h] \in Seq(Command)
    BY DEF CourseInv, BatchInv, TypeOK, StoreTypeOK
  <1>2. /\ Len(todo[h]) \in Nat \ {0} /\ Len(Tail(todo[h])) = Len(todo[h]) - 1
        /\ Head(todo[h]) = todo[h][1]
        /\ \A i \in 1..Len(Tail(todo[h])) : Tail(todo[h])[i] = todo[h][i + 1]
    BY <1>1, HeadTailProperties, EmptySeq, LenProperties
  <1>3. Len(todo[h]) = Len(p) - n /\ \A i \in 1..Len(todo[h]) : todo[h][i] = p[n + i]
    BY DEF Course, Remaining
  <1>4. n \in Nat /\ n + 1 \in 1..Len(p) /\ n + 1 \in 0..Len(p)
    <2> DEFINE m == Len(todo[h])  l == Len(p)
    <2>1. m \in Nat \ {0} /\ l \in Nat /\ n \in 0..l /\ m = l - n
      BY <1>2, <1>3
    <2> HIDE DEF m, l
    <2>2. n \in Nat /\ n + 1 \in 1..l /\ n + 1 \in 0..l
      BY <2>1
    <2> QED
      BY <2>2 DEF l
  <1>5. p[n + 1] \in Command
    BY <1>4, ElementOfSeq
  <1>6. Owner[p[n + 1].key] = f /\ p[n + 1].key \in Keys
    BY <1>4, <1>5, BatchConstants DEF Command
  <1>7. \A i \in 1..Len(Tail(todo[h])) : i + 1 \in 1..Len(todo[h]) /\ n + (i + 1) = n + 1 + i
    BY <1>2, <1>4
  <1>8. Head(todo[h]) = p[n + 1] /\ Len(Tail(todo[h])) = Len(p) - (n + 1)
    BY <1>2, <1>3, <1>4
  <1> QED
    BY <1>2, <1>3, <1>4, <1>6, <1>7, <1>8

\* feature_lock is taken: the plan is at its start.
LEMMA CourseBegin ==
  ASSUME CourseInv, BatchInv', NEW h \in Handlers, Begin(h)
  PROVE  CourseInv'
  <1>1. PICK f \in Features : \E p \in Plans[f] : \E b \in BOOLEAN : Admit(h, {f}, p, b)
    BY DEF Begin
  <1>2. PICK p \in Plans[f] : \E b \in BOOLEAN : Admit(h, {f}, p, b)
    BY <1>1
  <1>3. PICK b \in BOOLEAN : Admit(h, {f}, p, b)
    BY <1>2
  <1>4. TypeOK /\ p \in Seq(Command) /\ Len(p) \in Nat
    BY BatchConstants, LenProperties DEF CourseInv, BatchInv
  <1>5. /\ pc[h] = "queued" /\ lock[f] = NoOne /\ lock'[f] = h
        /\ \A e \in Features : e # f => lock'[e] = lock[e]
        /\ pc'[h] \in {"batch", "plain"} /\ (pc'[h] = "batch" => pre'[h] = db)
        /\ todo'[h] = p /\ db' = db
        /\ \A g \in Handlers \ {h} :
              pc'[g] = pc[g] /\ todo'[g] = todo[g] /\ pre'[g] = pre[g]
    BY <1>3, <1>4 DEF Admit, TypeOK, StoreTypeOK
  <1>6. OnlyHolds(h, f)'
    <2>1. \A e \in Features : lock[e] # h
      BY <1>5 DEF CourseInv, FreeHanded
    <2> QED
      BY <1>5, <2>1 DEF OnlyHolds
  <1>7. Remaining(h, p, 0)'
    <2>1. Len(p) = Len(p) - 0 /\ \A i \in 1..Len(p) : 0 + i = i
      BY <1>4
    <2> QED
      BY <1>5, <2>1 DEF Remaining
  <1>8. pc'[h] = "batch" => Written(h, f, p, 0)'
    BY <1>4, <1>5, AfterNone DEF Written, TypeOK, StoreTypeOK
  <1>9. Course(h, f, p, 0)' /\ 0 \in 0..Len(p)
    BY <1>4, <1>6, <1>7, <1>8 DEF Course
  <1>10. Underway(h)' /\ FreeHanded(h)'
    BY <1>5, <1>9 DEF Underway, FreeHanded
  <1>11. \A g \in Handlers \ {h} : \A e \in Features : lock'[e] = g <=> lock[e] = g
    BY <1>5, StoreConstants
  <1> QED
    BY <1>5, <1>10, <1>11, CourseMoves

\* One redis write of a plan: the handler is one command further.
LEMMA CourseExecute ==
  ASSUME CourseInv, BatchInv', NEW h \in Handlers, Execute(h)
  PROVE  CourseInv'
  <1>1. /\ pc[h] \in {"batch", "plain"} /\ todo[h] # <<>>
        /\ db' = Issue(db, Head(todo[h])) /\ todo'[h] = Tail(todo[h])
        /\ UNCHANGED <<lock, pc, pre>>
        /\ \A g \in Handlers \ {h} : todo'[g] = todo[g]
    BY DEF Execute, CourseInv, BatchInv, TypeOK, StoreTypeOK
  <1>2. PICK f \in Features : \E p \in Plans[f] : \E n \in 0..Len(p) :
            p \in Seq(Command) /\ Len(p) \in Nat /\ Course(h, f, p, n)
    BY <1>1, Position
  <1>3. PICK p \in Plans[f] : \E n \in 0..Len(p) :
            p \in Seq(Command) /\ Len(p) \in Nat /\ Course(h, f, p, n)
    BY <1>2
  <1>4. PICK n \in 0..Len(p) : p \in Seq(Command) /\ Len(p) \in Nat /\ Course(h, f, p, n)
    BY <1>3
  <1>5. /\ n \in Nat /\ n + 1 \in 1..Len(p) /\ n + 1 \in 0..Len(p)
        /\ Head(todo[h]) = p[n + 1] /\ Owner[p[n + 1].key] = f
        /\ p[n + 1].key \in Keys
        /\ Len(Tail(todo[h])) = Len(p) - (n + 1)
        /\ \A i \in 1..Len(Tail(todo[h])) : Tail(todo[h])[i] = p[n + 1 + i]
    BY <1>1, <1>4, NextOfPlan
  <1>6. /\ \A k \in Keys : k # p[n + 1].key => db'[k] = db[k]
        /\ db'[p[n + 1].key] = Patched(db[p[n + 1].key], p[n + 1].upd)
    <2>1. p[n + 1] \in Command /\ db \in [Keys -> Row]
      BY <1>4, <1>5, ElementOfSeq DEF CourseInv, BatchInv, TypeOK, StoreTypeOK
    <2>2. db' = Issue(db, p[n + 1])
      BY <1>1, <1>5
    <2> QED
      BY <2>1, <2>2, IssueFrame
  <1>7. OnlyHolds(h, f)' /\ Remaining(h, p, n + 1)'
    BY <1>1, <1>4, <1>5 DEF Course, OnlyHolds, Remaining
  <1>8. ASSUME pc'[h] = "batch" PROVE Written(h, f, p, n + 1)'
    <2> SUFFICES ASSUME NEW k \in Keys, Owner[k] = f
                 PROVE  db'[k] = After(pre[h], p, n + 1)[k]
      BY <1>1 DEF Written
    <2>1. db[k] = After(pre[h], p, n)[k]
      BY <1>1, <1>4, <1>8 DEF Course, Written
    <2>2. After(pre[h], p, n + 1) = Issue(After(pre[h], p, n), p[n + 1])
      BY <1>4, <1>5, AfterNext
    <2>3. After(pre[h], p, n) \in [Keys -> Row] /\ p[n + 1] \in Command
      BY <1>4, <1>5, AfterType, ElementOfSeq DEF CourseInv, BatchInv, TypeOK, StoreTypeOK
    <2>4. /\ After(pre[h], p, n + 1)[p[n + 1].key]
               = Patched(After(pre[h], p, n)[p[n + 1].key], p[n + 1].upd)
          /\ k # p[n + 1].key => After(pre[h], p, n + 1)[k] = After(pre[h], p, n)[k]
      BY <2>2, <2>3, IssueFrame
    <2> QED
      BY <1>6, <2>1, <2>4
  <1>9. Course(h, f, p, n + 1)'
    BY <1>7, <1>8 DEF Course
  <1>10. Underway(h)' /\ FreeHanded(h)'
    BY <1>1, <1>5, <1>9 DEF Underway, FreeHanded
  <1>11. \A g \in Handlers \ {h} : \A k \in Keys : Holds(g, k) => db'[k] = db[k]
    BY <1>4, <1>5, <1>6 DEF Holds, Course, OnlyHolds
  <1> QED
    BY <1>1, <1>10, <1>11, CourseMoves

\* A redis write of a plan fails: a batch turns back, the others are done.
LEMMA CourseFault ==
  ASSUME CourseInv, BatchInv', NEW h \in Handlers, ExecuteFault(h)
  PROVE  CourseInv'
  <1>0. BatchInv
    BY DEF CourseInv
  <1>1. /\ pc[h] \in {"batch", "plain"} /\ todo[h] # <<>>
        /\ db' \in {db, Issue(db, Head(todo[h]))} /\ UNCHANGED pre
        /\ pc'[h] = IF pc[h] = "batch" THEN "undoDel" ELSE "done"
        /\ lock' = IF pc[h] = "batch" THEN lock ELSE Released(h)
        /\ \A g \in Handlers \ {h} : pc'[g] = pc[g] /\ todo'[g] = todo[g]
    BY <1>0 DEF ExecuteFault, BatchInv, TypeOK, StoreTypeOK
  <1>2. /\ Head(todo[h]).key \in Keys /\ Holds(h, Head(todo[h]).key)
        /\ \A k \in Keys : k # Head(todo[h]).key => db'[k] = db[k]
    <2>1. Head(todo[h]) \in Command /\ Head(todo[h]).key \in Keys
      BY <1>0, <1>1, HeadCommand DEF BatchInv, TypeOK
    <2>2. \A k \in Keys : k # Head(todo[h]).key => Issue(db, Head(todo[h]))[k] = db[k]
      BY <1>0, <2>1, IssueFrame DEF BatchInv, TypeOK, StoreTypeOK
    <2> QED
      BY <1>0, <1>1, <2>1, <2>2, HeadGuarded
  <1>3. Underway(h)' /\ FreeHanded(h)'
    BY <1>1, StoreConstants DEF Underway, FreeHanded, Released
  <1>4. \A g \in Handlers \ {h} : \A f \in Features : lock'[f] = g <=> lock[f] = g
    BY <1>1, ReleasedFrame
  <1> QED
    BY <1>0, <1>1, <1>2, <1>3, <1>4, OthersUntouched, CourseMoves

\* A command of a rollback touches only rows the handler guards.
LEMMA UndoFrame ==
  ASSUME BatchInv, NEW h \in Handlers, NEW ok \in BOOLEAN, UndoDel(h, ok) \/ UndoSet(h, ok)
  PROVE  /\ pc[h] \in {"undoDel", "undoSet"} /\ pc'[h] \in {"undoDel", "undoSet"}
         /\ UNCHANGED <<lock, todo, pre>>
         /\ \A g \in Handlers \ {h} : pc'[g] = pc[g]
         /\ \A k \in Keys : ~Holds(h, k) => db'[k] = db[k]
  <1>1. /\ pc[h] \in {"undoDel", "undoSet"} /\ pc'[h] \in {"undoDel", "undoSet"}
        /\ UNCHANGED <<lock, todo, pre>> /\ snaps[h] # <<>> /\ InBatch(h)
        /\ \A g \in Handlers \ {h} : pc'[g] = pc[g]
    BY DEF UndoDel, UndoSet, InBatch, BatchInv, TypeOK, StoreTypeOK
  <1>2. LastSnap(h).key \in Keys /\ LastSnap(h).prior \in Row /\ db[LastSnap(h).key] \in Row
    BY <1>1, LastSnapshot DEF BatchInv, TypeOK, StoreTypeOK
  <1>3. CASE UndoDel(h, ok)
    <2> DEFINE c == Del(LastSnap(h).key)
    <2>1. c \in Command /\ c.key = LastSnap(h).key
      BY <1>2, DelClears
    <2>2. UndoOutcome(h, ok, c)
      BY <1>3 DEF UndoDel
    <2> HIDE DEF c
    <2>3. Holds(h, LastSnap(h).key) /\ \A k \in Keys : k # LastSnap(h).key => db'[k] = db[k]
      BY <1>1, <2>1, <2>2, UndoCommand
    <2> QED
      BY <1>1, <2>3
  <1>4. CASE UndoSet(h, ok)
    <2> DEFINE c == HSet(LastSnap(h).key,
                         [f \in Present(LastSnap(h).prior) |-> LastSnap(h).prior[f]])
    <2>1. c \in Command /\ c.key = LastSnap(h).key
      BY <1>2, SetRestores
    <2>2. UndoOutcome(h, ok, c)
      BY <1>4 DEF UndoSet
    <2> HIDE DEF c
    <2>3. Holds(h, LastSnap(h).key) /\ \A k \in Keys : k # LastSnap(h).key => db'[k] = db[k]
      BY <1>1, <2>1, <2>2, UndoCommand
    <2> QED
      BY <1>1, <2>3
  <1> QED
    BY <1>3, <1>4

\* Every step of the write path keeps the invariant.
LEMMA CourseStep == CourseInv /\ [Next]_storeVars => CourseInv'
  <1> SUFFICES ASSUME CourseInv, [Next]_storeVars PROVE CourseInv'
    OBVIOUS
  <1>1. BatchInv /\ TypeOK /\ BatchInv'
    BY InvStep DEF CourseInv, BatchInv
  <1>2. ASSUME NEW h \in Handlers, Arrive(h) \/ Reject(h) \/ Save(h) \/ Respond(h)
        PROVE  CourseInv'
    <2>1. /\ UNCHANGED <<db, lock, todo, pre>>
          /\ \A g \in Handlers \ {h} : pc'[g] = pc[g]
          /\ pc[h] \in {"idle", "queued", "save", "done"}
          /\ pc'[h] \in {"idle", "queued", "done"}
      BY <1>1, <1>2 DEF Arrive, Reject, Refuse, Save, Respond, TypeOK, StoreTypeOK
    <2>2. Underway(h)' /\ FreeHanded(h)'
      BY <2>1 DEF Underway, FreeHanded, CourseInv
    <2> QED
      BY <1>1, <2>1, <2>2, CourseMoves
  <1>3. ASSUME NEW h \in Handlers, Abort(h) \/ \E persist \in BOOLEAN : Commit(h, persist)
        PROVE  CourseInv'
    <2>1. /\ UNCHANGED <<db, todo>> /\ lock' = Released(h) /\ pc'[h] \in {"save", "done"}
          /\ \A g \in Handlers \ {h} : pc'[g] = pc[g] /\ pre'[g] = pre[g]
      BY <1>1, <1>3 DEF Abort, Commit, TypeOK, StoreTypeOK
    <2>2. Underway(h)' /\ FreeHanded(h)'
      BY <2>1, StoreConstants DEF Underway, FreeHanded, Released
    <2> QED
      BY <1>1, <2>1, <2>2, ReleasedFrame, CourseMoves
  <1>4. ASSUME NEW h \in Handlers, NEW ok \in BOOLEAN, UndoDel(h, ok) \/ UndoSet(h, ok)
        PROVE  CourseInv'
    <2>1. /\ pc[h] \in {"undoDel", "undoSet"} /\ pc'[h] \in {"undoDel", "undoSet"}
          /\ UNCHANGED <<lock, todo, pre>>
          /\ \A g \in Handlers \ {h} : pc'[g] = pc[g]
          /\ \A k \in Keys : ~Holds(h, k) => db'[k] = db[k]
      BY <1>1, <1>4, UndoFrame
    <2>2. Underway(h)' /\ FreeHanded(h)'
      BY <2>1 DEF Underway, FreeHanded
    <2>3. \A g \in Handlers \ {h} : \A k \in Keys : Holds(g, k) => db'[k] = db[k]
      BY <2>1 DEF Holds
    <2> QED
      BY <1>1, <2>1, <2>2, <2>3, CourseMoves
  <1>5. CASE Kill \/ Reboot
    <2>1. pc' = [h \in Handlers |-> "idle"] /\ lock' = [f \in Features |-> NoOne]
      BY <1>5 DEF Kill, Reboot, Stopped
    <2> QED
      BY <1>1, <2>1, StoreConstants DEF CourseInv, Underway, FreeHanded
  <1>6. CASE UNCHANGED storeVars
    <2>1. UNCHANGED <<db, lock, pc, todo, pre>>
      BY <1>6 DEF storeVars
    <2>2. ASSUME NEW h \in Handlers PROVE Underway(h)' /\ FreeHanded(h)'
      <3>1. Underway(h) /\ FreeHanded(h)
        BY DEF CourseInv
      <3> QED
        BY <2>1, <3>1, CourseFrame
    <2> QED
      BY <1>1, <2>2 DEF CourseInv
  <1> QED
    BY <1>1, <1>2, <1>3, <1>4, <1>5, <1>6, CourseBegin, CourseExecute, CourseFault
    DEF Next, Step, Run

\* Initially nobody writes and nobody holds a mutex.
LEMMA CourseInit == Init => CourseInv
  <1> SUFFICES ASSUME Init PROVE CourseInv
    OBVIOUS
  <1>1. BatchInv
    BY InvInit
  <1>2. pc = [h \in Handlers |-> "idle"] /\ lock = [f \in Features |-> NoOne]
    BY DEF Init, StoreInit
  <1> QED
    BY <1>1, <1>2, StoreConstants DEF CourseInv, Underway, FreeHanded

----------------------------------------------------------------------------
(* The committed configuration, row by row, before and after a step.       *)

\* The committed configuration is a configuration.
LEMMA CommittedType ==
  ASSUME TypeOK
  PROVE  Committed \in [Keys -> Row]
  <1> SUFFICES ASSUME NEW k \in Keys
               PROVE  (IF \E h \in Handlers : Holds(h, k) /\ InBatch(h)
                       THEN pre[lock[Owner[k]]][k] ELSE db[k]) \in Row
    BY DEF Committed
  <1> QED
    BY DEF TypeOK, StoreTypeOK, Holds

\* A held row is the one found by the holder's open batch, or the current one.
LEMMA CommittedRows ==
  ASSUME TypeOK, NEW k \in Keys
  PROVE  /\ \A h \in Handlers : Holds(h, k) =>
               Committed[k] = IF InBatch(h) THEN pre[h][k] ELSE db[k]
         /\ ~(\E h \in Handlers : Holds(h, k) /\ InBatch(h)) => Committed[k] = db[k]
         /\ lock[Owner[k]] = NoOne => Committed[k] = db[k]
  BY StoreConstants DEF Committed, Holds

\* The same after a step.
LEMMA CommittedRowsNext ==
  ASSUME TypeOK', NEW k \in Keys
  PROVE  /\ \A h \in Handlers : Holds(h, k)' =>
               Committed'[k] = IF InBatch(h)' THEN pre'[h][k] ELSE db'[k]
         /\ ~(\E h \in Handlers : Holds(h, k)' /\ InBatch(h)') => Committed'[k] = db'[k]
         /\ lock'[Owner[k]] = NoOne => Committed'[k] = db'[k]
  BY StoreConstants DEF Committed, Holds

(***************************************************************************)
(* Rows nobody's batch shadows stay, and shadowed rows stay shadowed by    *)
(* the same batch: the step is invisible.                                  *)
(***************************************************************************)
LEMMA Invisible ==
  ASSUME TypeOK, TypeOK', lock' = lock,
         \A h \in Handlers : /\ InBatch(h)' <=> InBatch(h)
                             /\ InBatch(h) => pre'[h] = pre[h],
         \A k \in Keys : ~(\E h \in Handlers : Holds(h, k) /\ InBatch(h)) => db'[k] = db[k]
  PROVE  Committed' = Committed
  <1> SUFFICES ASSUME NEW k \in Keys PROVE Committed'[k] = Committed[k]
    BY DEF Committed
  <1>1. \A h : Holds(h, k)' <=> Holds(h, k)
    BY DEF Holds
  <1>2. CASE \E h \in Handlers : Holds(h, k) /\ InBatch(h)
    BY <1>1, <1>2, CommittedRows, CommittedRowsNext
  <1>3. CASE ~(\E h \in Handlers : Holds(h, k) /\ InBatch(h))
    <2>1. Committed[k] = db[k]
      BY <1>3, CommittedRows
    <2>2. Committed'[k] = db'[k]
      BY <1>1, <1>3, CommittedRowsNext
    <2> QED
      BY <1>3, <2>1, <2>2
  <1> QED
    BY <1>2, <1>3

(***************************************************************************)
(* A step of handler h that leaves the others' mutexes, phases and rows    *)
(* alone changes only committed rows that h holds before or after it.      *)
(***************************************************************************)
LEMMA OnlyMine ==
  ASSUME TypeOK, TypeOK', NEW h \in Handlers,
         \A g \in Handlers \ {h} : /\ InBatch(g)' <=> InBatch(g)
                                   /\ pre'[g] = pre[g]
                                   /\ \A f \in Features : lock'[f] = g <=> lock[f] = g,
         NEW k \in Keys, ~Holds(h, k), ~Holds(h, k)', db'[k] = db[k]
  PROVE  Committed'[k] = Committed[k]
  <1>1. \A g \in Handlers : Holds(g, k)' <=> Holds(g, k)
    BY BatchConstants DEF Holds
  <1>2. CASE \E g \in Handlers : Holds(g, k) /\ InBatch(g)
    <2>1. PICK g \in Handlers : Holds(g, k) /\ InBatch(g)
      BY <1>2
    <2>2. g # h
      BY <2>1
    <2> QED
      BY <1>1, <2>1, <2>2, CommittedRows, CommittedRowsNext
  <1>3. CASE ~(\E g \in Handlers : Holds(g, k) /\ InBatch(g))
    <2>1. ~(\E g \in Handlers : Holds(g, k)' /\ InBatch(g)')
      BY <1>1, <1>3
    <2> QED
      BY <1>3, <2>1, CommittedRows, CommittedRowsNext
  <1> QED
    BY <1>2, <1>3

----------------------------------------------------------------------------
(* What each step does to the committed configuration.                     *)

\* Opening a batch, or starting without one, shows nothing.
LEMMA BeginHidden ==
  ASSUME CourseInv, BatchInv', NEW h \in Handlers, Begin(h)
  PROVE  Committed' = Committed
  <1>1. TypeOK /\ TypeOK'
    BY DEF CourseInv, BatchInv
  <1>2. PICK f \in Features : \E p \in Plans[f] : \E b \in BOOLEAN : Admit(h, {f}, p, b)
    BY DEF Begin
  <1>3. PICK p \in Plans[f], b \in BOOLEAN : Admit(h, {f}, p, b)
    BY <1>2
  <1>4. /\ pc[h] = "queued" /\ lock[f] = NoOne /\ lock'[f] = h
        /\ \A e \in Features : e # f => lock'[e] = lock[e]
        /\ pc'[h] \in {"batch", "plain"} /\ (pc'[h] = "batch" => pre'[h] = db)
        /\ db' = db
        /\ \A g \in Handlers \ {h} : pc'[g] = pc[g] /\ pre'[g] = pre[g]
    BY <1>1, <1>3 DEF Admit, TypeOK, StoreTypeOK
  <1> SUFFICES ASSUME NEW k \in Keys PROVE Committed'[k] = Committed[k]
    BY DEF Committed
  <1>5. Owner[k] \in Features
    BY BatchConstants
  <1>6. CASE Owner[k] = f
    <2>1. Committed[k] = db[k]
      BY <1>1, <1>4, <1>6, CommittedRows
    <2>2. Committed'[k] = IF InBatch(h)' THEN pre'[h][k] ELSE db'[k]
      BY <1>1, <1>4, <1>6, CommittedRowsNext DEF Holds
    <2> QED
      BY <1>4, <2>1, <2>2 DEF InBatch
  <1>7. CASE Owner[k] # f
    <2>1. ~Holds(h, k) /\ ~Holds(h, k)'
      BY <1>4, <1>5, <1>7 DEF Holds, CourseInv, FreeHanded
    <2>2. \A g \in Handlers \ {h} : /\ InBatch(g)' <=> InBatch(g)
                                    /\ pre'[g] = pre[g]
                                    /\ \A e \in Features : lock'[e] = g <=> lock[e] = g
      BY <1>4, StoreConstants DEF InBatch
    <2> QED
      BY <1>1, <1>4, <2>1, <2>2, OnlyMine
  <1> QED
    BY <1>6, <1>7

(***************************************************************************)
(* A redis write inside a batch shows nothing, answered or not; a write    *)
(* outside a batch shows as one command, unless it failed unapplied.       *)
(***************************************************************************)
LEMMA WriteSeen ==
  ASSUME CourseInv, BatchInv', NEW h \in Handlers, Execute(h) \/ ExecuteFault(h)
  PROVE  Committed' = Committed \/ Abstract!Single
  <1>0. BatchInv /\ TypeOK /\ TypeOK'
    BY DEF CourseInv, BatchInv
  <1>1. /\ pc[h] \in {"batch", "plain"} /\ todo[h] # <<>>
        /\ db' \in {db, Issue(db, Head(todo[h]))} /\ UNCHANGED pre
        /\ pc[h] = "batch" => lock' = lock /\ pc'[h] \in {"batch", "undoDel"}
        /\ pc[h] = "plain" => lock' \in {lock, Released(h)} /\ pc'[h] \in {"plain", "done"}
        /\ \A g \in Handlers \ {h} : pc'[g] = pc[g]
    BY <1>0 DEF Execute, ExecuteFault, TypeOK, StoreTypeOK
  <1>2. PICK f \in Features : \E p \in Plans[f] : \E n \in 0..Len(p) :
            p \in Seq(Command) /\ Len(p) \in Nat /\ Course(h, f, p, n)
    BY <1>1, Position
  <1>2a. PICK p \in Plans[f] : \E n \in 0..Len(p) :
            p \in Seq(Command) /\ Len(p) \in Nat /\ Course(h, f, p, n)
    BY <1>2
  <1>3. PICK n \in 0..Len(p) : p \in Seq(Command) /\ Len(p) \in Nat /\ Course(h, f, p, n)
    BY <1>2a
  <1>4. /\ n + 1 \in 1..Len(p) /\ Head(todo[h]) = p[n + 1]
        /\ Owner[p[n + 1].key] = f /\ p[n + 1].key \in Keys
    BY <1>1, <1>3, NextOfPlan
  <1> DEFINE k0 == p[n + 1].key
  <1>5. /\ \A k \in Keys : Holds(h, k) <=> Owner[k] = f
        /\ Holds(h, k0)
    BY <1>3, <1>4, BatchConstants DEF Course, OnlyHolds, Holds
  <1>6. /\ \A k \in Keys : k # k0 => db'[k] = db[k]
        /\ db' = db \/ db'[k0] = Patched(db[k0], p[n + 1].upd)
    <2>1. p[n + 1] \in Command
      BY <1>3, <1>4, ElementOfSeq
    <2>2. db \in [Keys -> Row] /\ db' \in {db, Issue(db, p[n + 1])}
      BY <1>0, <1>1, <1>4 DEF TypeOK, StoreTypeOK
    <2> QED
      BY <2>1, <2>2, IssueFrame
  <1>7. CASE pc[h] = "batch"
    <2>1. \A g \in Handlers : InBatch(g)' <=> InBatch(g)
      BY <1>1, <1>7 DEF InBatch
    <2>2. \A k \in Keys : ~(\E g \in Handlers : Holds(g, k) /\ InBatch(g)) => db'[k] = db[k]
      BY <1>5, <1>6, <1>7 DEF InBatch
    <2> QED
      BY <1>0, <1>1, <1>7, <2>1, <2>2, Invisible
  <1>8. CASE pc[h] = "plain"
    <2>1. /\ ~InBatch(h) /\ ~InBatch(h)'
          /\ \A g \in Handlers \ {h} : InBatch(g)' <=> InBatch(g)
      BY <1>1, <1>8 DEF InBatch
    <2>2. /\ \A g \in Handlers \ {h} : \A e \in Features : lock'[e] = g <=> lock[e] = g
          /\ \A e \in Features : lock[e] # h => lock'[e] = lock[e]
          /\ \A e \in Features : lock[e] = h => lock'[e] \in {h, NoOne}
      BY <1>1, <1>8, ReleasedFrame DEF Released
    <2>3. ASSUME NEW k \in Keys
          PROVE  Committed'[k] = IF k = k0 THEN db'[k0] ELSE Committed[k]
      <3>1. Owner[k] \in Features
        BY BatchConstants
      <3>2. CASE Holds(h, k)
        <4>1. Committed[k] = db[k]
          BY <1>0, <2>1, <3>2, CommittedRows
        <4>2. Holds(h, k)' \/ lock'[Owner[k]] = NoOne
          BY <2>2, <3>1, <3>2 DEF Holds
        <4>3. Committed'[k] = db'[k]
          BY <1>0, <2>1, <4>2, CommittedRowsNext
        <4> QED
          BY <1>6, <4>1, <4>3
      <3>3. CASE ~Holds(h, k)
        <4>1. ~Holds(h, k)' /\ k # k0
          BY <1>5, <2>2, <3>1, <3>3 DEF Holds
        <4>2. Committed'[k] = Committed[k]
          BY <1>0, <1>1, <1>6, <2>1, <2>2, <3>3, <4>1, OnlyMine
        <4> QED
          BY <4>1, <4>2
      <3> QED
        BY <3>2, <3>3
    <2>4. Committed[k0] = db[k0]
      BY <1>0, <1>4, <1>5, <2>1, CommittedRows
    <2>5. CASE db' = db
      <3>1. \A k \in Keys : Committed'[k] = Committed[k]
        BY <2>3, <2>4, <2>5
      <3> QED
        BY <3>1 DEF Committed
    <2>6. CASE db'[k0] = Patched(db[k0], p[n + 1].upd)
      <3> DEFINE new == Patched(Committed[k0], p[n + 1].upd)
      <3>1. \A k \in Keys : Committed'[k] = IF k = k0 THEN new ELSE Committed[k]
        BY <2>3, <2>4, <2>6
      <3> HIDE DEF new
      <3>2. Committed' = [Committed EXCEPT ![k0] = new]
        BY <1>4, <3>1 DEF Committed
      <3>3. Abstract!One(Committed, p[n + 1]) = [Committed EXCEPT ![k0] = new]
        BY DEF Abstract!One, Abstract!Patch, Patched, new
      <3> QED
        BY <1>4, <3>2, <3>3 DEF Abstract!Single
    <2> QED
      BY <1>6, <2>5, <2>6
  <1> QED
    BY <1>1, <1>7, <1>8

\* A batch shows as a whole when it commits; a plain handler's end shows nothing.
LEMMA CommitSeen ==
  ASSUME CourseInv, BatchInv', NEW h \in Handlers, NEW persist \in BOOLEAN, Commit(h, persist)
  PROVE  Committed' = Committed \/ Abstract!Batch
  <1>0. BatchInv /\ TypeOK /\ TypeOK'
    BY DEF CourseInv, BatchInv
  <1>1. /\ pc[h] \in {"batch", "plain"} /\ todo[h] = <<>>
        /\ db' = db /\ lock' = Released(h) /\ pc'[h] \in {"save", "done"}
        /\ \A g \in Handlers \ {h} : pc'[g] = pc[g] /\ pre'[g] = pre[g]
    BY <1>0 DEF Commit, TypeOK, StoreTypeOK
  <1>2. PICK f \in Features : \E p \in Plans[f] : \E n \in 0..Len(p) :
            p \in Seq(Command) /\ Len(p) \in Nat /\ Course(h, f, p, n)
    BY <1>1, Position
  <1>3. PICK p \in Plans[f] : \E n \in 0..Len(p) :
            p \in Seq(Command) /\ Len(p) \in Nat /\ Course(h, f, p, n)
    BY <1>2
  <1>4. PICK n \in 0..Len(p) : p \in Seq(Command) /\ Len(p) \in Nat /\ Course(h, f, p, n)
    BY <1>3
  <1>5. n = Len(p)
    <2>1. Len(todo[h]) = 0 /\ Len(todo[h]) = Len(p) - n
      BY <1>1, <1>4 DEF Course, Remaining
    <2> QED
      BY <1>4, <2>1
  <1>6. \A k \in Keys : Holds(h, k) <=> Owner[k] = f
    BY <1>4, BatchConstants DEF Course, OnlyHolds, Holds
  <1>7. ASSUME NEW k \in Keys
        PROVE  /\ Holds(h, k) => Committed'[k] = db[k]
               /\ ~Holds(h, k) => Committed'[k] = Committed[k]
    <2>1. Owner[k] \in Features
      BY BatchConstants
    <2>2. CASE Holds(h, k)
      <3>1. lock'[Owner[k]] = NoOne
        BY <1>1, <2>1, <2>2 DEF Released, Holds
      <3> QED
        BY <1>0, <1>1, <2>2, <3>1, CommittedRowsNext
    <2>3. CASE ~Holds(h, k)
      <3>1. ~Holds(h, k)'
        BY <1>1, <2>1, <2>3 DEF Released, Holds
      <3>2. \A g \in Handlers \ {h} : /\ InBatch(g)' <=> InBatch(g)
                                      /\ pre'[g] = pre[g]
                                      /\ \A e \in Features : lock'[e] = g <=> lock[e] = g
        BY <1>1, ReleasedFrame DEF InBatch
      <3> QED
        BY <1>0, <1>1, <2>3, <3>1, <3>2, OnlyMine
    <2> QED
      BY <2>2, <2>3
  <1>8. CASE pc[h] = "plain"
    <2>1. \A k \in Keys : Holds(h, k) => Committed[k] = db[k]
      BY <1>0, <1>8, CommittedRows DEF InBatch
    <2>2. \A k \in Keys : Committed'[k] = Committed[k]
      BY <1>7, <2>1
    <2> QED
      BY <2>2 DEF Committed
  <1>9. CASE pc[h] = "batch"
    <2>1. Committed \in [Keys -> Row] /\ pre[h] \in [Keys -> Row]
      BY <1>0, CommittedType DEF TypeOK, StoreTypeOK
    <2>2. ASSUME NEW k \in Keys PROVE Committed'[k] = After(Committed, p, Len(p))[k]
      <3>1. CASE Holds(h, k)
        <4>1. Committed[k] = pre[h][k]
          BY <1>0, <1>9, <3>1, CommittedRows DEF InBatch
        <4>2. db[k] = After(pre[h], p, Len(p))[k]
          BY <1>4, <1>5, <1>6, <1>9, <3>1 DEF Course, Written
        <4>3. After(Committed, p, Len(p))[k] = After(pre[h], p, Len(p))[k]
          BY <1>4, <2>1, <4>1, AfterLocal
        <4> QED
          BY <1>7, <3>1, <4>2, <4>3
      <3>2. CASE ~Holds(h, k)
        <4>1. \A i \in 1..Len(p) : p[i].key # k
          BY <1>6, <3>2, BatchConstants
        <4>2. After(Committed, p, Len(p))[k] = Committed[k]
          BY <1>4, <2>1, <4>1, AfterLocal
        <4> QED
          BY <1>7, <3>2, <4>2
      <3> QED
        BY <3>1, <3>2
    <2>3. Committed' = After(Committed, p, Len(p))
      BY <2>2 DEF Committed, After
    <2> QED
      BY <2>3, SameAfter DEF Abstract!Batch, Abstract!Whole
  <1> QED
    BY <1>1, <1>8, <1>9

\* The end of a rollback shows nothing, unless a command of it failed.
LEMMA AbortSeen ==
  ASSUME CourseInv, BatchInv', NEW h \in Handlers, Abort(h), ~torn[h]
  PROVE  Committed' = Committed
  <1>0. BatchInv /\ TypeOK /\ TypeOK'
    BY DEF CourseInv, BatchInv
  <1>1. /\ InBatch(h) /\ snaps[h] = <<>>
        /\ db' = db /\ lock' = Released(h)
        /\ \A g \in Handlers \ {h} : pc'[g] = pc[g] /\ pre'[g] = pre[g]
    BY <1>0 DEF Abort, InBatch, TypeOK, StoreTypeOK
  <1>2. Len(snaps[h]) = 0
    BY <1>1
  <1>3. \A k \in Keys : ~Snapped(h, k)
    BY <1>2 DEF Snapped
  <1> SUFFICES ASSUME NEW k \in Keys PROVE Committed'[k] = Committed[k]
    BY DEF Committed
  <1>4. Owner[k] \in Features
    BY BatchConstants
  <1>5. CASE Holds(h, k)
    <2>1. Committed[k] = pre[h][k]
      BY <1>0, <1>1, <1>5, CommittedRows
    <2>2. db[k] = pre[h][k]
      BY <1>0, <1>1, <1>3, <1>5 DEF BatchInv, HandlerInv, UntouchedSame
    <2>3. lock'[Owner[k]] = NoOne
      BY <1>1, <1>4, <1>5 DEF Released, Holds
    <2> QED
      BY <1>0, <1>1, <2>1, <2>2, <2>3, CommittedRowsNext
  <1>6. CASE ~Holds(h, k)
    <2>1. ~Holds(h, k)'
      BY <1>1, <1>4, <1>6 DEF Released, Holds
    <2>2. \A g \in Handlers \ {h} : /\ InBatch(g)' <=> InBatch(g)
                                    /\ pre'[g] = pre[g]
                                    /\ \A e \in Features : lock'[e] = g <=> lock[e] = g
      BY <1>1, ReleasedFrame DEF InBatch
    <2> QED
      BY <1>0, <1>1, <1>6, <2>1, <2>2, OnlyMine
  <1> QED
    BY <1>5, <1>6

----------------------------------------------------------------------------
(* The refinement.                                                         *)

\* Every step is a step of AtomicConfig, or none.
LEMMA Simulates == CourseInv /\ [Next]_storeVars => [Abstract!Next]_(Abstract!vars)
  <1> SUFFICES ASSUME CourseInv, [Next]_storeVars
               PROVE  [Abstract!Next]_(Abstract!vars)
    OBVIOUS
  <1> DEFINE flawed == \E h \in Handlers : torn[h]
  <1>0. BatchInv /\ BatchInv' /\ TypeOK /\ TypeOK'
    BY InvStep DEF CourseInv, BatchInv
  <1>1. Committed' \in Abstract!Configs
    <2>1. Committed' = [k \in Keys |-> Committed'[k]]
      BY DEF Committed
    <2>2. ASSUME NEW k \in Keys PROVE Committed'[k] \in Row
      <3>1. ASSUME NEW h \in Handlers, Holds(h, k)' PROVE Committed'[k] \in Row
        <4>1. Committed'[k] = IF InBatch(h)' THEN pre'[h][k] ELSE db'[k]
          BY <1>0, <3>1, CommittedRowsNext
        <4> QED
          BY <1>0, <4>1 DEF TypeOK, StoreTypeOK
      <3>2. CASE ~(\E h \in Handlers : Holds(h, k)')
        BY <1>0, <3>2, CommittedRowsNext DEF TypeOK, StoreTypeOK
      <3> QED
        BY <3>1, <3>2
    <2> QED
      BY <2>1, <2>2 DEF Abstract!Configs, Row
  <1>2. flawed' \in BOOLEAN
    OBVIOUS
  <1>3. ASSUME UNCHANGED stops,
               Abstract!Batch \/ Abstract!Single \/ Abstract!Tear \/ Committed' = Committed
        PROVE  Abstract!Next
    BY <1>2, <1>3 DEF Abstract!Next, Abstract!Write
  <1>4. ASSUME NEW h \in Handlers, Arrive(h) \/ Reject(h) \/ Save(h) \/ Respond(h)
        PROVE  Abstract!Next
    <2>1. /\ UNCHANGED <<db, lock, pre, stops>>
          /\ \A g \in Handlers : InBatch(g)' <=> InBatch(g)
      BY <1>0, <1>4 DEF Arrive, Reject, Refuse, Save, Respond, InBatch, TypeOK, StoreTypeOK
    <2>2. Committed' = Committed
      BY <1>0, <2>1, Invisible
    <2> QED
      BY <1>3, <2>1, <2>2
  <1>5. ASSUME NEW h \in Handlers, Begin(h) PROVE Abstract!Next
    <2>1. UNCHANGED stops
      BY <1>5 DEF Begin, Admit
    <2> QED
      BY <1>0, <1>3, <1>5, <2>1, BeginHidden
  <1>6. ASSUME NEW h \in Handlers, Execute(h) \/ ExecuteFault(h) PROVE Abstract!Next
    <2>1. UNCHANGED stops
      BY <1>6 DEF Execute, ExecuteFault
    <2> QED
      BY <1>0, <1>3, <1>6, <2>1, WriteSeen
  <1>7. ASSUME NEW h \in Handlers, NEW persist \in BOOLEAN, Commit(h, persist)
        PROVE  Abstract!Next
    <2>1. UNCHANGED stops
      BY <1>7 DEF Commit
    <2> QED
      BY <1>0, <1>3, <1>7, <2>1, CommitSeen
  <1>8. ASSUME NEW h \in Handlers, Abort(h) PROVE Abstract!Next
    <2>1. UNCHANGED stops
      BY <1>8 DEF Abort
    <2>2. CASE torn[h]
      BY <1>1, <1>3, <2>1, <2>2 DEF Abstract!Tear
    <2>3. CASE ~torn[h]
      BY <1>0, <1>3, <1>8, <2>1, <2>3, AbortSeen
    <2> QED
      BY <2>2, <2>3
  <1>9. ASSUME NEW h \in Handlers, NEW ok \in BOOLEAN, UndoDel(h, ok) \/ UndoSet(h, ok)
        PROVE  Abstract!Next
    <2>1. UNCHANGED stops
      BY <1>9 DEF UndoDel, UndoSet
    <2>2. /\ pc[h] \in {"undoDel", "undoSet"} /\ pc'[h] \in {"undoDel", "undoSet"}
          /\ UNCHANGED <<lock, todo, pre>>
          /\ \A g \in Handlers \ {h} : pc'[g] = pc[g]
          /\ \A k \in Keys : ~Holds(h, k) => db'[k] = db[k]
      BY <1>0, <1>9, UndoFrame
    <2>3. InBatch(h) /\ \A g \in Handlers : InBatch(g)' <=> InBatch(g)
      BY <2>2 DEF InBatch
    <2>4. Committed' = Committed
      BY <1>0, <2>2, <2>3, Invisible
    <2> QED
      BY <1>3, <2>1, <2>4
  <1>10. CASE Kill \/ Reboot
    <2>1. stops' = stops + 1 /\ torn' = [h \in Handlers |-> FALSE]
      BY <1>10 DEF Kill, Reboot, Stopped
    <2>2. flawed' = FALSE
      BY <2>1
    <2> QED
      BY <1>1, <2>1, <2>2 DEF Abstract!Next, Abstract!Stop
  <1>11. CASE UNCHANGED storeVars
    <2>1. UNCHANGED <<db, lock, pc, pre, torn, stops>>
      BY <1>11 DEF storeVars
    <2>2. UNCHANGED Committed
      BY <2>1 DEF Committed, Holds, InBatch
    <2> QED
      BY <2>1, <2>2 DEF Abstract!vars
  <1> QED
    BY <1>4, <1>5, <1>6, <1>7, <1>8, <1>9, <1>10, <1>11 DEF Next, Step, Run

\* The initial configuration, with no mutex held, is the committed one.
LEMMA Starts == Init => Abstract!Init
  <1> SUFFICES ASSUME Init PROVE Abstract!Init
    OBVIOUS
  <1>1. TypeOK
    BY InvInit DEF BatchInv
  <1>2. Committed \in Abstract!Configs
    BY <1>1, CommittedType DEF Abstract!Configs, Row
  <1>3. stops = 0 /\ (\E h \in Handlers : torn[h]) = FALSE
    BY DEF Init, StoreInit
  <1> QED
    BY <1>2, <1>3 DEF Abstract!Init

(***************************************************************************)
(* feature_lock and store::apply together, for any plans that stay within  *)
(* the rows their feature's mutex guards, any number of handlers and any   *)
(* failures: seen from outside, CONFIG_DB moves by whole batches or by     *)
(* single commands of handlers that do not batch, unless a command of a    *)
(* rollback itself fails or the agent is stopped.                          *)
(***************************************************************************)
THEOREM BatchAtomic == Spec => AllOrNothing
  <1>1. Init => CourseInv
    BY CourseInit
  <1>2. CourseInv /\ [Next]_storeVars => CourseInv'
    BY CourseStep
  <1>3. CourseInv /\ [Next]_storeVars => [Abstract!Next]_(Abstract!vars)
    BY Simulates
  <1>4. Init => Abstract!Init
    BY Starts
  <1> QED
    BY <1>1, <1>2, <1>3, <1>4, PTL DEF Spec, AllOrNothing, Abstract!Spec
=============================================================================
