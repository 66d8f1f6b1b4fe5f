---------------------------- MODULE StoreProofs ----------------------------
(***************************************************************************)
(* What the proofs about modules built on Store share: what the redis      *)
(* commands do to a row, and that every action of the write path keeps its *)
(* variables in their types, for any plan of well-formed commands.         *)
(***************************************************************************)
EXTENDS Store, SequenceTheorems, FiniteSetTheorems, WellFoundedInduction, TLAPS

----------------------------------------------------------------------------
(* What the redis commands do to a row.                                    *)

\* A patched row is a row.
LEMMA PatchedType ==
  ASSUME NEW r \in Row, NEW u \in Update
  PROVE  Patched(r, u) \in Row
  BY DEF Patched, Row, Update

\* A command changes only the row it addresses.
LEMMA IssueFrame ==
  ASSUME NEW d \in [Keys -> Row], NEW c \in Command
  PROVE  /\ Issue(d, c) \in [Keys -> Row]
         /\ Issue(d, c)[c.key] = Patched(d[c.key], c.upd)
         /\ \A k \in Keys : k # c.key => Issue(d, c)[k] = d[k]
  <1>1. c.key \in Keys /\ c.upd \in Update
    BY DEF Command
  <1>2. Patched(d[c.key], c.upd) \in Row
    BY <1>1, PatchedType
  <1> QED
    BY <1>1, <1>2 DEF Issue

\* DEL leaves no row, whatever was there.
LEMMA DelClears ==
  ASSUME NEW k \in Keys, NEW r \in Row
  PROVE  Del(k) \in Command /\ Del(k).key = k /\ Patched(r, Del(k).upd) = NoRow
  BY StoreConstants DEF Del, Command, Update, Patched, NoRow, Row

\* The HSET of Batch::rollback, on a row that is gone, gives the prior row.
LEMMA SetRestores ==
  ASSUME NEW k \in Keys, NEW prior \in Row
  PROVE  LET c == HSet(k, [f \in Present(prior) |-> prior[f]])
         IN  c \in Command /\ c.key = k /\ Patched(NoRow, c.upd) = prior
  <1> DEFINE vals == [f \in Present(prior) |-> prior[f]]
             u == [f \in Fields |-> IF f \in DOMAIN vals THEN vals[f] ELSE Keep]
  <1>1. \A f \in Fields : u[f] = IF prior[f] # Absent THEN prior[f] ELSE Keep
    BY DEF Present
  <1>2. u \in Update
    BY <1>1 DEF Update, Row
  <1>3. \A f \in Fields : (IF u[f] = Keep THEN NoRow[f] ELSE u[f]) = prior[f]
    BY <1>1, StoreConstants DEF NoRow, Row
  <1>4. Patched(NoRow, u) = prior
    BY <1>3 DEF Patched, Row
  <1>5. HSet(k, vals) = [key |-> k, upd |-> u]
    BY DEF HSet
  <1> QED
    BY <1>2, <1>4, <1>5 DEF Command

\* Adding an element at the end of a sequence.
LEMMA PushLast ==
  ASSUME NEW S, NEW s \in Seq(S), NEW e \in S
  PROVE  /\ Len(Append(s, e)) = Len(s) + 1
         /\ \A i \in 1..Len(s) : Append(s, e)[i] = s[i]
         /\ Append(s, e)[Len(s) + 1] = e
  BY AppendProperties, LenProperties

\* Dropping the last element of a sequence.
LEMMA PopLast ==
  ASSUME NEW S, NEW s \in Seq(S), s # <<>>
  PROVE  LET t == SubSeq(s, 1, Len(s) - 1)
         IN  /\ t \in Seq(S)
             /\ Len(t) = Len(s) - 1
             /\ \A i \in 1..Len(t) : t[i] = s[i]
             /\ Len(s) \in 1..Len(s)
  <1>1. Len(s) \in Nat \ {0} /\ \A i \in 1..Len(s) : s[i] \in S
    BY EmptySeq, LenProperties
  <1> DEFINE n == Len(s) - 1
  <1>2. n \in Nat /\ \A i \in 1..n : s[i] \in S
    BY <1>1
  <1> HIDE DEF n
  <1>3. /\ SubSeq(s, 1, n) \in Seq(S)
        /\ Len(SubSeq(s, 1, n)) = IF 1 <= n THEN n - 1 + 1 ELSE 0
        /\ \A i \in 1..(n - 1 + 1) : SubSeq(s, 1, n)[i] = s[1 + i - 1]
    BY <1>2, SubSeqProperties
  <1>4. Len(SubSeq(s, 1, n)) = n /\ \A i \in 1..n : SubSeq(s, 1, n)[i] = s[i]
    BY <1>2, <1>3
  <1> QED
    BY <1>1, <1>3, <1>4 DEF n

----------------------------------------------------------------------------
(* Type correctness.                                                       *)

\* A snapshot is taken of a row as it is.
LEMMA WithSnapshotType ==
  ASSUME StoreTypeOK, NEW h \in Handlers, NEW k \in Keys
  PROVE  WithSnapshot(h, k) \in Seq(Snapshot)
  <1>1. [key |-> k, prior |-> db[k]] \in Snapshot /\ snaps[h] \in Seq(Snapshot)
    BY DEF StoreTypeOK, Snapshot
  <1> QED
    BY <1>1, AppendProperties DEF WithSnapshot

\* The next command of a plan, and what it leaves of plan and database.
LEMMA HeadCommand ==
  ASSUME StoreTypeOK, NEW h \in Handlers, todo[h] # <<>>
  PROVE  /\ Head(todo[h]) \in Command /\ Head(todo[h]).key \in Keys
         /\ Tail(todo[h]) \in Seq(Command)
         /\ Len(todo[h]) \in Nat \ {0}
         /\ Issue(db, Head(todo[h])) \in [Keys -> Row]
  <1>1. todo[h] \in Seq(Command) /\ db \in [Keys -> Row]
    BY DEF StoreTypeOK
  <1>2. Head(todo[h]) \in Command /\ Tail(todo[h]) \in Seq(Command)
        /\ Len(todo[h]) \in Nat \ {0}
    BY <1>1, HeadTailProperties, EmptySeq
  <1> QED
    BY <1>1, <1>2, IssueFrame DEF Command

\* The snapshot a rollback is about to restore.
LEMMA LastSnapshot ==
  ASSUME StoreTypeOK, NEW h \in Handlers, snaps[h] # <<>>
  PROVE  /\ LastSnap(h) \in Snapshot
         /\ LastSnap(h).key \in Keys /\ LastSnap(h).prior \in Row
         /\ Len(snaps[h]) \in 1..Len(snaps[h])
         /\ Popped(h) \in [Handlers -> Seq(Snapshot)]
  <1>1. snaps[h] \in Seq(Snapshot) /\ snaps \in [Handlers -> Seq(Snapshot)]
    BY DEF StoreTypeOK
  <1>2. Len(snaps[h]) \in 1..Len(snaps[h])
        /\ SubSeq(snaps[h], 1, Len(snaps[h]) - 1) \in Seq(Snapshot)
    BY <1>1, PopLast
  <1>3. LastSnap(h) \in Snapshot
    BY <1>1, <1>2, LenProperties DEF LastSnap
  <1> QED
    BY <1>1, <1>2, <1>3 DEF Snapshot, Popped

\* One command of a rollback, failed or not.
LEMMA UndoOutcomeType ==
  ASSUME StoreTypeOK, NEW h \in Handlers, NEW ok \in BOOLEAN, NEW c \in Command,
         UndoOutcome(h, ok, c)
  PROVE  /\ db' \in [Keys -> Row]
         /\ torn' \in [Handlers -> BOOLEAN]
         /\ faults' \in 0..MaxFaults
  <1>1. Issue(db, c) \in [Keys -> Row]
    BY IssueFrame DEF StoreTypeOK
  <1>2. torn' \in [Handlers -> BOOLEAN]
    BY DEF UndoOutcome, StoreTypeOK
  <1> QED
    BY <1>1, <1>2, StoreConstants DEF UndoOutcome, StoreTypeOK

----------------------------------------------------------------------------
(* One lemma per action or group of actions.                               *)

\* Nothing is in the database that no batch was opened on.
LEMMA NoConfigType == NoConfig \in [Keys -> Row]
  BY DEF NoConfig, NoRow, Row

\* Giving mutexes back.
LEMMA ReleasedType ==
  ASSUME StoreTypeOK, NEW h \in Handlers
  PROVE  Released(h) \in [Features -> Handlers \cup {NoOne}]
  BY DEF Released, StoreTypeOK

\* A request arrives.
LEMMA ArriveType ==
  ASSUME StoreTypeOK, NEW h \in Handlers, Arrive(h)
  PROVE  StoreTypeOK'
  BY DEF Arrive, Phases, StoreTypeOK

\* A request is admitted with a plan of well-formed commands.
LEMMA AdmitType ==
  ASSUME StoreTypeOK, NEW h \in Handlers, NEW fs, NEW ops \in Seq(Command),
         NEW batched \in BOOLEAN, Admit(h, fs, ops, batched)
  PROVE  StoreTypeOK'
  <1> USE DEF StoreTypeOK
  <1>1. <<>> \in Seq(Snapshot)
    OBVIOUS
  <1>2. lock' \in [Features -> Handlers \cup {NoOne}]
    BY DEF Admit
  <1>3. pre' \in [Handlers -> [Keys -> Row]]
    BY NoConfigType DEF Admit
  <1> QED
    BY <1>1, <1>2, <1>3 DEF Admit, Phases

\* A request is refused.
LEMMA RefuseType ==
  ASSUME StoreTypeOK, NEW h \in Handlers, NEW fs, NEW status \in Statuses,
         Refuse(h, fs, status)
  PROVE  StoreTypeOK'
  BY DEF Refuse, Phases, StoreTypeOK

\* A write is issued and answered.
LEMMA ExecuteType ==
  ASSUME StoreTypeOK, NEW h \in Handlers, Execute(h)
  PROVE  StoreTypeOK'
  <1> USE DEF StoreTypeOK
  <1>1. Issue(db, Head(todo[h])) \in [Keys -> Row] /\ Tail(todo[h]) \in Seq(Command)
        /\ WithSnapshot(h, Head(todo[h]).key) \in Seq(Snapshot)
    BY HeadCommand, WithSnapshotType DEF Execute
  <1> QED
    BY <1>1 DEF Execute

\* A write fails.
LEMMA ExecuteFaultType ==
  ASSUME StoreTypeOK, NEW h \in Handlers, ExecuteFault(h)
  PROVE  StoreTypeOK'
  <1> USE StoreConstants DEF StoreTypeOK
  <1>1. Issue(db, Head(todo[h])) \in [Keys -> Row] /\ <<>> \in Seq(Command)
        /\ WithSnapshot(h, Head(todo[h]).key) \in Seq(Snapshot)
    BY HeadCommand, WithSnapshotType DEF ExecuteFault
  <1>2. /\ db' \in {db, Issue(db, Head(todo[h]))}
        /\ snaps' \in {snaps, [snaps EXCEPT ![h] = WithSnapshot(h, Head(todo[h]).key)]}
    BY DEF ExecuteFault
  <1>3. [snaps EXCEPT ![h] = WithSnapshot(h, Head(todo[h]).key)] \in [Handlers -> Seq(Snapshot)]
    BY <1>1
  <1>4. db \in [Keys -> Row] /\ snaps \in [Handlers -> Seq(Snapshot)]
    OBVIOUS
  <1>5. db' \in [Keys -> Row] /\ snaps' \in [Handlers -> Seq(Snapshot)]
    BY <1>1, <1>2, <1>3, <1>4, Zenon
  <1>6. faults' \in 0..MaxFaults /\ lock' \in [Features -> Handlers \cup {NoOne}]
    BY ReleasedType DEF ExecuteFault
  <1>7. 500 \in Statuses
    BY DEF Statuses
  <1> QED
    BY <1>1, <1>5, <1>6, <1>7 DEF ExecuteFault, Phases

\* The plan is done.
LEMMA CommitType ==
  ASSUME StoreTypeOK, NEW h \in Handlers, NEW persist \in BOOLEAN, Commit(h, persist)
  PROVE  StoreTypeOK'
  <1> USE DEF StoreTypeOK
  <1>1. <<>> \in Seq(Snapshot) /\ 200 \in Statuses
    BY DEF Statuses
  <1> QED
    BY <1>1, NoConfigType, ReleasedType DEF Commit, Phases

\* The DEL and the HSET of a rollback.
LEMMA UndoType ==
  ASSUME StoreTypeOK, NEW h \in Handlers, NEW ok \in BOOLEAN, UndoDel(h, ok) \/ UndoSet(h, ok)
  PROVE  StoreTypeOK'
  <1> USE DEF StoreTypeOK
  <1>1. /\ LastSnap(h).key \in Keys /\ LastSnap(h).prior \in Row
        /\ Popped(h) \in [Handlers -> Seq(Snapshot)]
    BY LastSnapshot DEF UndoDel, UndoSet
  <1>2. CASE UndoDel(h, ok)
    <2>1. Del(LastSnap(h).key) \in Command
      BY <1>1, DelClears
    <2>2. db' \in [Keys -> Row] /\ torn' \in [Handlers -> BOOLEAN] /\ faults' \in 0..MaxFaults
      BY <1>2, <2>1, UndoOutcomeType DEF UndoDel
    <2> QED
      BY <1>1, <1>2, <2>2 DEF UndoDel, Phases
  <1>3. CASE UndoSet(h, ok)
    <2> DEFINE c == HSet(LastSnap(h).key,
                         [f \in Present(LastSnap(h).prior) |-> LastSnap(h).prior[f]])
    <2>1. c \in Command
      BY <1>1, SetRestores
    <2>2. db' \in [Keys -> Row] /\ torn' \in [Handlers -> BOOLEAN] /\ faults' \in 0..MaxFaults
      BY <1>3, <2>1, UndoOutcomeType DEF UndoSet
    <2> QED
      BY <1>1, <1>3, <2>2 DEF UndoSet, Phases
  <1> QED
    BY <1>2, <1>3

\* What a handler does once admitted.
LEMMA RunType ==
  ASSUME StoreTypeOK, NEW h \in Handlers, Run(h)
  PROVE  StoreTypeOK'
  <1>1. CASE Abort(h)
    BY <1>1, NoConfigType, ReleasedType DEF Abort, Phases, StoreTypeOK
  <1>2. CASE Save(h)
    BY <1>2 DEF Save, Phases, StoreTypeOK
  <1>3. CASE Respond(h)
    <2>1. 0 \in Statuses
      BY DEF Statuses
    <2> QED
      BY <1>3, <2>1 DEF Respond, Phases, StoreTypeOK
  <1> QED
    BY <1>1, <1>2, <1>3, ExecuteType, ExecuteFaultType, UndoType DEF Run

\* The agent is killed or the switch reboots.
LEMMA StopType ==
  ASSUME StoreTypeOK, Kill \/ Reboot
  PROVE  StoreTypeOK'
  <1>1. 0 \in Statuses /\ <<>> \in Seq(Command) /\ <<>> \in Seq(Snapshot)
    BY DEF Statuses
  <1>2. db' \in [Keys -> Row] /\ saved' \in [Keys -> Row] /\ Stopped
    BY DEF Kill, Reboot, StoreTypeOK
  <1> QED
    BY <1>1, <1>2, NoConfigType, StoreConstants DEF Stopped, Phases, StoreTypeOK

\* The agent starts.
LEMMA StoreInitType ==
  ASSUME NEW d \in [Keys -> Row], StoreInit(d)
  PROVE  StoreTypeOK
  <1>1. 0 \in Statuses /\ <<>> \in Seq(Command) /\ <<>> \in Seq(Snapshot)
    BY DEF Statuses
  <1> QED
    BY <1>1, NoConfigType, StoreConstants DEF StoreInit, Phases, StoreTypeOK

\* A mutex given back changes nobody else's mutexes.
LEMMA ReleasedFrame ==
  ASSUME NEW h \in Handlers, lock' = Released(h), NEW g \in Handlers \ {h}
  PROVE  \A f \in Features : lock'[f] = g <=> lock[f] = g
  BY StoreConstants DEF Released

----------------------------------------------------------------------------
(***************************************************************************)
(* What the first n commands of a plan s make of a database d: each field  *)
(* is as the last of them that decides it says, and as it was if none      *)
(* does.                                                                   *)
(***************************************************************************)
Decides(c, k, f) == c.key = k /\ c.upd[f] # Keep
Deciding(s, n, k, f) == {i \in 1..n : Decides(s[i], k, f)}
Latest(S) == CHOOSE i \in S : \A j \in S : j <= i
After(d, s, n) ==
    [k \in Keys |-> [f \in Fields |->
        IF Deciding(s, n, k, f) = {} THEN d[k][f]
        ELSE s[Latest(Deciding(s, n, k, f))].upd[f]]]

\* A non-empty set of positions has a last one.
LEMMA LastPosition ==
  ASSUME NEW n \in Nat, NEW S, S \subseteq 1..n, S # {}
  PROVE  \E i \in S : \A j \in S : j <= i
  <1> DEFINE T == {m \in Nat : n - m \in S}
  <1>1. T \subseteq Nat /\ T # {}
    <2>1. PICK i \in S : TRUE
      OBVIOUS
    <2>2. n - i \in Nat /\ n - (n - i) = i
      BY <2>1
    <2> QED
      BY <2>1, <2>2
  <1> HIDE DEF T
  <1>2. PICK m \in T : \A y \in T : ~(<<y, m>> \in OpToRel(<, Nat))
    BY <1>1, NatLessThanWellFounded, WFMin
  <1>3. \A y \in T : y \in Nat /\ m \in Nat /\ ~(y < m)
    BY <1>1, <1>2 DEF OpToRel
  <1>4. n - m \in S
    BY <1>2 DEF T
  <1>5. ASSUME NEW j \in S PROVE j <= n - m
    <2>1. n - j \in Nat /\ n - (n - j) = j
      OBVIOUS
    <2>2. n - j \in T
      BY <2>1 DEF T
    <2> QED
      BY <1>3, <2>2
  <1> QED
    BY <1>4, <1>5

\* A field no command decides stays as it was.
LEMMA AfterKept ==
  ASSUME NEW d, NEW s, NEW n \in Nat, NEW k \in Keys, NEW f \in Fields,
         \A i \in 1..n : ~Decides(s[i], k, f)
  PROVE  After(d, s, n)[k][f] = d[k][f]
  <1>1. Deciding(s, n, k, f) = {}
    BY DEF Deciding
  <1> QED
    BY <1>1 DEF After

\* A field is as the last command that decides it says.
LEMMA AfterSet ==
  ASSUME NEW d, NEW s, NEW n \in Nat, NEW k \in Keys, NEW f \in Fields,
         NEW j \in 1..n, Decides(s[j], k, f),
         \A i \in 1..n : Decides(s[i], k, f) => i <= j
  PROVE  After(d, s, n)[k][f] = s[j].upd[f]
  <1> DEFINE S == Deciding(s, n, k, f)
  <1>1. j \in S /\ (\A i \in S : i <= j) /\ S \subseteq Int
    BY DEF Deciding
  <1>2. After(d, s, n)[k][f] = IF S = {} THEN d[k][f] ELSE s[Latest(S)].upd[f]
    BY DEF After
  <1> HIDE DEF S
  <1>3. Latest(S) \in S /\ \A i \in S : i <= Latest(S)
    BY <1>1 DEF Latest
  <1>4. Latest(S) \in Int /\ j \in Int /\ Latest(S) <= j /\ j <= Latest(S)
    BY <1>1, <1>3
  <1>5. Latest(S) = j
    BY <1>4
  <1> QED
    BY <1>1, <1>2, <1>5

\* Either no command decides a field, or one is the last to do so.
LEMMA LastDecider ==
  ASSUME NEW s, NEW n \in Nat, NEW k, NEW f
  PROVE  \/ \A i \in 1..n : ~Decides(s[i], k, f)
         \/ \E j \in 1..n : /\ Decides(s[j], k, f)
                            /\ \A i \in 1..n : Decides(s[i], k, f) => i <= j
  <1> SUFFICES ASSUME \E i \in 1..n : Decides(s[i], k, f)
               PROVE  \E j \in 1..n : /\ Decides(s[j], k, f)
                                     /\ \A i \in 1..n : Decides(s[i], k, f) => i <= j
    OBVIOUS
  <1>1. Deciding(s, n, k, f) \subseteq 1..n /\ Deciding(s, n, k, f) # {}
    BY DEF Deciding
  <1>2. PICK j \in Deciding(s, n, k, f) : \A i \in Deciding(s, n, k, f) : i <= j
    BY <1>1, LastPosition
  <1> QED
    BY <1>1, <1>2 DEF Deciding

\* Before the first command nothing has changed.
LEMMA AfterNone ==
  ASSUME NEW d \in [Keys -> Row], NEW s
  PROVE  After(d, s, 0) = d
  <1>1. \A k, f : Deciding(s, 0, k, f) = {}
    BY DEF Deciding
  <1> QED
    BY <1>1 DEF After, Row

\* A row depends on no other row, and stays when no command addresses it.
LEMMA AfterLocal ==
  ASSUME NEW c \in [Keys -> Row], NEW d, NEW s, NEW n \in Nat, NEW k \in Keys
  PROVE  /\ c[k] = d[k] => After(c, s, n)[k] = After(d, s, n)[k]
         /\ (\A i \in 1..n : s[i].key # k) => After(c, s, n)[k] = c[k]
  <1>1. c[k] = d[k] => After(c, s, n)[k] = After(d, s, n)[k]
    BY DEF After
  <1>2. ASSUME \A i \in 1..n : s[i].key # k
        PROVE  After(c, s, n)[k] = c[k]
    <2>1. \A f : Deciding(s, n, k, f) = {}
      BY <1>2 DEF Deciding, Decides
    <2> QED
      BY <2>1 DEF After, Row
  <1> QED
    BY <1>1, <1>2

\* Databases on the way are databases.
LEMMA AfterType ==
  ASSUME NEW d \in [Keys -> Row], NEW s \in Seq(Command), NEW n \in 0..Len(s)
  PROVE  After(d, s, n) \in [Keys -> Row]
  <1>1. n \in Nat /\ \A i \in 1..n : s[i] \in Command
    <2>1. Len(s) \in Nat
      BY LenProperties
    <2>2. n \in Nat /\ \A i \in 1..n : i \in 1..Len(s)
      BY <2>1
    <2> QED
      BY <2>2, ElementOfSeq
  <1>2. ASSUME NEW k \in Keys, NEW f \in Fields
        PROVE  After(d, s, n)[k][f] \in Values \cup {Absent}
    <2>1. CASE \A i \in 1..n : ~Decides(s[i], k, f)
      BY <1>1, <2>1, AfterKept DEF Row
    <2>2. CASE \E j \in 1..n : /\ Decides(s[j], k, f)
                              /\ \A i \in 1..n : Decides(s[i], k, f) => i <= j
      <3>1. PICK j \in 1..n : /\ Decides(s[j], k, f)
                              /\ \A i \in 1..n : Decides(s[i], k, f) => i <= j
        BY <2>2
      <3>2. After(d, s, n)[k][f] = s[j].upd[f]
        BY <1>1, <3>1, AfterSet
      <3>3. s[j] \in Command /\ s[j].upd[f] # Keep
        BY <1>1, <3>1 DEF Decides
      <3> QED
        BY <3>2, <3>3 DEF Command, Update
    <2> QED
      BY <1>1, <2>1, <2>2, LastDecider
  <1>3. After(d, s, n) = [k \in Keys |-> [f \in Fields |-> After(d, s, n)[k][f]]]
    BY DEF After
  <1> QED
    BY <1>2, <1>3 DEF Row

\* One command more is that command issued on what the first n left.
LEMMA AfterNext ==
  ASSUME NEW d, NEW s \in Seq(Command), NEW n \in Nat, n + 1 \in 1..Len(s)
  PROVE  After(d, s, n + 1) = Issue(After(d, s, n), s[n + 1])
  <1> DEFINE c == s[n + 1]
  <1>1. c \in Command /\ c.key \in Keys
    <2>1. c \in Command
      BY ElementOfSeq
    <2> QED
      BY <2>1 DEF Command
  <1>2. ASSUME NEW k \in Keys, NEW f \in Fields
        PROVE  After(d, s, n + 1)[k][f] =
                 IF Decides(c, k, f) THEN c.upd[f] ELSE After(d, s, n)[k][f]
    <2>1. CASE Decides(c, k, f)
      BY <2>1, AfterSet
    <2>2. CASE ~Decides(c, k, f)
      <3>1. Deciding(s, n + 1, k, f) = Deciding(s, n, k, f)
        BY <2>2 DEF Deciding
      <3> QED
        BY <2>2, <3>1 DEF After
    <2> QED
      BY <2>1, <2>2
  <1>3. ASSUME NEW k \in Keys
        PROVE  After(d, s, n + 1)[k] =
                 IF k = c.key THEN Patched(After(d, s, n)[k], c.upd) ELSE After(d, s, n)[k]
    <2>1. /\ After(d, s, n + 1)[k] = [f \in Fields |-> After(d, s, n + 1)[k][f]]
          /\ After(d, s, n)[k] = [f \in Fields |-> After(d, s, n)[k][f]]
      BY DEF After
    <2> HIDE DEF c
    <2>2. CASE k = c.key
      BY <1>2, <2>1, <2>2 DEF Decides, Patched
    <2>3. CASE k # c.key
      BY <1>2, <2>1, <2>3 DEF Decides
    <2> QED
      BY <2>2, <2>3
  <1>4. /\ After(d, s, n + 1) = [k \in Keys |-> After(d, s, n + 1)[k]]
        /\ After(d, s, n) = [k \in Keys |-> After(d, s, n)[k]]
    BY DEF After
  <1> HIDE DEF c
  <1>5. After(d, s, n + 1) = Issue(After(d, s, n), c)
    BY <1>1, <1>3, <1>4 DEF Issue
  <1> QED
    BY <1>5 DEF c

\* Issuing the first command leaves the rest of the plan with the same course.
LEMMA AfterShift ==
  ASSUME NEW d \in [Keys -> Row], NEW s \in Seq(Command), s # <<>>,
         NEW n \in 0..Len(Tail(s))
  PROVE  After(Issue(d, Head(s)), Tail(s), n) = After(d, s, n + 1)
  <1> DEFINE t == Tail(s)  e == Issue(d, Head(s))
  <1>1. /\ Len(s) \in Nat \ {0} /\ Len(t) = Len(s) - 1
        /\ Head(s) = s[1] /\ \A i \in 1..Len(t) : t[i] = s[i + 1]
    BY HeadTailProperties, EmptySeq, LenProperties
  <1>2. n \in Nat /\ (\A i \in 1..n : t[i] = s[i + 1]) /\ s[1] \in Command
    <2>1. n \in Nat /\ (\A i \in 1..n : i \in 1..Len(t)) /\ 1 \in 1..Len(s)
      BY <1>1
    <2> QED
      BY <1>1, <2>1, ElementOfSeq
  <1>3. \A k \in Keys, f \in Fields :
           e[k][f] = IF Decides(s[1], k, f) THEN s[1].upd[f] ELSE d[k][f]
    <2>1. /\ s[1].key \in Keys
          /\ e[s[1].key] = Patched(d[s[1].key], s[1].upd)
          /\ \A k \in Keys : k # s[1].key => e[k] = d[k]
      BY <1>1, <1>2, IssueFrame DEF Command
    <2> QED
      BY <2>1 DEF Patched, Decides
  <1> HIDE DEF t, e
  <1>4. ASSUME NEW k \in Keys, NEW f \in Fields
        PROVE  After(e, t, n)[k][f] = After(d, s, n + 1)[k][f]
    <2>1. CASE \E j \in 1..n : /\ Decides(t[j], k, f)
                              /\ \A i \in 1..n : Decides(t[i], k, f) => i <= j
      <3>1. PICK j \in 1..n : /\ Decides(t[j], k, f)
                              /\ \A i \in 1..n : Decides(t[i], k, f) => i <= j
        BY <2>1
      <3>2. After(e, t, n)[k][f] = t[j].upd[f]
        BY <1>2, <3>1, AfterSet
      <3>3. \A i \in 1..n + 1 : Decides(s[i], k, f) => i <= j + 1
        <4> SUFFICES ASSUME NEW i \in 1..n + 1, Decides(s[i], k, f), i # 1 PROVE i <= j + 1
          BY <1>2
        <4>1. i - 1 \in 1..n /\ (i - 1) + 1 = i
          BY <1>2
        <4>2. Decides(t[i - 1], k, f)
          BY <1>2, <4>1
        <4>3. i - 1 <= j
          BY <3>1, <4>1, <4>2
        <4> QED
          BY <1>2, <4>1, <4>3
      <3>4. j + 1 \in 1..n + 1 /\ n + 1 \in Nat /\ Decides(s[j + 1], k, f) /\ t[j] = s[j + 1]
        BY <1>2, <3>1
      <3>5. After(d, s, n + 1)[k][f] = s[j + 1].upd[f]
        BY <3>3, <3>4, AfterSet
      <3> QED
        BY <3>2, <3>4, <3>5
    <2>2. CASE \A i \in 1..n : ~Decides(t[i], k, f)
      <3>1. After(e, t, n)[k][f] = e[k][f]
        BY <1>2, <2>2, AfterKept
      <3>2. \A i \in 1..n + 1 : i # 1 => ~Decides(s[i], k, f)
        <4> SUFFICES ASSUME NEW i \in 1..n + 1, i # 1 PROVE ~Decides(s[i], k, f)
          OBVIOUS
        <4>1. i - 1 \in 1..n /\ (i - 1) + 1 = i
          BY <1>2
        <4> QED
          BY <1>2, <2>2, <4>1
      <3>3. n + 1 \in Nat /\ 1 \in 1..n + 1
        BY <1>2
      <3>4. CASE Decides(s[1], k, f)
        <4>1. \A i \in 1..n + 1 : Decides(s[i], k, f) => i <= 1
          BY <3>2
        <4>2. After(d, s, n + 1)[k][f] = s[1].upd[f]
          BY <3>3, <3>4, <4>1, AfterSet
        <4> QED
          BY <1>3, <3>1, <3>4, <4>2
      <3>5. CASE ~Decides(s[1], k, f)
        <4>1. After(d, s, n + 1)[k][f] = d[k][f]
          BY <3>2, <3>3, <3>5, AfterKept
        <4> QED
          BY <1>3, <3>1, <3>5, <4>1
      <3> QED
        BY <3>4, <3>5
    <2> QED
      BY <1>2, <2>1, <2>2, LastDecider
  <1>5. /\ After(e, t, n) = [k \in Keys |-> [f \in Fields |-> After(e, t, n)[k][f]]]
        /\ After(d, s, n + 1) = [k \in Keys |-> [f \in Fields |-> After(d, s, n + 1)[k][f]]]
    BY DEF After
  <1>6. After(e, t, n) = After(d, s, n + 1)
    BY <1>4, <1>5
  <1> QED
    BY <1>6 DEF t, e

----------------------------------------------------------------------------
(* Plans with one command for each row of a set.                           *)

\* SetToSeq lists every element of a finite set, and nothing else.
LEMMA SeqOfSet ==
  ASSUME NEW S, IsFiniteSet(S)
  PROVE  /\ Cardinality(S) \in Nat
         /\ SetToSeq(S) \in [1..Cardinality(S) -> S]
         /\ \A x \in S : \E i \in 1..Cardinality(S) : SetToSeq(S)[i] = x
  <1> DEFINE n == Cardinality(S)
  <1>1. n \in Nat /\ ExistsBijection(1..n, S)
    BY FS_CardinalityType
  <1>2. \E f \in [1..n -> S] : IsInjective(f)
    BY <1>1 DEF ExistsBijection, Bijection, Injection
  <1>3. SetToSeq(S) \in [1..n -> S] /\ IsInjective(SetToSeq(S))
    BY <1>2 DEF SetToSeq
  <1>4. SetToSeq(S) \in Injection(1..n, S)
    BY <1>3 DEF Injection
  <1>5. Cardinality(1..n) = n
    BY <1>1, FS_Interval
  <1>6. SetToSeq(S) \in Surjection(1..n, S)
    BY <1>4, <1>5, FS_Injection
  <1> QED
    BY <1>1, <1>3, <1>6 DEF Surjection

\* A DEL for each row of a set.
LEMMA DelsShape ==
  ASSUME NEW ks, ks \subseteq Keys, IsFiniteSet(ks)
  PROVE  /\ Dels(ks) \in Seq(Command) /\ Len(Dels(ks)) \in Nat
         /\ \A i \in 1..Len(Dels(ks)) : \E k \in ks : Dels(ks)[i] = Del(k)
         /\ \A k \in ks : \E i \in 1..Len(Dels(ks)) : Dels(ks)[i] = Del(k)
  <1> DEFINE n == Cardinality(ks)  o == SetToSeq(ks)
  <1>1. n \in Nat /\ o \in [1..n -> ks] /\ \A x \in ks : \E i \in 1..n : o[i] = x
    BY SeqOfSet
  <1> HIDE DEF n, o
  <1>2. Dels(ks) = [i \in 1..n |-> Del(o[i])]
    BY <1>1 DEF Dels, o
  <1>3. \A k \in ks : Del(k) \in Command
    BY DEF Del, Command, Update, NoRow
  <1>4. \A i \in 1..n : Dels(ks)[i] = Del(o[i]) /\ o[i] \in ks
    BY <1>1, <1>2
  <1>5. Dels(ks) \in [1..n -> Command]
    BY <1>1, <1>2, <1>3
  <1>6. Dels(ks) \in Seq(Command) /\ Len(Dels(ks)) = n
    BY <1>1, <1>5
  <1> QED
    BY <1>1, <1>4, <1>6

\* A marker for each row of a set.
LEMMA MarksShape ==
  ASSUME NEW ks, ks \subseteq Keys, IsFiniteSet(ks), "NULL" \in Values
  PROVE  /\ Marks(ks) \in Seq(Command) /\ Len(Marks(ks)) \in Nat
         /\ \A i \in 1..Len(Marks(ks)) : \E k \in ks : Marks(ks)[i] = HSet(k, Marker)
         /\ \A k \in ks : \E i \in 1..Len(Marks(ks)) : Marks(ks)[i] = HSet(k, Marker)
  <1> DEFINE n == Cardinality(ks)  o == SetToSeq(ks)
  <1>1. n \in Nat /\ o \in [1..n -> ks] /\ \A x \in ks : \E i \in 1..n : o[i] = x
    BY SeqOfSet
  <1> HIDE DEF n, o
  <1>2. Marks(ks) = [i \in 1..n |-> HSet(o[i], Marker)]
    BY <1>1 DEF Marks, o
  <1>3. \A k \in ks : HSet(k, Marker) \in Command
    BY DEF HSet, Marker, Command, Update
  <1>4. \A i \in 1..n : Marks(ks)[i] = HSet(o[i], Marker) /\ o[i] \in ks
    BY <1>1, <1>2
  <1>5. Marks(ks) \in [1..n -> Command]
    BY <1>1, <1>2, <1>3
  <1>6. Marks(ks) \in Seq(Command) /\ Len(Marks(ks)) = n
    BY <1>1, <1>5
  <1> QED
    BY <1>1, <1>4, <1>6

----------------------------------------------------------------------------
(***************************************************************************)
(* Plans of which only the shape matters: sequences, of no matter what.    *)
(***************************************************************************)
IsSeq(p) == \E S : p \in Seq(S)

\* No command, and a single one.
LEMMA SeqEmpty == IsSeq(<<>>) /\ Len(<<>>) = 0
  <1>1. <<>> \in Seq({})
    OBVIOUS
  <1> QED
    BY <1>1 DEF IsSeq

LEMMA SeqUnit ==
  ASSUME NEW c
  PROVE  IsSeq(<<c>>) /\ Len(<<c>>) = 1 /\ <<c>>[1] = c
  <1>1. <<c>> \in Seq({c})
    OBVIOUS
  <1> QED
    BY <1>1 DEF IsSeq

\* The next command of a plan, and what is left of it.
LEMMA SeqNext ==
  ASSUME NEW p, IsSeq(p), p # <<>>
  PROVE  /\ IsSeq(Tail(p)) /\ Head(p) = p[1]
         /\ Len(p) \in Nat /\ Len(p) >= 1 /\ Len(Tail(p)) = Len(p) - 1
         /\ \A i \in 1..Len(Tail(p)) : i + 1 \in 1..Len(p) /\ Tail(p)[i] = p[i + 1]
  <1>1. PICK S : p \in Seq(S)
    BY DEF IsSeq
  <1>2. /\ Tail(p) \in Seq(S) /\ Head(p) = p[1]
        /\ Len(p) \in Nat /\ Len(p) >= 1 /\ Len(Tail(p)) = Len(p) - 1
        /\ \A i \in 1..Len(Tail(p)) : Tail(p)[i] = p[i + 1]
    BY <1>1, HeadTailProperties, LenProperties
  <1> QED
    BY <1>2 DEF IsSeq

\* A plan of length zero is empty.
LEMMA SeqLen ==
  ASSUME NEW p, IsSeq(p)
  PROVE  Len(p) \in Nat /\ (p = <<>> <=> Len(p) = 0)
  <1>1. PICK S : p \in Seq(S)
    BY DEF IsSeq
  <1> QED
    BY <1>1, EmptySeq, LenProperties

\* One plan after another.
LEMMA SeqJoin ==
  ASSUME NEW p, NEW q, IsSeq(p), IsSeq(q)
  PROVE  /\ IsSeq(p \o q) /\ Len(p) \in Nat /\ Len(q) \in Nat /\ Len(p \o q) = Len(p) + Len(q)
         /\ \A i \in 1..Len(p \o q) :
               (p \o q)[i] = IF i <= Len(p) THEN p[i] ELSE q[i - Len(p)]
  <1>1. PICK S : p \in Seq(S)
    BY DEF IsSeq
  <1>2. PICK T : q \in Seq(T)
    BY DEF IsSeq
  <1> DEFINE U == S \cup T
  <1>3. p \in Seq(U) /\ q \in Seq(U)
    BY <1>1, <1>2
  <1> HIDE DEF U
  <1>4. /\ (p \o q) \in Seq(U) /\ Len(p \o q) = Len(p) + Len(q)
        /\ \A i \in 1..(Len(p) + Len(q)) :
              (p \o q)[i] = IF i <= Len(p) THEN p[i] ELSE q[i - Len(p)]
    BY <1>3, ConcatProperties
  <1>5. Len(p) \in Nat /\ Len(q) \in Nat
    BY <1>3, LenProperties
  <1> QED
    BY <1>4, <1>5 DEF IsSeq

\* A command changes only the row it addresses, of databases of any kind.
LEMMA IssueRow ==
  ASSUME NEW d, NEW c, DOMAIN d = Keys
  PROVE  /\ DOMAIN Issue(d, c) = Keys
         /\ \A k \in Keys :
               Issue(d, c)[k] = IF k = c.key THEN Patched(d[k], c.upd) ELSE d[k]
  BY DEF Issue

\* DEL, again of any row.
LEMMA DelRow ==
  ASSUME NEW k, NEW r
  PROVE  Del(k).key = k /\ Del(k).upd = NoRow /\ Patched(r, NoRow) = NoRow
  BY StoreConstants DEF Del, Patched, NoRow

----------------------------------------------------------------------------
(***************************************************************************)
(* FlattenSeq is a recursive function: that it is defined, and what it     *)
(* yields, follow from the absence of a least counterexample.              *)
(***************************************************************************)
LEMMA LeastOf ==
  ASSUME NEW T, T \subseteq Nat, T # {}
  PROVE  \E m \in T : \A y \in T : m <= y
  <1>1. PICK m \in T : \A y \in T : ~(<<y, m>> \in OpToRel(<, Nat))
    BY NatLessThanWellFounded, WFMin
  <1>2. \A y \in T : y \in Nat /\ m \in Nat /\ ~(y < m)
    BY <1>1 DEF OpToRel
  <1> QED
    BY <1>2

\* Flattening sequences of sequences gives a sequence of their elements.
LEMMA FlattenShape ==
  ASSUME NEW S, NEW seqs \in Seq(Seq(S))
  PROVE  FlattenSeq(seqs) \in Seq(S)
  <1> DEFINE n == Len(seqs)
             Joins(f, m) == [i \in 1..m |-> IF i = 1 THEN seqs[i] ELSE f[i - 1] \o seqs[i]]
             Prefix(f, m) == f \in [1..m -> Seq(S)] /\ f = Joins(f, m)
             fl == CHOOSE f : f = Joins(f, n)
  <1>1. n \in Nat /\ \A i \in 1..n : seqs[i] \in Seq(S)
    BY LenProperties, ElementOfSeq
  <1>2. CASE n = 0
    <2>1. seqs = <<>> /\ FlattenSeq(seqs) = seqs
      BY <1>2, EmptySeq DEF FlattenSeq
    <2>2. <<>> \in Seq(S)
      OBVIOUS
    <2> QED
      BY ONLY <2>1, <2>2
  <1>3. CASE n # 0
    <2> DEFINE T == {m \in 1..n : ~\E f : Prefix(f, m)}
    <2> HIDE DEF n, Prefix
    <2>0. /\ T \subseteq Nat
          /\ \A m \in T : m \in 1..n /\ ~\E f : Prefix(f, m)
          /\ \A m \in 1..n : m \notin T => \E f : Prefix(f, m)
      BY <1>1
    <2> HIDE DEF T
    <2> USE DEF Prefix
    <2>1. ASSUME T # {} PROVE FALSE
      <3>1. PICK m \in T : \A y \in T : m <= y
        BY <2>0, <2>1, LeastOf
      <3>2. m \in 1..n /\ ~\E f : Prefix(f, m)
        BY <2>0, <3>1
      <3>3. CASE m = 1
        <4> DEFINE g == [i \in 1..1 |-> seqs[1]]
        <4>1. g \in [1..1 -> Seq(S)] /\ g = Joins(g, 1)
          BY <1>1, <1>3
        <4> QED
          BY <3>2, <3>3, <4>1
      <3>4. CASE m # 1
        <4>0. m - 1 \in 1..n /\ ~(m <= m - 1)
          BY <1>1, <3>2, <3>4
        <4>1. m - 1 \in 1..n /\ m - 1 \notin T
          BY <3>1, <4>0
        <4>2. PICK f : Prefix(f, m - 1)
          BY <2>0, <4>1
        <4> DEFINE g == [i \in 1..m |-> IF i < m THEN f[i] ELSE f[m - 1] \o seqs[m]]
        <4>3. f[m - 1] \in Seq(S) /\ seqs[m] \in Seq(S)
          BY <1>1, <3>2, <3>4, <4>1, <4>2
        <4>4. (f[m - 1] \o seqs[m]) \in Seq(S)
          BY <4>3, ConcatProperties
        <4>5. g \in [1..m -> Seq(S)]
          <5>1. ASSUME NEW i \in 1..m, i < m PROVE f[i] \in Seq(S)
            <6>1. i \in 1..(m - 1)
              BY <1>1, <3>2, <5>1
            <6> QED
              BY <4>2, <6>1
          <5> QED
            BY <4>4, <5>1
        <4>6. ASSUME NEW i \in 1..m
              PROVE  g[i] = IF i = 1 THEN seqs[i] ELSE g[i - 1] \o seqs[i]
          <5>1. CASE i = m
            <6>0. m - 1 \in 1..m /\ m - 1 < m /\ ~(m < m)
              BY <1>1, <3>2, <3>4
            <6>1. g[i] = f[m - 1] \o seqs[m] /\ g[i - 1] = f[m - 1]
              BY <5>1, <6>0
            <6> QED
              BY <3>4, <5>1, <6>1
          <5>2. CASE i # m
            <6>1. i \in 1..(m - 1) /\ g[i] = f[i] /\ (i # 1 => i - 1 \in 1..m /\ g[i - 1] = f[i - 1])
              BY <1>1, <3>2, <5>2
            <6>2. f[i] = IF i = 1 THEN seqs[i] ELSE f[i - 1] \o seqs[i]
              BY <4>2, <6>1
            <6> QED
              BY <6>1, <6>2
          <5> QED
            BY <5>1, <5>2
        <4>7. g = Joins(g, m)
          BY <4>6
        <4> QED
          BY <3>2, <4>5, <4>7
      <3> QED
        BY <3>3, <3>4
    <2>2. \E f : f = Joins(f, n)
      <3>1. n \in 1..n /\ n \notin T
        BY <1>1, <1>3, <2>1
      <3> QED
        BY <2>0, <3>1
    <2>3. fl = Joins(fl, n)
      BY <2>2
    <2>4. FlattenSeq(seqs) = fl[n]
      BY <1>3 DEF FlattenSeq, n
    <2> HIDE DEF fl
    <2>5. \A i \in 1..n : fl[i] = IF i = 1 THEN seqs[i] ELSE fl[i - 1] \o seqs[i]
      BY <2>3
    <2> DEFINE B == {m \in 1..n : fl[m] \notin Seq(S)}
    <2>7. /\ B \subseteq Nat
          /\ \A m \in B : m \in 1..n /\ fl[m] \notin Seq(S)
          /\ \A m \in 1..n : m \notin B => fl[m] \in Seq(S)
      BY <1>1
    <2> HIDE DEF B
    <2>6. ASSUME B # {} PROVE FALSE
      <3>1. PICK m \in B : \A y \in B : m <= y
        BY <2>6, <2>7, LeastOf
      <3>0. m \in 1..n /\ fl[m] \notin Seq(S)
        BY <2>7, <3>1
      <3>2. m # 1
        BY <1>1, <2>5, <3>0
      <3>3. m - 1 \in 1..n /\ ~(m <= m - 1)
        BY <1>1, <3>0, <3>2
      <3>4. fl[m - 1] \in Seq(S) /\ seqs[m] \in Seq(S)
        BY <1>1, <2>7, <3>0, <3>1, <3>3
      <3>5. (fl[m - 1] \o seqs[m]) \in Seq(S)
        BY <3>4, ConcatProperties
      <3> QED
        BY <2>5, <3>0, <3>2, <3>5
    <2>8. n \in 1..n
      BY <1>1, <1>3
    <2> QED
      BY <2>4, <2>6, <2>7, <2>8
  <1> QED
    BY <1>2, <1>3
=============================================================================
