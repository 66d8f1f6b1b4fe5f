--------------------------- MODULE SecurityProofs ---------------------------
(***************************************************************************)
(* The security and system pages, for any tables, rules, sessions, users,  *)
(* servers, bodies, number of handlers and bounds: an admin remains, a     *)
(* rule has its table, no request touches an unmanaged table, and a mirror *)
(* session a rule names is there.                                          *)
(***************************************************************************)
EXTENDS Security, StoreProofs

Mutexes == {"acl", "mirror", "aaa", "system"}
Busy == {"plain", "batch", "undoDel", "undoSet"}

\* The tables behind each mutex, and the pages that take it.
AclTabs == {"ACL_TABLE", "ACL_RULE", "QUARTZ_ACL_RULE_DESC"}
AaaTabs == {"AAA", "TACPLUS", "TACPLUS_SERVER"}
SystemTabs == {"DEVICE_METADATA", "NTP_SERVER", "SYSLOG_SERVER", "SNMP", "SNMP_COMMUNITY",
               "FEATURE", "MGMT_INTERFACE"}
UserTabs == {"passwd", "group"}
Tables(f) ==
    CASE f = "acl" -> AclTabs [] f = "mirror" -> {"MIRROR_SESSION"} [] f = "aaa" -> AaaTabs
      [] OTHER -> IF page = "users" THEN UserTabs ELSE SystemTabs
Homes(f) ==
    CASE f \in {"acl", "mirror"} -> {"acl"} [] f = "aaa" -> {"aaa"} [] OTHER -> SystemPages

Within(p, T) == IsSeq(p) /\ \A i \in 1..Len(p) : p[i].key[1] \in T

(***************************************************************************)
(* What all the invariants below rest on: who writes holds one mutex, that *)
(* of the tables it writes; a rollback follows a fault; and the readings   *)
(* to come are those of the request.                                       *)
(***************************************************************************)
Holds(h, f) == lock[f] = h /\ \A g \in Features \ {f} : lock[g] # h
Works(h, f) ==
    /\ Holds(h, f) /\ page \in Homes(f)
    /\ Within(todo[h], Tables(f)) /\ Within(snaps[h], Tables(f))
Restoring(h) == req[h].op = "restore" /\ req[h].backup \in Backups
Readings(h) ==
    \/ rest[h] = <<>>
    \/ page = "aaa" /\ rest[h] = <<"register">>
    \/ page = "system" /\ rest[h] = <<"config save">>
    \/ page = "system" /\ Restoring(h) /\ rest[h] = <<"write file", "config reload">>
    \/ page = "system" /\ Restoring(h) /\ rest[h] = <<"config reload">>
Working(h) == pc[h] \in Busy => \E f \in Mutexes : Works(h, f)
Resting(h) == pc[h] \notin Busy => \A f \in Features : lock[f] # h
Tidy(h) ==
    /\ pc[h] \notin {"plain", "batch"} => todo[h] = <<>>
    /\ pc[h] \notin {"batch", "undoDel", "undoSet"} => snaps[h] = <<>>
Undoing(h) ==
    /\ pc[h] \in {"undoDel", "undoSet"} => faults # 0
    /\ page = "users" => pc[h] \notin {"batch", "undoDel", "undoSet"}
BaseOK(h) == Working(h) /\ Resting(h) /\ Tidy(h) /\ Undoing(h) /\ Readings(h)

Domains ==
    /\ DOMAIN lock = Features /\ page \in Pages
    /\ DOMAIN pc = Handlers /\ DOMAIN todo = Handlers /\ DOMAIN snaps = Handlers
    /\ DOMAIN req = Handlers /\ DOMAIN rest = Handlers
    /\ DOMAIN db = Keys /\ DOMAIN saved = Keys
    /\ faults \in Nat /\ stops \in Nat /\ blindReads \in Nat
Base == Domains /\ \A h \in Handlers : BaseOK(h)

(***************************************************************************)
(* The kinds of steps.  In all but the last, one handler moves.            *)
(***************************************************************************)
Grows == (faults' = 0 => faults = 0) /\ (blindReads' = 0 => blindReads = 0)
Alone(h) ==
    /\ \A g \in Handlers \ {h} :
          /\ pc'[g] = pc[g] /\ todo'[g] = todo[g] /\ snaps'[g] = snaps[g]
          /\ req'[g] = req[g] /\ rest'[g] = rest[g]
          /\ \A f \in Features : lock'[f] = g <=> lock[f] = g
    /\ page' = page /\ stops' = stops /\ Grows
TakesNone(h) == \A f \in Features : lock'[f] = h => lock[f] = h

\* A command takes effect, and is done or has failed.
Snaps(h) == snaps'[h] = snaps[h] \/ (todo[h] # <<>> /\ snaps'[h] = WithSnapshot(h, Head(todo[h]).key))
Abandons(h) == todo'[h] = <<>> /\ faults' # 0
Issues(h) ==
    /\ todo[h] # <<>> /\ pc[h] \in {"plain", "batch"}
    /\ db' = Issue(db, Head(todo[h])) /\ saved' = saved /\ TakesNone(h) /\ Snaps(h)
    /\ (todo'[h] = Tail(todo[h]) \/ Abandons(h))

\* The handler goes on without changing the database.
Quiet(h) ==
    /\ db' = db /\ (saved' \in {saved, db} \/ (page = "system" /\ saved' \in Backups))
    /\ TakesNone(h) /\ (Snaps(h) \/ snaps'[h] = <<>>)
    /\ \/ todo'[h] = todo[h] \/ Abandons(h)
       \/ (page = "users" /\ todo[h] # <<>> /\ todo'[h] = Tail(todo[h]))

\* A command of a rollback, failed or not.
Undoes(h) ==
    /\ snaps[h] # <<>> /\ pc[h] \in {"undoDel", "undoSet"}
    /\ todo'[h] = <<>> /\ TakesNone(h) /\ saved' = saved /\ faults' # 0
    /\ snaps'[h] \in {snaps[h], SubSeq(snaps[h], 1, Len(snaps[h]) - 1)}
    /\ \/ db' = db
       \/ db' = Issue(db, Del(LastSnap(h).key))
       \/ db' = Issue(db, HSet(LastSnap(h).key,
                               [f \in Present(LastSnap(h).prior) |-> LastSnap(h).prior[f]]))

\* config reload, in a restore.
Reloads(h) ==
    /\ page = "system" /\ req[h].op = "restore"
    /\ db' = Reloaded /\ saved' = saved /\ TakesNone(h)
    /\ todo'[h] = todo[h] /\ snaps'[h] = snaps[h]

\* A request takes its mutex with a plan, or reads on.
Admits(h, f, ops) ==
    /\ lock[f] = NoOne /\ lock'[f] = h /\ \A g \in Features \ {f} : lock'[g] = lock[g]
    /\ pc[h] \notin Busy /\ todo'[h] = ops /\ snaps'[h] = <<>>
    /\ db' = db /\ saved' = saved
ReadsOn(h) ==
    /\ page = "aaa" /\ TakesNone(h) /\ db' = db /\ saved' = saved /\ snaps'[h] = snaps[h]

\* The agent is killed, or the switch reboots.
Crashes ==
    /\ page' = page /\ Grows /\ saved' = saved /\ stops' # stops /\ stops' # 0
    /\ db' \in {db, IF page \in SystemPages THEN Reloaded ELSE saved}
    /\ \A h \in Handlers : todo'[h] = <<>> /\ snaps'[h] = <<>>
    /\ \A f \in Features : lock'[f] = NoOne

(***************************************************************************)
(* The invariants behind the four properties.  An admin no pending command *)
(* harms:                                                                  *)
(***************************************************************************)
Harmless(w, p) ==
    \A i \in 1..Len(p) :
        /\ p[i].key = Passwd(w) => p[i].upd["login"] \in {Keep, "bash"}
        /\ p[i].key = Group(w) => p[i].upd["sudo"] \in {Keep, "in"} /\ p[i].upd["admin"] \in {Keep, "in"}
AdminInv ==
    blindReads = 0 =>
        /\ \E w \in Admins(db) : \A h \in Handlers : Harmless(w, todo[h])
        /\ page \notin SystemPages => Admins(saved) # {}

(***************************************************************************)
(* A request about a table finds it managed or missing, and leaves it so,  *)
(* rolled back or not:                                                     *)
(***************************************************************************)
TameRow(row) == row = NoRow \/ row["type"] \in ManagedTypes
TameUpd(u) ==
    \/ u = NoRow \/ u["type"] \in ManagedTypes
    \/ (u["type"] = Keep /\ \A f \in Fields : u[f] \in {Keep, Absent})
About(p, t) ==
    \A i \in 1..Len(p) : p[i].key[2] = t /\ (p[i].key = AclTable(t) => TameUpd(p[i].upd))
Recalls(s, t) ==
    \A i \in 1..Len(s) : s[i].key[2] = t /\ (s[i].key = AclTable(t) => TameRow(s[i].prior))
TameInv ==
    \A h \in Handlers :
        lock["acl"] = h =>
            \E t \in AclTables : TameRow(db[AclTable(t)]) /\ About(todo[h], t) /\ Recalls(snaps[h], t)

(***************************************************************************)
(* A rule has its table and matches on its family; a plan writes rules of  *)
(* a table that is there, or a table without rules or of the same type, or *)
(* deletes rules before their table:                                       *)
(***************************************************************************)
SrcFields == {"SRC_IP", "SRC_IPV6", "SRC_MAC"}
Lawful(d) ==
    \A t \in AclTables, p \in Priorities :
        /\ Exists(d, AclRule(t, p)) => Exists(d, AclTable(t))
        /\ \A f \in SrcFields :
              managed(d, t) /\ d[AclRule(t, p)][f] # Absent => f = src_field(d[AclTable(t)]["type"])
WritesRules(d, t, p) ==
    /\ Exists(d, AclTable(t))
    /\ \A i \in 1..Len(p) :
          /\ p[i].key[1] # "ACL_TABLE"
          /\ \A f \in SrcFields : p[i].upd[f] \in {Keep, Absent} \/ f = src_field(d[AclTable(t)]["type"])
WritesTable(d, t, p) ==
    /\ \A i \in 1..Len(p) : p[i].key = AclTable(t)
    /\ \/ \A n \in Priorities : d[AclRule(t, n)] = NoRow
       \/ managed(d, t) /\ \A i \in 1..Len(p) : p[i].upd["type"] \in {Keep, d[AclTable(t)]["type"]}
Deletes(d, t, p) ==
    \A j \in 1..Len(p) :
        /\ p[j].upd = NoRow
        /\ p[j].key = AclTable(t) =>
              \A n \in Priorities : Exists(d, AclRule(t, n)) =>
                  \E i \in 1..Len(p) : i < j /\ p[i].key = AclRule(t, n)
RulePlan(d, t, p) == WritesRules(d, t, p) \/ WritesTable(d, t, p) \/ Deletes(d, t, p)
LawInv ==
    faults = 0 =>
        /\ Lawful(db) /\ Lawful(saved)
        /\ \A h \in Handlers : lock["acl"] = h =>
              \E t \in AclTables :
                 RulePlan(db, t, todo[h]) /\ \A i \in 1..Len(todo[h]) : todo[h][i].key[2] = t

(***************************************************************************)
(* A session a rule names is there, or about to be written back; a session *)
(* about to go is named by no rule; and no rule comes to name another:     *)
(***************************************************************************)
RefFields == {"MIRROR_ACTION", "MIRROR_INGRESS_ACTION"}
Refs(d) == {r \in Keys \X RefFields : r[1][1] = "ACL_RULE" /\ d[r[1]][r[2]] # Absent}
Backed(d) ==
    \A r \in Refs(d) :
        MirrorSession(d[r[1]][r[2]]) \in Keys /\ Exists(d, MirrorSession(d[r[1]][r[2]]))
NamesNone(p) ==
    \A i \in 1..Len(p) : p[i].key[1] = "ACL_RULE" =>
        \A f \in RefFields : p[i].upd[f] \in {Keep, Absent}
Returns(p) == p # <<>> /\ p[Len(p)].upd["src_port"] \notin {Keep, Absent}
SessionPlan(d, p, s) ==
    /\ \A i \in 1..Len(p) : p[i].key = MirrorSession(s)
    /\ p = <<>> \/ Returns(p) \/ ~referenced(d, s)
Returning(s) ==
    \E h \in Handlers : lock["mirror"] = h /\ Returns(todo[h]) /\ todo[h][1].key = MirrorSession(s)
Served ==
    \A r \in Refs(db) :
        MirrorSession(db[r[1]][r[2]]) \in Keys
        /\ (Exists(db, MirrorSession(db[r[1]][r[2]])) \/ Returning(db[r[1]][r[2]]))
Careful ==
    \A h \in Handlers :
        /\ lock["mirror"] = h => \E s \in Sessions : SessionPlan(db, todo[h], s)
        /\ lock["acl"] = h => NamesNone(todo[h])
BackedInv ==
    faults = 0 /\ stops = 0 /\ blindReads = 0 =>
        Served /\ Careful /\ (page = "system" => Backed(saved))

----------------------------------------------------------------------------
(* The plans of the requests, and the steps together.                      *)

AclPlan(t, p) ==
    /\ TameRow(db[AclTable(t)]) /\ About(p, t) /\ NamesNone(p)
    /\ Lawful(db) => RulePlan(db, t, p)
Plans(f, ops) ==
    /\ f \in Mutexes /\ page \in Homes(f) /\ Within(ops, Tables(f))
    /\ f = "acl" => \E t \in AclTables : AclPlan(t, ops)
    /\ f = "mirror" => (blindReads' = 0 => \E s \in Sessions : SessionPlan(db, ops, s))
    /\ page = "users" /\ blindReads' = 0 /\ Admins(db) # {} =>
          \E w \in Admins(db) : Harmless(w, ops)
Moves(h) ==
    /\ Alone(h)
    /\ \/ Issues(h) \/ Quiet(h) \/ Undoes(h) \/ Reloads(h) \/ ReadsOn(h)
       \/ \E f, ops : Admits(h, f, ops) /\ Plans(f, ops)

----------------------------------------------------------------------------
(* Plans and the tables they stay within.                                  *)

LEMMA WithinNone ==
  ASSUME NEW T
  PROVE  Within(<<>>, T)
  BY SeqEmpty DEF Within

LEMMA WithinOne ==
  ASSUME NEW T, NEW c, c.key[1] \in T
  PROVE  Within(<<c>>, T)
  BY SeqUnit DEF Within

LEMMA WithinTwo ==
  ASSUME NEW T, NEW a, NEW b, a.key[1] \in T, b.key[1] \in T
  PROVE  Within(<<a, b>>, T)
  <1>1. <<a, b>> \in Seq({a, b}) /\ Len(<<a, b>>) = 2 /\ <<a, b>>[1] = a /\ <<a, b>>[2] = b
    OBVIOUS
  <1>2. \A i \in 1..2 : i = 1 \/ i = 2
    OBVIOUS
  <1> QED
    BY <1>1, <1>2 DEF Within, IsSeq

LEMMA WithinThree ==
  ASSUME NEW T, NEW a, NEW b, NEW c, a.key[1] \in T, b.key[1] \in T, c.key[1] \in T
  PROVE  Within(<<a, b, c>>, T)
  <1>1. /\ <<a, b, c>> \in Seq({a, b, c}) /\ Len(<<a, b, c>>) = 3
        /\ <<a, b, c>>[1] = a /\ <<a, b, c>>[2] = b /\ <<a, b, c>>[3] = c
    OBVIOUS
  <1>2. \A i \in 1..3 : i = 1 \/ i = 2 \/ i = 3
    OBVIOUS
  <1> QED
    BY <1>1, <1>2 DEF Within, IsSeq

LEMMA WithinJoin ==
  ASSUME NEW T, NEW p, NEW q, Within(p, T), Within(q, T)
  PROVE  Within(p \o q, T)
  <1>1. IsSeq(p) /\ IsSeq(q)
    BY DEF Within
  <1>2. /\ IsSeq(p \o q) /\ Len(p) \in Nat /\ Len(q) \in Nat /\ Len(p \o q) = Len(p) + Len(q)
        /\ \A i \in 1..Len(p \o q) : (p \o q)[i] = IF i <= Len(p) THEN p[i] ELSE q[i - Len(p)]
    BY <1>1, SeqJoin
  <1>3. ASSUME NEW i \in 1..Len(p \o q) PROVE (p \o q)[i].key[1] \in T
    <2>1. CASE i <= Len(p)
      BY <1>2, <2>1 DEF Within
    <2>2. CASE ~(i <= Len(p))
      <3>1. i - Len(p) \in 1..Len(q)
        BY <1>2, <2>2
      <3> QED
        BY <1>2, <2>2, <3>1 DEF Within
    <2> QED
      BY <2>1, <2>2
  <1> QED
    BY <1>2, <1>3 DEF Within

LEMMA WithinTail ==
  ASSUME NEW T, NEW p, Within(p, T), p # <<>>
  PROVE  Within(Tail(p), T) /\ Head(p).key[1] \in T /\ Head(p) = p[1] /\ 1 \in 1..Len(p)
  BY SeqNext DEF Within

\* The snapshots of a batch stay within what it writes.
LEMMA WithinPush ==
  ASSUME NEW T, NEW p, Within(p, T), NEW c, c.key[1] \in T
  PROVE  /\ Within(Append(p, c), T) /\ Len(p) \in Nat /\ Len(Append(p, c)) = Len(p) + 1
         /\ \A i \in 1..(Len(p) + 1) : Append(p, c)[i] = IF i <= Len(p) THEN p[i] ELSE c
  <1>1. PICK S : p \in Seq(S)
    BY DEF Within, IsSeq
  <1> DEFINE U == S \cup {c}
  <1>2. p \in Seq(U) /\ c \in U
    BY <1>1
  <1> HIDE DEF U
  <1>3. /\ Append(p, c) \in Seq(U) /\ Len(p) \in Nat /\ Len(Append(p, c)) = Len(p) + 1
        /\ \A i \in 1..Len(p) : Append(p, c)[i] = p[i]
        /\ Append(p, c)[Len(p) + 1] = c
    BY <1>2, PushLast, AppendProperties, LenProperties
  <1>4. \A i \in 1..(Len(p) + 1) : i \in 1..Len(p) \/ i = Len(p) + 1
    BY <1>3
  <1>5. \A i \in 1..(Len(p) + 1) : Append(p, c)[i] = IF i <= Len(p) THEN p[i] ELSE c
    BY <1>3, <1>4
  <1> QED
    BY <1>3, <1>4 , <1>5 DEF Within, IsSeq

LEMMA WithinPop ==
  ASSUME NEW T, NEW p, Within(p, T), p # <<>>
  PROVE  LET q == SubSeq(p, 1, Len(p) - 1)
         IN  /\ Within(q, T) /\ Len(p) \in 1..Len(p)
             /\ \A i \in 1..Len(q) : q[i] = p[i] /\ i \in 1..Len(p)
  <1>1. PICK S : p \in Seq(S)
    BY DEF Within, IsSeq
  <1> DEFINE q == SubSeq(p, 1, Len(p) - 1)
  <1>2. q \in Seq(S) /\ Len(q) = Len(p) - 1 /\ (\A i \in 1..Len(q) : q[i] = p[i]) /\ Len(p) \in 1..Len(p)
    BY <1>1, PopLast
  <1> HIDE DEF q
  <1>3. Len(p) \in Nat
    BY <1>1, LenProperties
  <1>4. \A i \in 1..Len(q) : q[i] = p[i] /\ i \in 1..Len(p)
    BY <1>2, <1>3
  <1> QED
    BY <1>2, <1>4 DEF q, Within, IsSeq

----------------------------------------------------------------------------
(* What one handler does disturbs no other.                                *)

LEMMA Others ==
  ASSUME Base, NEW h \in Handlers, Alone(h), Domains', BaseOK(h)'
  PROVE  Base'
  <1>1. ASSUME NEW g \in Handlers, g # h PROVE BaseOK(g)'
    <2>1. /\ pc'[g] = pc[g] /\ todo'[g] = todo[g] /\ snaps'[g] = snaps[g]
          /\ req'[g] = req[g] /\ rest'[g] = rest[g] /\ page' = page
          /\ \A f \in Features : lock'[f] = g <=> lock[f] = g
          /\ faults' = 0 => faults = 0
      BY <1>1 DEF Alone, Grows
    <2>2. BaseOK(g)
      BY DEF Base
    <2>3. Mutexes \subseteq Features
      BY PagesKnown DEF Mutexes
    <2>4. Working(g)'
      <3>1. ASSUME NEW f \in Mutexes, Works(g, f) PROVE Works(g, f)'
        <4>1. Holds(g, f)'
          BY <2>1, <2>3, <3>1 DEF Works, Holds
        <4>2. Tables(f)' = Tables(f) /\ page' \in Homes(f)
          BY <2>1, <3>1 DEF Tables, Works
        <4> QED
          BY <2>1, <3>1, <4>1, <4>2 DEF Works, Within
      <3> QED
        BY <2>1, <2>2, <3>1 DEF BaseOK, Working
    <2>5. Resting(g)' /\ Tidy(g)' /\ Undoing(g)'
      BY <2>1, <2>2 DEF BaseOK, Resting, Tidy, Undoing
    <2>6. Readings(g)'
      BY <2>1, <2>2 DEF BaseOK, Readings, Restoring
    <2> QED
      BY <2>4, <2>5, <2>6 DEF BaseOK
  <1> QED
    BY <1>1 DEF Base

LEMMA ReleasedLocks ==
  ASSUME NEW h \in Handlers
  PROVE  /\ DOMAIN Released(h) = Features
         /\ \A f \in Features : Released(h)[f] # h
         /\ \A g \in Handlers \ {h} : \A f \in Features : Released(h)[f] = g <=> lock[f] = g
  BY StoreConstants DEF Released

\* A handler moves on to a phase in which it has no commands.
LEMMA QuietStep ==
  ASSUME Base, NEW h \in Handlers, page' = page, stops' = stops, Grows,
         faults' \in Nat, blindReads' \in Nat,
         db' = db, saved' \in {saved, db},
         NEW x, x \notin Busy, pc' = [pc EXCEPT ![h] = x],
         (todo' = todo /\ todo[h] = <<>>) \/ (todo' = [todo EXCEPT ![h] = <<>>] /\ faults' # 0),
         (snaps' = snaps /\ snaps[h] = <<>>) \/ snaps' = [snaps EXCEPT ![h] = <<>>],
         lock' = Released(h) \/ (lock' = lock /\ pc[h] \notin Busy),
         \/ req' = req /\ rest' = rest
         \/ req' = [req EXCEPT ![h] = NoRequest] /\ rest' = [rest EXCEPT ![h] = <<>>]
  PROVE  Base' /\ Moves(h)
  <1>0. Domains /\ BaseOK(h)
    BY DEF Base
  <1>1. Domains'
    BY <1>0, ReleasedLocks DEF Domains
  <1>2. \A g \in Handlers \ {h} :
          /\ pc'[g] = pc[g] /\ todo'[g] = todo[g] /\ snaps'[g] = snaps[g]
          /\ req'[g] = req[g] /\ rest'[g] = rest[g]
    BY <1>0 DEF Domains
  <1>3. \A g \in Handlers \ {h} : \A f \in Features : lock'[f] = g <=> lock[f] = g
    BY ReleasedLocks
  <1>4. Alone(h)
    BY <1>2, <1>3 DEF Alone
  <1>5. pc'[h] = x /\ snaps'[h] = <<>> /\ todo'[h] = <<>> /\ (todo[h] = <<>> \/ faults' # 0)
    BY <1>0 DEF Domains
  <1>6. \A f \in Features : lock'[f] # h
    BY <1>0, ReleasedLocks DEF BaseOK, Resting
  <1>7. Readings(h)'
    <2>1. CASE req' = req /\ rest' = rest
      BY <1>0, <2>1 DEF BaseOK, Readings, Restoring
    <2>2. CASE rest' = [rest EXCEPT ![h] = <<>>]
      BY <1>0, <2>2 DEF Domains, Readings
    <2> QED
      BY <2>1, <2>2
  <1>8. BaseOK(h)'
    BY <1>5, <1>6, <1>7 DEF BaseOK, Working, Resting, Tidy, Undoing, Busy
  <1>9. Quiet(h)
    BY <1>5, <1>6 DEF Quiet, TakesNone, Abandons
  <1> QED
    BY <1>1, <1>4, <1>8, <1>9, Others DEF Moves

\* Who is at work holds one mutex.
LEMMA AtWork ==
  ASSUME Base, NEW h \in Handlers, pc[h] \in Busy
  PROVE  \E f \in Mutexes : Works(h, f)
  BY DEF Base, BaseOK, Working

LEMMA SnapshotWithin ==
  ASSUME NEW h, NEW T, Within(snaps[h], T), NEW k, k[1] \in T
  PROVE  Within(WithSnapshot(h, k), T)
  <1>1. [key |-> k, prior |-> db[k]].key[1] \in T
    OBVIOUS
  <1> QED
    BY <1>1, WithinPush DEF WithSnapshot

\* A command of a plan is answered, well or not.
LEMMA WriteStep ==
  ASSUME Base, NEW h \in Handlers, page' = page, stops' = stops, Grows,
         faults' \in Nat, blindReads' = blindReads,
         pc[h] \in {"plain", "batch"}, todo[h] # <<>>,
         db' \in {db, Issue(db, Head(todo[h]))}, saved' = saved, lock' = lock,
         \/ snaps' = snaps
         \/ pc[h] = "batch" /\ snaps' = [snaps EXCEPT ![h] = WithSnapshot(h, Head(todo[h]).key)],
         \/ /\ todo' = [todo EXCEPT ![h] = Tail(todo[h])] /\ pc' = pc
            /\ (db' = Issue(db, Head(todo[h])) \/ page = "users")
         \/ /\ todo' = [todo EXCEPT ![h] = <<>>] /\ faults' # 0
            /\ pc[h] = "batch" /\ pc' = [pc EXCEPT ![h] = "undoDel"],
         req' = req, rest' = rest
  PROVE  Base' /\ Moves(h)
  <1>0. Domains /\ BaseOK(h)
    BY DEF Base
  <1>1. Domains'
    <2>1. DOMAIN db' = Keys
      BY <1>0, IssueRow DEF Domains
    <2> QED
      BY <1>0, <2>1 DEF Domains
  <1>2. \A g \in Handlers \ {h} :
          /\ pc'[g] = pc[g] /\ todo'[g] = todo[g] /\ snaps'[g] = snaps[g]
          /\ req'[g] = req[g] /\ rest'[g] = rest[g]
    BY <1>0 DEF Domains
  <1>3. Alone(h)
    BY <1>2 DEF Alone
  <1>4. /\ Snaps(h)
        /\ \/ (todo'[h] = Tail(todo[h]) /\ pc'[h] = pc[h] /\ (db' = Issue(db, Head(todo[h])) \/ page = "users"))
           \/ (Abandons(h) /\ pc[h] = "batch" /\ pc'[h] = "undoDel")
    BY <1>0 DEF Domains, Snaps, Abandons
  <1>5. PICK f \in Mutexes : Works(h, f)
    BY AtWork DEF Busy
  <1>6. Works(h, f)'
    <2>1. Tables(f)' = Tables(f) /\ Holds(h, f)' /\ page' \in Homes(f)
      BY <1>5 DEF Tables, Holds, Works
    <2>2. Within(todo[h], Tables(f)) /\ Within(snaps[h], Tables(f))
      BY <1>5 DEF Works
    <2>3. Within(todo'[h], Tables(f))
      BY <1>4, <2>2, WithinTail, WithinNone DEF Abandons
    <2>4. Within(snaps'[h], Tables(f))
      BY <1>4, <2>2, WithinTail, SnapshotWithin DEF Snaps
    <2> QED
      BY <2>1, <2>3, <2>4 DEF Works
  <1>7. Working(h)' /\ Resting(h)'
    BY <1>4, <1>6 DEF Working, Resting, Busy
  <1>8. Tidy(h)'
    <2>1. pc[h] = "plain" => snaps'[h] = <<>> /\ pc'[h] = "plain"
      BY <1>0, <1>4 DEF BaseOK, Tidy, Domains
    <2> QED
      BY <1>4, <2>1 DEF Tidy, Abandons
  <1>9. Undoing(h)' /\ Readings(h)'
    BY <1>0, <1>4 DEF BaseOK, Undoing, Readings, Restoring, Abandons
  <1>10. Issues(h) \/ Quiet(h)
    BY <1>4 DEF Issues, Quiet, TakesNone
  <1> QED
    BY <1>1, <1>3, <1>7, <1>8, <1>9, <1>10, Others DEF Moves, BaseOK

\* A command outside a batch fails after it took effect.
LEMMA LostReply ==
  ASSUME Base, NEW h \in Handlers, page' = page, stops' = stops,
         faults' \in Nat, faults' # 0, blindReads' = blindReads,
         pc[h] = "plain", todo[h] # <<>>,
         db' = Issue(db, Head(todo[h])), saved' = saved, lock' = Released(h), snaps' = snaps,
         todo' = [todo EXCEPT ![h] = <<>>], pc' = [pc EXCEPT ![h] = "done"],
         req' = [req EXCEPT ![h] = NoRequest], rest' = [rest EXCEPT ![h] = <<>>]
  PROVE  Base' /\ Moves(h)
  <1>0. Domains /\ BaseOK(h)
    BY DEF Base
  <1>1. Domains'
    <2>1. DOMAIN db' = Keys
      BY <1>0, IssueRow DEF Domains
    <2> QED
      BY <1>0, <2>1, ReleasedLocks DEF Domains
  <1>2. \A g \in Handlers \ {h} :
          /\ pc'[g] = pc[g] /\ todo'[g] = todo[g] /\ snaps'[g] = snaps[g]
          /\ req'[g] = req[g] /\ rest'[g] = rest[g]
    BY <1>0 DEF Domains
  <1>3. Alone(h)
    BY <1>2, ReleasedLocks DEF Alone, Grows
  <1>4. pc'[h] = "done" /\ todo'[h] = <<>> /\ snaps'[h] = snaps[h] /\ snaps[h] = <<>> /\ rest'[h] = <<>>
    BY <1>0 DEF Domains, BaseOK, Tidy
  <1>5. \A f \in Features : lock'[f] # h
    BY ReleasedLocks
  <1>6. BaseOK(h)'
    BY <1>4, <1>5 DEF BaseOK, Working, Resting, Tidy, Undoing, Readings, Busy
  <1>7. Issues(h)
    BY <1>4, <1>5 DEF Issues, TakesNone, Snaps, Abandons
  <1> QED
    BY <1>1, <1>3, <1>6, <1>7, Others DEF Moves

\* One command of a rollback.
LEMMA UndoStep ==
  ASSUME Base, NEW h \in Handlers, page' = page, NEW ok \in BOOLEAN,
         UndoDel(h, ok) \/ UndoSet(h, ok),
         blindReads' = blindReads, req' = req, rest' = rest
  PROVE  Base' /\ Moves(h)
  <1>0. Domains /\ BaseOK(h)
    BY DEF Base
  <1> DEFINE dels == Del(LastSnap(h).key)
             sets == HSet(LastSnap(h).key, [f \in Present(LastSnap(h).prior) |-> LastSnap(h).prior[f]])
  <1>1. /\ pc[h] \in {"undoDel", "undoSet"} /\ snaps[h] # <<>>
        /\ saved' = saved /\ lock' = lock /\ todo' = todo /\ stops' = stops
        /\ (pc' = pc \/ pc' = [pc EXCEPT ![h] = "undoDel"] \/ pc' = [pc EXCEPT ![h] = "undoSet"])
        /\ (snaps' = snaps \/ snaps' = [snaps EXCEPT ![h] = SubSeq(snaps[h], 1, Len(snaps[h]) - 1)])
    BY DEF UndoDel, UndoSet, Popped
  <1>2. faults # 0 /\ faults \in Nat
    BY <1>0, <1>1 DEF BaseOK, Undoing, Domains
  <1>3. (faults' = faults \/ faults' = faults + 1) /\ db' \in {db, Issue(db, dels), Issue(db, sets)}
    BY DEF UndoDel, UndoSet, UndoOutcome
  <1> HIDE DEF dels, sets
  <1>4. faults' \in Nat /\ faults' # 0
    BY <1>2, <1>3
  <1>5. Domains'
    <2>1. DOMAIN db' = Keys
      BY <1>0, <1>3, IssueRow DEF Domains
    <2> QED
      BY <1>0, <1>1, <1>4, <2>1 DEF Domains
  <1>6. \A g \in Handlers \ {h} :
          /\ pc'[g] = pc[g] /\ todo'[g] = todo[g] /\ snaps'[g] = snaps[g]
          /\ req'[g] = req[g] /\ rest'[g] = rest[g]
    BY <1>0, <1>1 DEF Domains
  <1>7. Alone(h)
    BY <1>1, <1>4, <1>6 DEF Alone, Grows
  <1>8. /\ pc'[h] \in {"undoDel", "undoSet"} /\ todo'[h] = <<>>
        /\ snaps'[h] \in {snaps[h], SubSeq(snaps[h], 1, Len(snaps[h]) - 1)}
    BY <1>0, <1>1 DEF Domains, BaseOK, Tidy
  <1>9. PICK f \in Mutexes : Works(h, f)
    BY <1>1, AtWork DEF Busy
  <1>10. Works(h, f)'
    <2>1. Tables(f)' = Tables(f) /\ Holds(h, f)' /\ page' \in Homes(f)
      BY <1>1, <1>9 DEF Tables, Holds, Works
    <2>2. Within(snaps[h], Tables(f))
      BY <1>9 DEF Works
    <2>3. Within(SubSeq(snaps[h], 1, Len(snaps[h]) - 1), Tables(f))
      BY <1>1, <2>2, WithinPop
    <2> QED
      BY <1>8, <2>1, <2>2, <2>3, WithinNone DEF Works
  <1>11. BaseOK(h)'
    <2>1. Working(h)' /\ Resting(h)'
      BY <1>8, <1>10 DEF Working, Resting, Busy
    <2>2. Tidy(h)' /\ Undoing(h)' /\ Readings(h)'
      BY <1>0, <1>1, <1>4, <1>8 DEF BaseOK, Tidy, Undoing, Readings, Restoring
    <2> QED
      BY <2>1, <2>2 DEF BaseOK
  <1>12. Undoes(h)
    BY <1>1, <1>3, <1>4, <1>8 DEF Undoes, TakesNone, dels, sets
  <1> QED
    BY <1>5, <1>7, <1>11, <1>12, Others DEF Moves

\* The write path, whatever the request was.
LEMMA ProceedStep ==
  ASSUME Base, NEW h \in Handlers, page' = page, NEW persist, Proceed(h, persist)
  PROVE  Base' /\ Moves(h)
  <1>0. Domains /\ BaseOK(h)
    BY DEF Base
  <1>1. /\ blindReads' = blindReads
        /\ pc'[h] \in {"save", "done", "idle"} =>
              req' = [req EXCEPT ![h] = NoRequest] /\ rest' = [rest EXCEPT ![h] = <<>>]
        /\ pc'[h] \notin {"save", "done", "idle"} => req' = req /\ rest' = rest
        /\ Run(h) \/ Commit(h, persist)
    BY DEF Proceed
  <1>2. \A x : pc' = [pc EXCEPT ![h] = x] => pc'[h] = x
    BY <1>0 DEF Domains
  <1>3. faults \in Nat /\ stops \in Nat /\ blindReads \in Nat
    BY <1>0 DEF Domains
  <1>4. /\ pc[h] \notin {"plain", "batch"} => todo[h] = <<>>
        /\ pc[h] \notin {"batch", "undoDel", "undoSet"} => snaps[h] = <<>>
    BY <1>0 DEF BaseOK, Tidy
  <1>5. CASE Execute(h)
    <2>1. /\ pc[h] \in {"plain", "batch"} /\ todo[h] # <<>> /\ db' = Issue(db, Head(todo[h]))
          /\ saved' = saved /\ lock' = lock /\ pc' = pc /\ faults' = faults /\ stops' = stops
          /\ \/ snaps' = snaps
             \/ pc[h] = "batch" /\ snaps' = [snaps EXCEPT ![h] = WithSnapshot(h, Head(todo[h]).key)]
          /\ todo' = [todo EXCEPT ![h] = Tail(todo[h])]
      BY <1>5 DEF Execute
    <2>2. req' = req /\ rest' = rest
      BY <1>1, <2>1
    <2>3. Grows
      BY <1>1, <2>1 DEF Grows
    <2> QED
      BY <1>1, <1>3, <2>1, <2>2, <2>3, WriteStep
  <1>6. CASE ExecuteFault(h)
    <2>1. /\ pc[h] \in {"plain", "batch"} /\ todo[h] # <<>> /\ faults' = faults + 1
          /\ saved' = saved /\ stops' = stops /\ todo' = [todo EXCEPT ![h] = <<>>]
          /\ db' \in {db, Issue(db, Head(todo[h]))}
          /\ \/ snaps' = snaps
             \/ pc[h] = "batch" /\ snaps' = [snaps EXCEPT ![h] = WithSnapshot(h, Head(todo[h]).key)]
      BY <1>6 DEF ExecuteFault
    <2>2. faults' \in Nat /\ faults' # 0 /\ Grows
      BY <1>1, <1>3, <2>1 DEF Grows
    <2>3. CASE pc[h] = "batch"
      <3>1. pc' = [pc EXCEPT ![h] = "undoDel"] /\ lock' = lock
        BY <1>6, <2>3 DEF ExecuteFault
      <3>2. req' = req /\ rest' = rest
        BY <1>1, <1>2, <3>1
      <3> QED
        BY <1>1, <2>1, <2>2, <2>3, <3>1, <3>2, WriteStep
    <2>4. CASE pc[h] = "plain"
      <3>1. pc' = [pc EXCEPT ![h] = "done"] /\ lock' = Released(h) /\ snaps' = snaps
        BY <1>6, <2>4 DEF ExecuteFault
      <3>2. req' = [req EXCEPT ![h] = NoRequest] /\ rest' = [rest EXCEPT ![h] = <<>>]
        BY <1>1, <1>2, <3>1
      <3>3. CASE db' = db
        <4>1. snaps[h] = <<>> /\ "done" \notin Busy
          BY <1>4, <2>4 DEF Busy
        <4> QED
          BY <1>1, <1>3, <2>1, <2>2, <3>1, <3>2, <3>3, <4>1, QuietStep
      <3>4. CASE db' = Issue(db, Head(todo[h]))
        BY <1>1, <2>1, <2>2, <2>4, <3>1, <3>2, <3>4, LostReply
      <3> QED
        BY <2>1, <3>3, <3>4
    <2> QED
      BY <2>1, <2>3, <2>4
  <1>7. CASE Abort(h) \/ Save(h) \/ Respond(h) \/ Commit(h, persist)
    <2>1. PICK x : x \in {"save", "done", "idle"} /\ pc' = [pc EXCEPT ![h] = x]
      BY <1>7 DEF Abort, Save, Respond, Commit
    <2>2. /\ db' = db /\ saved' \in {saved, db} /\ faults' = faults /\ stops' = stops
          /\ todo' = todo /\ todo[h] = <<>>
          /\ (snaps' = snaps /\ snaps[h] = <<>>) \/ snaps' = [snaps EXCEPT ![h] = <<>>]
          /\ lock' = Released(h) \/ (lock' = lock /\ pc[h] \notin Busy)
      BY <1>4, <1>7 DEF Abort, Save, Respond, Commit, Busy
    <2>3. req' = [req EXCEPT ![h] = NoRequest] /\ rest' = [rest EXCEPT ![h] = <<>>]
      BY <1>1, <1>2, <2>1
    <2>4. Grows /\ x \notin Busy
      BY <1>1, <2>1, <2>2 DEF Grows, Busy
    <2> QED
      BY <1>1, <1>3, <2>1, <2>2, <2>3, <2>4, QuietStep
  <1>8. ASSUME NEW ok \in BOOLEAN, UndoDel(h, ok) \/ UndoSet(h, ok)
        PROVE  Base' /\ Moves(h)
    <2>1. pc[h] \in {"undoDel", "undoSet"}
          /\ (pc' = pc \/ pc' = [pc EXCEPT ![h] = "undoDel"] \/ pc' = [pc EXCEPT ![h] = "undoSet"])
      BY <1>8 DEF UndoDel, UndoSet
    <2>2. req' = req /\ rest' = rest
      BY <1>1, <1>2, <2>1
    <2> QED
      BY <1>1, <1>8, <2>2, UndoStep
  <1> QED
    BY <1>1, <1>5, <1>6, <1>7, <1>8 DEF Run

\* A request takes its mutex.
LEMMA AdmitStep ==
  ASSUME Base, NEW h \in Handlers, page' = page, NEW f, NEW ops, NEW batched, NEW readings, NEW r,
         Take(h, {f}, ops, batched, readings, r), Plans(f, ops),
         batched \in BOOLEAN, page = "users" => ~batched,
         blindReads' \in Nat, blindReads' = 0 => blindReads = 0,
         \/ readings = <<>>
         \/ page = "aaa" /\ readings = <<"register">>
         \/ page = "system" /\ readings = <<"config save">>
         \/ /\ page = "system" /\ readings = <<"write file", "config reload">>
            /\ r.op = "restore" /\ r.backup \in Backups
  PROVE  Base' /\ Moves(h)
  <1>0. Domains /\ BaseOK(h) /\ f \in Mutexes /\ f \in Features
    BY PagesKnown DEF Base, Plans, Mutexes
  <1>1. /\ pc[h] = "queued" /\ lock[f] = NoOne
        /\ lock' = [g \in Features |-> IF g \in {f} THEN h ELSE lock[g]]
        /\ pc' = [pc EXCEPT ![h] = IF batched THEN "batch" ELSE "plain"]
        /\ todo' = [todo EXCEPT ![h] = ops] /\ snaps' = [snaps EXCEPT ![h] = <<>>]
        /\ req' = [req EXCEPT ![h] = r] /\ rest' = [rest EXCEPT ![h] = readings]
        /\ db' = db /\ saved' = saved /\ faults' = faults /\ stops' = stops
    BY DEF Take, Admit
  <1>2. Domains'
    BY <1>0, <1>1 DEF Domains
  <1>3. \A g \in Handlers \ {h} :
          /\ pc'[g] = pc[g] /\ todo'[g] = todo[g] /\ snaps'[g] = snaps[g]
          /\ req'[g] = req[g] /\ rest'[g] = rest[g]
    BY <1>0, <1>1 DEF Domains
  <1>4. /\ lock'[f] = h /\ \A g \in Features \ {f} : lock'[g] = lock[g]
        /\ \A g \in Features : lock[g] # h
    BY <1>0, <1>1 DEF BaseOK, Resting, Busy
  <1>5. \A g \in Handlers \ {h} : \A e \in Features : lock'[e] = g <=> lock[e] = g
    BY <1>0, <1>1, <1>4, StoreConstants
  <1>6. Alone(h)
    BY <1>1, <1>3, <1>5 DEF Alone, Grows
  <1>7. /\ pc'[h] = (IF batched THEN "batch" ELSE "plain") /\ todo'[h] = ops /\ snaps'[h] = <<>>
        /\ req'[h] = r /\ rest'[h] = readings
    BY <1>0, <1>1 DEF Domains
  <1>8. Works(h, f)'
    <2>1. Tables(f)' = Tables(f) /\ Holds(h, f)' /\ page' \in Homes(f) /\ Within(ops, Tables(f))
      BY <1>0, <1>4 DEF Tables, Holds, Plans
    <2> QED
      BY <1>7, <2>1, WithinNone DEF Works
  <1>9. BaseOK(h)'
    <2>1. Working(h)' /\ Resting(h)'
      BY <1>0, <1>7, <1>8 DEF Working, Resting, Busy
    <2>2. Tidy(h)' /\ Undoing(h)'
      BY <1>7 DEF Tidy, Undoing
    <2>3. Readings(h)'
      BY <1>7 DEF Readings, Restoring
    <2> QED
      BY <2>1, <2>2, <2>3 DEF BaseOK
  <1>10. Admits(h, f, ops)
    BY <1>1, <1>4, <1>7 DEF Admits, Busy
  <1> QED
    BY <1>2, <1>6, <1>9, <1>10, Others DEF Moves

\* A request is refused.
LEMMA RefuseStep ==
  ASSUME Base, NEW h \in Handlers, page' = page, NEW fs, NEW status, Answer(h, fs, status),
         blindReads' \in Nat, blindReads' = 0 => blindReads = 0
  PROVE  Base' /\ Moves(h)
  <1>0. Domains /\ BaseOK(h)
    BY DEF Base
  <1>1. /\ pc[h] = "queued" /\ pc' = [pc EXCEPT ![h] = "done"]
        /\ db' = db /\ saved' = saved /\ lock' = lock /\ todo' = todo /\ snaps' = snaps
        /\ faults' = faults /\ stops' = stops /\ req' = req /\ rest' = rest
    BY DEF Answer, Refuse
  <1>2. /\ todo[h] = <<>> /\ snaps[h] = <<>> /\ pc[h] \notin Busy /\ "done" \notin Busy
        /\ Grows /\ faults' \in Nat
    BY <1>0, <1>1 DEF BaseOK, Tidy, Busy, Grows, Domains
  <1> QED
    BY <1>1, <1>2, QuietStep

\* A handler that holds its mutex goes on reading.
LEMMA ReadStep ==
  ASSUME Base, NEW h \in Handlers, page' = page, pc[h] = "plain",
         pc' = pc, lock' = lock, snaps' = snaps, req' = req,
         faults' = faults, stops' = stops, blindReads' = blindReads,
         NEW f \in Mutexes, Works(h, f), Within(todo'[h], Tables(f)),
         todo' = todo \/ \E ops : todo' = [todo EXCEPT ![h] = ops],
         DOMAIN db' = Keys, DOMAIN saved' = Keys,
         rest' = [rest EXCEPT ![h] = Tail(rest[h])], Readings(h)'
  PROVE  Base' /\ Alone(h) /\ TakesNone(h)
  <1>0. Domains /\ BaseOK(h)
    BY DEF Base
  <1>1. Domains'
    BY <1>0 DEF Domains
  <1>2. \A g \in Handlers \ {h} :
          /\ pc'[g] = pc[g] /\ todo'[g] = todo[g] /\ snaps'[g] = snaps[g]
          /\ req'[g] = req[g] /\ rest'[g] = rest[g]
    BY <1>0 DEF Domains
  <1>3. Alone(h) /\ TakesNone(h)
    BY <1>2 DEF Alone, Grows, TakesNone
  <1>4. Works(h, f)'
    <2>1. Tables(f)' = Tables(f) /\ Holds(h, f)' /\ page' \in Homes(f)
      BY DEF Tables, Holds, Works
    <2> QED
      BY <2>1 DEF Works
  <1>5. BaseOK(h)'
    <2>1. Working(h)' /\ Resting(h)' /\ Tidy(h)' /\ Undoing(h)'
      BY <1>0, <1>4 DEF Working, Resting, Busy, BaseOK, Tidy, Undoing
    <2> QED
      BY <2>1 DEF BaseOK
  <1> QED
    BY <1>1, <1>3, <1>5, Others

LEMMA ApplyKeyWithin ==
  ASSUME NEW T, NEW k, k[1] \in T, NEW key
  PROVE  Within(apply_key(k, key), T)
  <1>1. Within(<<>>, T)
    BY WithinNone
  <1>2. Within(<<HDel(k, {"passkey"})>>, T)
    BY WithinOne DEF HDel
  <1>3. Within(<<HSet(k, [passkey |-> key])>>, T)
    BY WithinOne DEF HSet
  <1> QED
    BY <1>1, <1>2, <1>3 DEF apply_key

\* The second half of an AAA server's request.
LEMMA RegisterStep ==
  ASSUME Base, NEW h \in Handlers, page' = page, Register(h)
  PROVE  Base' /\ Moves(h)
  <1>0. Domains /\ BaseOK(h) /\ rest[h] = <<"register">>
    BY DEF Base, Register
  <1>1. page = "aaa"
    <2>1. <<"register">> # <<>> /\ <<"register">> # <<"config save">> /\ <<"register">> # <<"config reload">>
          /\ <<"register">> # <<"write file", "config reload">>
      OBVIOUS
    <2> QED
      BY <1>0, <2>1 DEF BaseOK, Readings
  <1> DEFINE k == AaaServer(req[h].address)
             ops == (IF Exists(db, k) THEN <<>> ELSE <<HSet(k, Marker)>>) \o apply_key(k, req[h].key)
  <1>2. /\ pc[h] = "plain" /\ todo' = [todo EXCEPT ![h] = ops]
        /\ db' = db /\ saved' = saved /\ lock' = lock /\ pc' = pc /\ snaps' = snaps
        /\ faults' = faults /\ stops' = stops /\ req' = req /\ blindReads' = blindReads
        /\ rest' = [rest EXCEPT ![h] = <<>>]
    BY DEF Register, Extend
  <1>3. PICK f \in Mutexes : Works(h, f)
    BY <1>2, AtWork DEF Busy
  <1>4. f = "aaa"
    BY <1>1, <1>3 DEF Works, Homes, SystemPages, Mutexes
  <1>5. Within(ops, AaaTabs)
    <2>1. k[1] \in AaaTabs
      BY DEF AaaServer, AaaTabs
    <2>2. Within(<<>>, AaaTabs)
      BY WithinNone
    <2>3. Within(<<HSet(k, Marker)>>, AaaTabs)
      BY <2>1, WithinOne DEF HSet
    <2>4. Within(apply_key(k, req[h].key), AaaTabs)
      BY <2>1, ApplyKeyWithin
    <2> HIDE DEF k
    <2> QED
      BY <2>2, <2>3, <2>4, WithinJoin
  <1>6. Tables("aaa") = AaaTabs
    BY DEF Tables
  <1>7. todo'[h] = ops /\ rest'[h] = <<>> /\ Tail(rest[h]) = <<>>
    BY <1>0, <1>2 DEF Domains
  <1> HIDE DEF ops
  <1>8. Readings(h)' /\ DOMAIN db' = Keys /\ DOMAIN saved' = Keys
    BY <1>0, <1>2, <1>7 DEF Readings, Domains
  <1>9. Base' /\ Alone(h) /\ TakesNone(h)
    <2>1. Within(todo'[h], Tables(f))
      BY <1>4, <1>5, <1>6, <1>7
    <2>2. rest' = [rest EXCEPT ![h] = Tail(rest[h])]
      BY <1>2, <1>7
    <2> QED
      BY <1>2, <1>3, <1>8, <2>1, <2>2, ReadStep
  <1>10. ReadsOn(h)
    BY <1>1, <1>2, <1>9 DEF ReadsOn
  <1> QED
    BY <1>9, <1>10 DEF Moves

LEMMA ShortLists ==
  ASSUME NEW a, NEW b
  PROVE  /\ Head(<<a>>) = a /\ Tail(<<a>>) = <<>>
         /\ Head(<<a, b>>) = a /\ Tail(<<a, b>>) = <<b>>
  <1>1. Head(<<a>>) = a /\ Head(<<a, b>>) = a
    OBVIOUS
  <1>2. Tail(<<a>>) = <<>>
    OBVIOUS
  <1>3. Tail(<<a, b>>) = <<b>>
    OBVIOUS
  <1> QED
    BY <1>1, <1>2, <1>3

\* config save, and the two halves of a restore.
LEMMA MaintainStep ==
  ASSUME Base, NEW h \in Handlers, page' = page, page \in SystemPages, Maintain(h)
  PROVE  Base' /\ Moves(h)
  <1>0. Domains /\ BaseOK(h)
    BY DEF Base
  <1>1. /\ pc[h] = "plain" /\ todo[h] = <<>> /\ rest[h] # <<>>
        /\ rest' = [rest EXCEPT ![h] = Tail(rest[h])]
        /\ lock' = lock /\ pc' = pc /\ todo' = todo /\ snaps' = snaps
        /\ faults' = faults /\ stops' = stops /\ req' = req /\ blindReads' = blindReads
    BY DEF Maintain
  <1>2. PICK f \in Mutexes : Works(h, f)
    BY <1>1, AtWork DEF Busy
  <1>3. rest'[h] = Tail(rest[h]) /\ Within(todo'[h], Tables(f))
    BY <1>0, <1>1, <1>2 DEF Domains, Works
  <1>4. /\ page = "system"
        /\ \/ rest[h] = <<"config save">>
           \/ Restoring(h) /\ rest[h] = <<"write file", "config reload">>
           \/ Restoring(h) /\ rest[h] = <<"config reload">>
    BY <1>0, <1>1 DEF BaseOK, Readings, SystemPages
  <1>5. DOMAIN Reloaded = Keys
    BY DEF Reloaded
  <1>6. CASE rest[h] = <<"config save">>
    <2>1. Head(rest[h]) = "config save" /\ Tail(rest[h]) = <<>>
      BY <1>6, ShortLists
    <2>2. saved' = db /\ db' = db
      BY <2>1 DEF Maintain
    <2>3. Readings(h)'
      BY <1>3, <2>1 DEF Readings
    <2>4. Base' /\ Alone(h) /\ TakesNone(h)
      BY <1>0, <1>1, <1>2, <1>3, <2>2, <2>3, ReadStep DEF Domains
    <2>5. Quiet(h)
      BY <1>1, <2>2, <2>4 DEF Quiet, Snaps
    <2> QED
      BY <2>4, <2>5 DEF Moves
  <1>7. CASE Restoring(h) /\ rest[h] = <<"write file", "config reload">>
    <2>1. Head(rest[h]) = "write file" /\ Tail(rest[h]) = <<"config reload">>
      BY <1>7, ShortLists
    <2>2. saved' = req[h].backup /\ db' = db
      BY <2>1 DEF Maintain
    <2>3. Readings(h)'
      BY <1>1, <1>3, <1>4, <1>7, <2>1 DEF Readings, Restoring
    <2>4. saved' \in Backups /\ DOMAIN saved' = Keys
      BY <1>7, <2>2, SystemConstants DEF Restoring
    <2>5. Base' /\ Alone(h) /\ TakesNone(h)
      BY <1>0, <1>1, <1>2, <1>3, <2>2, <2>3, <2>4, ReadStep DEF Domains
    <2>6. Quiet(h)
      BY <1>1, <1>4, <2>2, <2>4, <2>5 DEF Quiet, Snaps
    <2> QED
      BY <2>5, <2>6 DEF Moves
  <1>8. CASE Restoring(h) /\ rest[h] = <<"config reload">>
    <2>1. Head(rest[h]) = "config reload" /\ Tail(rest[h]) = <<>>
      BY <1>8, ShortLists
    <2>2. saved' = saved /\ db' = Reloaded
      BY <2>1 DEF Maintain
    <2>3. Readings(h)'
      BY <1>3, <2>1 DEF Readings
    <2>4. Base' /\ Alone(h) /\ TakesNone(h)
      BY <1>0, <1>1, <1>2, <1>3, <1>5, <2>2, <2>3, ReadStep DEF Domains
    <2>5. Reloads(h)
      BY <1>1, <1>4, <1>8, <2>2, <2>4 DEF Reloads, Restoring
    <2> QED
      BY <2>4, <2>5 DEF Moves
  <1> QED
    BY <1>4, <1>6, <1>7, <1>8

\* The commands of the system pages.
LEMMA SystemStepMoves ==
  ASSUME Base, NEW h \in Handlers, page' = page, page \in SystemPages, SystemStep(h)
  PROVE  Base' /\ Moves(h)
  <1>0. Domains /\ BaseOK(h)
    BY DEF Base
  <1>1. CASE Maintain(h)
    BY <1>1, MaintainStep
  <1>2. CASE Proceed(h, Persists(h))
    BY <1>2, ProceedStep
  <1>3. CASE Gpasswd(h) /\ Execute(h) /\ UNCHANGED <<req, rest, served, blindReads>>
    <2>1. /\ pc[h] \in {"plain", "batch"} /\ todo[h] # <<>> /\ db' = Issue(db, Head(todo[h]))
          /\ saved' = saved /\ lock' = lock /\ pc' = pc /\ faults' = faults /\ stops' = stops
          /\ \/ snaps' = snaps
             \/ pc[h] = "batch" /\ snaps' = [snaps EXCEPT ![h] = WithSnapshot(h, Head(todo[h]).key)]
          /\ todo' = [todo EXCEPT ![h] = Tail(todo[h])]
          /\ req' = req /\ rest' = rest /\ blindReads' = blindReads
      BY <1>3 DEF Execute
    <2>2. Grows /\ faults' \in Nat
      BY <1>0, <2>1 DEF Grows, Domains
    <2> QED
      BY <2>1, <2>2, WriteStep
  <1>4. CASE Gpasswd(h) /\ IgnoredFault(h) /\ UNCHANGED <<req, rest, served, blindReads>>
    <2>1. /\ pc[h] = "plain" /\ todo[h] # <<>> /\ faults' = faults + 1
          /\ todo' = [todo EXCEPT ![h] = Tail(todo[h])]
          /\ db' = db /\ saved' = saved /\ lock' = lock /\ pc' = pc /\ snaps' = snaps /\ stops' = stops
          /\ req' = req /\ rest' = rest /\ blindReads' = blindReads
      BY <1>4 DEF Gpasswd, IgnoredFault
    <2>2. Grows /\ faults' \in Nat
      BY <1>0, <2>1 DEF Grows, Domains
    <2>3. page = "users"
      <3>1. PICK f \in Mutexes : Works(h, f)
        BY <2>1, AtWork DEF Busy
      <3>2. f = "system"
        BY <3>1 DEF Works, Homes, SystemPages, Mutexes
      <3>3. Head(todo[h]).key[1] \in Tables("system")
        BY <2>1, <3>1, <3>2, WithinTail DEF Works
      <3>4. Head(todo[h]).key[1] = "group"
        BY <1>4 DEF Gpasswd, Group
      <3>5. page # "users" => Tables("system") = SystemTabs
        BY DEF Tables
      <3> QED
        BY <3>3, <3>4, <3>5 DEF SystemTabs
    <2> QED
      BY <2>1, <2>2, <2>3, WriteStep
  <1> QED
    BY <1>1, <1>2, <1>3, <1>4 DEF SystemStep

\* The agent is killed, or the switch reboots.
LEMMA CrashStep ==
  ASSUME Base, page' = page,
         (page \in SystemPages /\ SystemCrash) \/ (page \notin SystemPages /\ Crash)
  PROVE  Base' /\ Crashes
  <1>0. Domains /\ faults \in Nat /\ stops \in Nat
    BY DEF Base, Domains
  <1>1. /\ stops' = stops + 1 /\ faults' = faults /\ blindReads' = blindReads /\ saved' = saved
        /\ lock' = [f \in Features |-> NoOne] /\ pc' = [h \in Handlers |-> "idle"]
        /\ todo' = [h \in Handlers |-> <<>>] /\ snaps' = [h \in Handlers |-> <<>>]
        /\ req' = [h \in Handlers |-> NoRequest] /\ rest' = [h \in Handlers |-> <<>>]
        /\ db' \in {db, IF page \in SystemPages THEN Reloaded ELSE saved}
    BY DEF SystemCrash, Crash, SystemReboot, Kill, Reboot, Stopped, Forget
  <1>2. Domains'
    <2>1. DOMAIN db' = Keys
      BY <1>0, <1>1 DEF Domains, Reloaded
    <2> QED
      BY <1>0, <1>1, <2>1 DEF Domains
  <1>3. ASSUME NEW h \in Handlers PROVE BaseOK(h)'
    <2>1. pc'[h] = "idle" /\ todo'[h] = <<>> /\ snaps'[h] = <<>> /\ rest'[h] = <<>>
          /\ \A f \in Features : lock'[f] # h
      BY <1>1, StoreConstants
    <2> QED
      BY <2>1 DEF BaseOK, Working, Resting, Tidy, Undoing, Readings, Busy
  <1>4. Crashes
    BY <1>0, <1>1 DEF Crashes, Grows
  <1> QED
    BY <1>2, <1>3, <1>4 DEF Base

----------------------------------------------------------------------------
(* The plans of the ACL page.                                              *)

LEMMA AclRowsApart ==
  ASSUME NEW t, NEW u, NEW p, NEW q
  PROVE  /\ AclTable(t)[1] = "ACL_TABLE" /\ AclTable(t)[2] = t
         /\ AclRule(t, p)[1] = "ACL_RULE" /\ AclRule(t, p)[2] = t /\ AclRule(t, p)[3] = p
         /\ RuleDesc(t, p)[1] = "QUARTZ_ACL_RULE_DESC" /\ RuleDesc(t, p)[2] = t
         /\ MirrorSession(t)[1] = "MIRROR_SESSION" /\ MirrorSession(t)[2] = t
  BY DEF AclTable, AclRule, RuleDesc, MirrorSession

LEMMA AclRowsKnown ==
  ASSUME NEW t \in AclTables, NEW p \in Priorities
  PROVE  AclTable(t) \in Keys /\ AclRule(t, p) \in Keys /\ RuleDesc(t, p) \in Keys
  <1>1. /\ AclTable(t) \in {AclTable(u) : u \in AclTables}
        /\ AclRule(t, p) \in {AclRule(u, q) : u \in AclTables, q \in Priorities}
        /\ RuleDesc(t, p) \in {RuleDesc(u, q) : u \in AclTables, q \in Priorities}
    OBVIOUS
  <1>2. AclKeys \subseteq Keys
    BY AclConstants
  <1> QED
    BY <1>1, <1>2 DEF AclKeys

LEMMA AclTableKnown ==
  ASSUME NEW t \in AclTables
  PROVE  AclTable(t) \in Keys
  <1>1. AclTable(t) \in {AclTable(u) : u \in AclTables}
    OBVIOUS
  <1>2. AclKeys \subseteq Keys
    BY AclConstants
  <1> QED
    BY <1>1, <1>2 DEF AclKeys

LEMMA AclFieldsKnown ==
  /\ "type" \in Fields /\ "description" \in Fields /\ "policy_desc" \in Fields
  /\ SrcFields \subseteq Fields /\ RefFields \subseteq Fields
  /\ ManagedTypes \subseteq Values /\ Absent \notin ManagedTypes /\ Keep \notin ManagedTypes
  BY AclConstants, StoreConstants DEF AclFields, SrcFields, RefFields, AclValues

\* What HSET and DEL say of a field.
LEMMA SetField ==
  ASSUME NEW k, NEW vals, NEW f \in Fields
  PROVE  /\ HSet(k, vals).key = k
         /\ HSet(k, vals).upd[f] = IF f \in DOMAIN vals THEN vals[f] ELSE Keep
  BY DEF HSet

LEMMA DelField ==
  ASSUME NEW k, NEW fs, NEW f \in Fields
  PROVE  /\ HDel(k, fs).key = k /\ HDel(k, fs).upd[f] = (IF f \in fs THEN Absent ELSE Keep)
         /\ Del(k).key = k /\ Del(k).upd = NoRow /\ NoRow[f] = Absent
  BY DEF HDel, Del, NoRow

LEMMA DelOf ==
  ASSUME NEW k
  PROVE  Del(k).key = k /\ Del(k).upd = NoRow /\ \A f \in Fields : NoRow[f] = Absent
  BY DEF Del, NoRow

\* A plan of an ACL request, from what its commands are.
LEMMA AclPlanned ==
  ASSUME NEW t \in AclTables, NEW ops, NEW C, ops \in Seq(C), TameRow(db[AclTable(t)]),
         \A c \in C :
            /\ c.key[1] \in AclTabs /\ c.key[2] = t /\ (c.key = AclTable(t) => TameUpd(c.upd))
            /\ c.key[1] = "ACL_RULE" => \A f \in RefFields : c.upd[f] \in {Keep, Absent},
         Lawful(db) => RulePlan(db, t, ops), page = "acl"
  PROVE  Plans("acl", ops)
  <1>1. IsSeq(ops) /\ \A i \in 1..Len(ops) : ops[i] \in C
    BY ElementOfSeq DEF IsSeq
  <1>2. Within(ops, AclTabs)
    BY <1>1 DEF Within
  <1>3. AclPlan(t, ops)
    BY <1>1 DEF AclPlan, About, NamesNone
  <1>4. Tables("acl") = AclTabs /\ page \in Homes("acl")
    BY DEF Tables, Homes
  <1> QED
    BY <1>2, <1>3, <1>4 DEF Plans, Mutexes

LEMMA TableFields ==
  ASSUME NEW in \in TableInputs
  PROVE  /\ "type" \in DOMAIN table_fields(in) /\ table_fields(in)["type"] = in.kind
         /\ in.kind \in ManagedTypes
  <1>1. in.kind \in ManagedTypes
    BY AclConstants
  <1>2. in.kind # Absent
    BY <1>1, AclFieldsKnown
  <1> QED
    BY <1>1, <1>2 DEF table_fields, Given, Restrict

LEMMA CreatePlan ==
  ASSUME page = "acl", NEW t \in AclTables, NEW in \in TableInputs, ~Exists(db, AclTable(t))
  PROVE  Plans("acl", <<HSet(AclTable(t), table_fields(in))>>)
  <1> DEFINE c == HSet(AclTable(t), table_fields(in))
  <1>1. c.key = AclTable(t) /\ c.upd["type"] \in ManagedTypes
    BY SetField, TableFields, AclFieldsKnown
  <1> HIDE DEF c
  <1>2. <<c>> \in Seq({c}) /\ IsSeq(<<c>>) /\ Len(<<c>>) = 1 /\ <<c>>[1] = c
    BY SeqUnit
  <1>3. ASSUME Lawful(db) PROVE RulePlan(db, t, <<c>>)
    <2>1. \A n \in Priorities : db[AclRule(t, n)] = NoRow
      BY <1>3 DEF Lawful, Exists
    <2> QED
      BY <1>1, <1>2, <2>1 DEF RulePlan, WritesTable
  <1>4. TameRow(db[AclTable(t)])
    BY DEF TameRow, Exists
  <1>5. c.key[1] = "ACL_TABLE" /\ c.key[2] = t
    BY <1>1, AclRowsApart
  <1>6. TameUpd(c.upd)
    BY <1>1 DEF TameUpd
  <1>7. \A e \in {c} : /\ e.key[1] \in AclTabs /\ e.key[2] = t /\ (e.key = AclTable(t) => TameUpd(e.upd))
                       /\ e.key[1] = "ACL_RULE" => \A f \in RefFields : e.upd[f] \in {Keep, Absent}
    BY <1>5, <1>6 DEF AclTabs
  <1> DEFINE C == {c}
  <1>9. <<c>> \in Seq(C) /\ \A e \in C :
           /\ e.key[1] \in AclTabs /\ e.key[2] = t /\ (e.key = AclTable(t) => TameUpd(e.upd))
           /\ e.key[1] = "ACL_RULE" => \A f \in RefFields : e.upd[f] \in {Keep, Absent}
    BY <1>2, <1>7
  <1> HIDE DEF C
  <1>8. Plans("acl", <<c>>)
    BY <1>3, <1>4, <1>9, AclPlanned
  <1> QED
    BY <1>8 DEF c

LEMMA UpdatePlan ==
  ASSUME page = "acl", NEW t \in AclTables, NEW in \in TableInputs, managed(db, t), same_type(t, in)
  PROVE  Plans("acl", UpdateWrites(t, in))
  <1> DEFINE a == HSet(AclTable(t), table_fields(in))
             b == HDel(AclTable(t), {"policy_desc"})
             c == HDel(AclTable(t), {"ports"})
             C == {a, b, c}
             ops == UpdateWrites(t, in)
  <1>1. a.key = AclTable(t) /\ a.upd["type"] = in.kind /\ in.kind \in ManagedTypes
    BY SetField, TableFields, AclFieldsKnown
  <1>2. /\ b.key = AclTable(t) /\ b.upd["type"] = Keep /\ \A f \in Fields : b.upd[f] \in {Keep, Absent}
        /\ c.key = AclTable(t) /\ c.upd["type"] = Keep /\ \A f \in Fields : c.upd[f] \in {Keep, Absent}
    BY DelField, AclFieldsKnown
  <1>3. ops = <<a>> \o (IF in.desc = Absent THEN <<b>> ELSE <<>>) \o <<c>>
    BY DEF UpdateWrites
  <1> HIDE DEF a, b, c, ops
  <1>4. ops \in Seq(C)
    <2>0. a \in C /\ b \in C /\ c \in C
      OBVIOUS
    <2> HIDE DEF C
    <2>a. <<a>> \in Seq(C) /\ <<b>> \in Seq(C) /\ <<c>> \in Seq(C) /\ <<>> \in Seq(C)
      BY <2>0
    <2>1. <<a>> \in Seq(C) /\ <<c>> \in Seq(C) /\ (IF in.desc = Absent THEN <<b>> ELSE <<>>) \in Seq(C)
      BY <2>a
    <2>2. (<<a>> \o (IF in.desc = Absent THEN <<b>> ELSE <<>>)) \in Seq(C)
      BY <2>1, ConcatProperties
    <2> QED
      BY <1>3, <2>1, <2>2, ConcatProperties
  <1>5. db[AclTable(t)]["type"] = in.kind
    BY DEF same_type
  <1>6. \A e \in C : e.key = AclTable(t) /\ TameUpd(e.upd) /\ e.upd["type"] \in {Keep, in.kind}
    BY <1>1, <1>2 DEF TameUpd
  <1>7. RulePlan(db, t, ops)
    <2>1. \A i \in 1..Len(ops) : ops[i] \in C
      BY <1>4, ElementOfSeq
    <2> QED
      BY <1>5, <1>6, <2>1 DEF RulePlan, WritesTable
  <1>8. TameRow(db[AclTable(t)])
    BY DEF TameRow, managed
  <1>9. \A e \in C : /\ e.key[1] \in AclTabs /\ e.key[2] = t /\ (e.key = AclTable(t) => TameUpd(e.upd))
                     /\ e.key[1] = "ACL_RULE" => \A f \in RefFields : e.upd[f] \in {Keep, Absent}
    <2>1. AclTable(t)[1] = "ACL_TABLE" /\ AclTable(t)[2] = t
      BY AclRowsApart
    <2> HIDE DEF C
    <2> QED
      BY <1>6, <2>1 DEF AclTabs
  <1> HIDE DEF C
  <1>10. Plans("acl", ops)
    BY <1>4, <1>7, <1>8, <1>9, AclPlanned
  <1> QED
    BY <1>10 DEF ops

\* A set of rows named by a finite set.
LEMMA FiniteImage ==
  ASSUME NEW S, IsFiniteSet(S), NEW g, g \in [S -> {g[x] : x \in S}]
  PROVE  IsFiniteSet({g[x] : x \in S})
  <1>1. g \in Surjection(S, {g[x] : x \in S})
    BY DEF Surjection
  <1> QED
    BY <1>1, FS_Surjection

LEMMA TableDelsPlan ==
  ASSUME page = "acl", NEW t \in AclTables, managed(db, t)
  PROVE  Plans("acl", TableDels(t))
  <1> DEFINE R == RulesOf(db, t)  D == DescsOf(db, t)  T == Del(AclTable(t))
             p == Dels(R)  q == Dels(D)  ops == TableDels(t)
  <1>1. R \subseteq Keys /\ IsFiniteSet(R)
    <2> DEFINE g == [x \in Priorities |-> AclRule(t, x)]
    <2>1. IsFiniteSet(Priorities)
      BY AclConstants
    <2>2. {AclRule(t, x) : x \in Priorities} = {g[x] : x \in Priorities}
      OBVIOUS
    <2>3. g \in [Priorities -> {g[x] : x \in Priorities}]
      OBVIOUS
    <2> HIDE DEF g
    <2>4. IsFiniteSet({AclRule(t, x) : x \in Priorities})
      BY <2>1, <2>2, <2>3, FiniteImage
    <2>5. R \subseteq {AclRule(t, x) : x \in Priorities}
      BY DEF RulesOf
    <2>6. \A x \in Priorities : AclRule(t, x) \in Keys
      BY AclRowsKnown
    <2> QED
      BY <2>4, <2>5, <2>6, FS_Subset
  <1>2. D \subseteq Keys /\ IsFiniteSet(D)
    <2> DEFINE g == [x \in Priorities |-> RuleDesc(t, x)]
    <2>1. IsFiniteSet(Priorities)
      BY AclConstants
    <2>2. {RuleDesc(t, x) : x \in Priorities} = {g[x] : x \in Priorities}
      OBVIOUS
    <2>3. g \in [Priorities -> {g[x] : x \in Priorities}]
      OBVIOUS
    <2> HIDE DEF g
    <2>4. IsFiniteSet({RuleDesc(t, x) : x \in Priorities})
      BY <2>1, <2>2, <2>3, FiniteImage
    <2>5. D \subseteq {RuleDesc(t, x) : x \in Priorities}
      BY DEF DescsOf
    <2>6. \A x \in Priorities : RuleDesc(t, x) \in Keys
      BY AclRowsKnown
    <2> QED
      BY <2>4, <2>5, <2>6, FS_Subset
  <1>3. \A k \in R \cup D : k # AclTable(t) /\ k[1] \in AclTabs /\ k[2] = t
    BY AclRowsApart DEF RulesOf, DescsOf, AclTabs
  <1>4. \A n \in Priorities : Exists(db, AclRule(t, n)) => AclRule(t, n) \in R
    BY DEF RulesOf
  <1>5. ops = p \o q \o <<T>>
    BY DEF TableDels
  <1> HIDE DEF R, D
  <1>6. /\ p \in Seq(Command) /\ \A i \in 1..Len(p) : \E k \in R : p[i] = Del(k)
        /\ \A k \in R : \E i \in 1..Len(p) : p[i] = Del(k)
    BY <1>1, DelsShape
  <1>7. q \in Seq(Command) /\ \A i \in 1..Len(q) : \E k \in D : q[i] = Del(k)
    BY <1>2, DelsShape
  <1> HIDE DEF p, q, T, ops
  <1>8. IsSeq(p) /\ IsSeq(q) /\ IsSeq(<<T>>) /\ Len(<<T>>) = 1 /\ <<T>>[1] = T
    BY <1>6, <1>7, SeqUnit DEF IsSeq
  <1>9. /\ IsSeq(p \o q) /\ Len(p) \in Nat /\ Len(q) \in Nat /\ Len(p \o q) = Len(p) + Len(q)
        /\ \A i \in 1..Len(p \o q) : (p \o q)[i] = IF i <= Len(p) THEN p[i] ELSE q[i - Len(p)]
    BY <1>8, SeqJoin
  <1>10. /\ IsSeq(ops) /\ Len(ops) = Len(p \o q) + 1
         /\ \A i \in 1..Len(ops) :
               ops[i] = IF i <= Len(p \o q) THEN (p \o q)[i] ELSE <<T>>[i - Len(p \o q)]
    BY <1>5, <1>8, <1>9, SeqJoin
  <1> DEFINE n == Len(p)  m == Len(q)
  <1>11. /\ n \in Nat /\ m \in Nat /\ Len(ops) = n + m + 1
         /\ \A i \in 1..n : ops[i] = p[i]
         /\ \A i \in (n + 1)..(n + m) : ops[i] = q[i - n] /\ i - n \in 1..m
         /\ ops[n + m + 1] = T
    BY <1>8, <1>9, <1>10
  <1> HIDE DEF n, m
  <1>12. \A i \in 1..Len(ops) : i \in 1..n \/ i \in (n + 1)..(n + m) \/ i = n + m + 1
    BY <1>11
  <1>13. \A i \in 1..n : \E k \in R : ops[i] = Del(k)
    BY <1>6, <1>11 DEF n
  <1>14. \A i \in (n + 1)..(n + m) : \E k \in D : ops[i] = Del(k)
    BY <1>7, <1>11 DEF m
  <1>15. T.key = AclTable(t) /\ T.upd = NoRow
    BY DelOf DEF T
  <1>16. \A i \in 1..Len(ops) :
            /\ ops[i].upd = NoRow /\ ops[i].key[1] \in AclTabs /\ ops[i].key[2] = t
            /\ ops[i].key = AclTable(t) => i = n + m + 1
    <2> TAKE i \in 1..Len(ops)
    <2>1. CASE i \in 1..n \/ i \in (n + 1)..(n + m)
      <3>1. PICK k \in R \cup D : ops[i] = Del(k)
        BY <1>13, <1>14, <2>1
      <3> QED
        BY <1>3, <3>1, DelOf
    <2>2. CASE i = n + m + 1
      <3>1. AclTable(t)[1] = "ACL_TABLE" /\ AclTable(t)[2] = t
        BY AclRowsApart
      <3> QED
        BY <1>11, <1>15, <2>2, <3>1 DEF AclTabs
    <2> QED
      BY <1>12, <2>1, <2>2
  <1>17. Deletes(db, t, ops)
    <2>1. ASSUME NEW j \in 1..Len(ops), ops[j].key = AclTable(t),
                 NEW x \in Priorities, Exists(db, AclRule(t, x))
          PROVE  \E i \in 1..Len(ops) : i < j /\ ops[i].key = AclRule(t, x)
      <3>1. j = n + m + 1
        BY <1>16, <2>1
      <3>2. PICK i \in 1..Len(p) : p[i] = Del(AclRule(t, x))
        BY <1>4, <1>6, <2>1
      <3>3. i \in 1..n
        BY DEF n
      <3>4. i \in 1..Len(ops) /\ i < j /\ ops[i] = Del(AclRule(t, x))
        BY <1>11, <3>1, <3>2, <3>3
      <3> QED
        BY <3>4, DelOf
    <2> QED
      BY <1>16, <2>1 DEF Deletes
  <1>18. Within(ops, AclTabs) /\ About(ops, t) /\ NamesNone(ops)
    <2>1. TameUpd(NoRow)
      BY DEF TameUpd
    <2>2. \A f \in RefFields : NoRow[f] = Absent
      BY AclFieldsKnown DEF NoRow
    <2> QED
      BY <1>10, <1>16, <2>1, <2>2 DEF Within, About, NamesNone
  <1>19. TameRow(db[AclTable(t)])
    BY DEF TameRow, managed
  <1>20. AclPlan(t, ops)
    BY <1>17, <1>18, <1>19 DEF AclPlan, RulePlan
  <1>21. Tables("acl") = AclTabs /\ page \in Homes("acl")
    BY DEF Tables, Homes
  <1>22. Plans("acl", ops)
    BY <1>18, <1>20, <1>21 DEF Plans, Mutexes
  <1> QED
    BY <1>22 DEF ops

LEMMA RuleFields ==
  ASSUME NEW kind, NEW p, NEW in
  PROVE  \A f \in DOMAIN rule_fields(kind, p, in) :
            f \in {"PRIORITY", "PACKET_ACTION", "IP_PROTOCOL", src_field(kind),
                   "L4_SRC_PORT", "L4_SRC_PORT_RANGE"}
  BY DEF rule_fields, Given, Restrict, port_field

LEMMA RulePlanned ==
  ASSUME page = "acl", NEW t \in AclTables, managed(db, t), NEW p \in Priorities, NEW in
  PROVE  Plans("acl", RuleWrites(t, p, in))
  <1> DEFINE kind == db[AclTable(t)]["type"]
             a == Del(AclRule(t, p))
             b == HSet(AclRule(t, p), rule_fields(kind, p, in))
             c == IF in.desc = Absent THEN Del(RuleDesc(t, p))
                  ELSE HSet(RuleDesc(t, p), [description |-> in.desc])
             ops == RuleWrites(t, p, in)
  <1>1. a.key = AclRule(t, p) /\ \A f \in Fields : a.upd[f] = Absent
    BY DelOf
  <1>2. /\ b.key = AclRule(t, p)
        /\ \A f \in SrcFields : b.upd[f] = Keep \/ f = src_field(kind)
        /\ \A f \in RefFields : b.upd[f] = Keep
    <2>1. \A f \in Fields : b.upd[f] = IF f \in DOMAIN rule_fields(kind, p, in)
                                       THEN rule_fields(kind, p, in)[f] ELSE Keep
      BY SetField
    <2>2. b.key = AclRule(t, p)
      BY DEF HSet
    <2>3. src_field(kind) \notin RefFields
      BY DEF src_field, RefFields
    <2>4. \A f \in SrcFields : f \in DOMAIN rule_fields(kind, p, in) => f = src_field(kind)
      BY RuleFields DEF SrcFields
    <2>5. \A f \in RefFields : f \notin DOMAIN rule_fields(kind, p, in)
      BY <2>3, RuleFields DEF RefFields
    <2> HIDE DEF b, kind
    <2> QED
      BY <2>1, <2>2, <2>4, <2>5, AclFieldsKnown
  <1>3. c.key = RuleDesc(t, p) /\ \A f \in SrcFields : c.upd[f] \in {Keep, Absent}
    <2>1. CASE in.desc = Absent
      BY <2>1, DelOf, AclFieldsKnown
    <2>2. CASE in.desc # Absent
      <3>1. c = HSet(RuleDesc(t, p), [description |-> in.desc])
        BY <2>2
      <3>2. DOMAIN [description |-> in.desc] = {"description"}
        OBVIOUS
      <3> HIDE DEF c
      <3>3. c.key = RuleDesc(t, p)
        BY <3>1 DEF HSet
      <3>4. \A f \in SrcFields : f # "description"
        BY DEF SrcFields
      <3> QED
        BY <3>1, <3>2, <3>3, <3>4, SetField, AclFieldsKnown
    <2> QED
      BY <2>1, <2>2
  <1>4. ops = <<a, b, c>>
    BY DEF RuleWrites
  <1> HIDE DEF a, b, c, ops, kind
  <1> DEFINE C == {a, b, c}
  <1>5. ops \in Seq(C)
    BY <1>4
  <1>6. \A e \in C : e.key[1] \in {"ACL_RULE", "QUARTZ_ACL_RULE_DESC"} /\ e.key[2] = t
    BY <1>1, <1>2, <1>3, AclRowsApart
  <1>7. \A e \in C : \A f \in SrcFields : e.upd[f] \in {Keep, Absent} \/ f = src_field(kind)
    BY <1>1, <1>2, <1>3, AclFieldsKnown
  <1>8. \A e \in C : e.key[1] = "ACL_RULE" => \A f \in RefFields : e.upd[f] \in {Keep, Absent}
    BY <1>1, <1>2, <1>3, AclFieldsKnown, AclRowsApart
  <1>9. \A e \in C : e.key # AclTable(t)
    BY <1>6, AclRowsApart
  <1> HIDE DEF C
  <1>10. RulePlan(db, t, ops)
    <2>1. \A i \in 1..Len(ops) : ops[i] \in C
      BY <1>5, ElementOfSeq
    <2> QED
      BY <1>6, <1>7, <2>1 DEF RulePlan, WritesRules, managed, kind
  <1>11. TameRow(db[AclTable(t)])
    BY DEF TameRow, managed
  <1>12. Plans("acl", ops)
    BY <1>5, <1>6, <1>8, <1>9, <1>10, <1>11, AclPlanned DEF AclTabs
  <1> QED
    BY <1>12 DEF ops

LEMMA DeleteRulePlan ==
  ASSUME page = "acl", NEW t \in AclTables, managed(db, t), NEW p \in Priorities
  PROVE  Plans("acl", <<Del(AclRule(t, p)), Del(RuleDesc(t, p))>>)
  <1> DEFINE a == Del(AclRule(t, p))  b == Del(RuleDesc(t, p))  C == {a, b}
  <1>1. a.key = AclRule(t, p) /\ b.key = RuleDesc(t, p) /\ a.upd = NoRow /\ b.upd = NoRow
    BY DelOf
  <1> HIDE DEF a, b
  <1>2. <<a, b>> \in Seq(C)
    OBVIOUS
  <1>3. \A e \in C : /\ e.key[1] \in AclTabs /\ e.key[2] = t /\ e.key # AclTable(t)
                     /\ e.upd = NoRow /\ \A f \in RefFields : e.upd[f] \in {Keep, Absent}
    <2>1. \A f \in RefFields : NoRow[f] = Absent
      BY AclFieldsKnown DEF NoRow
    <2>2. /\ AclRule(t, p)[1] = "ACL_RULE" /\ AclRule(t, p)[2] = t /\ AclTable(t)[1] = "ACL_TABLE"
          /\ RuleDesc(t, p)[1] = "QUARTZ_ACL_RULE_DESC" /\ RuleDesc(t, p)[2] = t
      BY AclRowsApart
    <2> QED
      BY <1>1, <2>1, <2>2 DEF AclTabs
  <1> HIDE DEF C
  <1>4. RulePlan(db, t, <<a, b>>)
    <2>1. \A i \in 1..Len(<<a, b>>) : <<a, b>>[i] \in C
      BY <1>2, ElementOfSeq
    <2> QED
      BY <1>3, <2>1 DEF RulePlan, Deletes
  <1>5. TameRow(db[AclTable(t)])
    BY DEF TameRow, managed
  <1>6. Plans("acl", <<a, b>>)
    BY <1>2, <1>3, <1>4, <1>5, AclPlanned
  <1> QED
    BY <1>6 DEF a, b

LEMMA AclMoves ==
  ASSUME Base, NEW h \in Handlers, page' = page, page = "acl", AclRequest(h), blindReads' = blindReads
  PROVE  Base' /\ Moves(h)
  <1>0. blindReads' \in Nat
    BY DEF Base, Domains
  <1>1. ASSUME NEW f, NEW status, Decline(h, f, status) PROVE Base' /\ Moves(h)
    BY <1>0, <1>1, RefuseStep DEF Decline
  <1>2. ASSUME NEW ops, NEW batched \in BOOLEAN, NEW r, Accept(h, "acl", ops, batched, r), Plans("acl", ops)
        PROVE  Base' /\ Moves(h)
    BY <1>0, <1>2, AdmitStep DEF Accept
  <1>3. PICK t \in AclTables :
          \/ delete_table(h, t)
          \/ \E in \in TableInputs : create_table(h, t, in) \/ update_table(h, t, in)
          \/ \E p \in Priorities :
                delete_rule(h, t, p) \/ \E in \in RuleInputs : put_rule(h, t, p, in)
    BY DEF AclRequest
  <1>4. CASE Unmanaged(h, t)
    BY <1>1, <1>4 DEF Unmanaged
  <1>5. CASE delete_table(h, t)
    BY <1>2, <1>4, <1>5, TableDelsPlan DEF delete_table
  <1>6. ASSUME NEW in \in TableInputs, create_table(h, t, in) PROVE Base' /\ Moves(h)
    BY <1>1, <1>2, <1>6, CreatePlan DEF create_table
  <1>7. ASSUME NEW in \in TableInputs, update_table(h, t, in) PROVE Base' /\ Moves(h)
    BY <1>1, <1>2, <1>4, <1>7, UpdatePlan DEF update_table
  <1>8. ASSUME NEW p \in Priorities, delete_rule(h, t, p) PROVE Base' /\ Moves(h)
    BY <1>1, <1>2, <1>4, <1>8, DeleteRulePlan DEF delete_rule
  <1>9. ASSUME NEW p \in Priorities, NEW in \in RuleInputs, put_rule(h, t, p, in) PROVE Base' /\ Moves(h)
    BY <1>1, <1>2, <1>4, <1>9, RulePlanned DEF put_rule
  <1> QED
    BY <1>3, <1>5, <1>6, <1>7, <1>8, <1>9

----------------------------------------------------------------------------
(* The plans of the mirror sessions.                                       *)

\* Without a failed scan, a request sees the rows as they are.
LEMMA SeesAll ==
  ASSUME Base, NEW T, Blindness(T)
  PROVE  /\ blindReads' \in Nat /\ (blindReads' = 0 => blindReads = 0)
         /\ blindReads' = 0 => \A k \in Keys : Blinded(T)[k] = db[k]
  <1>1. blindReads \in Nat
    BY DEF Base, Domains
  <1>2. CASE T = {}
    BY <1>1, <1>2 DEF Blindness, Blinded
  <1>3. CASE T # {}
    BY <1>1, <1>3 DEF Blindness
  <1> QED
    BY <1>2, <1>3

LEMMA MirrorPlanned ==
  ASSUME page = "acl", NEW s \in Sessions, NEW ops, NEW C, ops \in Seq(C), ops # <<>>,
         \A c \in C : c.key = MirrorSession(s),
         blindReads' = 0 => ops[Len(ops)].upd["src_port"] \notin {Keep, Absent} \/ ~referenced(db, s)
  PROVE  Plans("mirror", ops)
  <1>1. IsSeq(ops) /\ \A i \in 1..Len(ops) : ops[i] \in C
    BY ElementOfSeq DEF IsSeq
  <1>2. MirrorSession(s)[1] = "MIRROR_SESSION"
    BY AclRowsApart
  <1>3. Within(ops, {"MIRROR_SESSION"})
    BY <1>1, <1>2 DEF Within
  <1>4. blindReads' = 0 => SessionPlan(db, ops, s)
    BY <1>1 DEF SessionPlan, Returns
  <1>5. Tables("mirror") = {"MIRROR_SESSION"} /\ page \in Homes("mirror")
    BY DEF Tables, Homes
  <1> QED
    BY <1>3, <1>4, <1>5 DEF Plans, Mutexes

LEMMA MirrorMoves ==
  ASSUME Base, NEW h \in Handlers, page' = page, page = "acl", NEW T, Blindness(T),
         MirrorRequest(h, Blinded(T))
  PROVE  Base' /\ Moves(h)
  <1> DEFINE d == Blinded(T)
  <1>0. /\ blindReads' \in Nat /\ (blindReads' = 0 => blindReads = 0)
        /\ blindReads' = 0 => \A k \in Keys : d[k] = db[k]
    BY SeesAll
  <1>1. ASSUME NEW f, NEW status, Decline(h, f, status) PROVE Base' /\ Moves(h)
    BY <1>0, <1>1, RefuseStep DEF Decline
  <1>2. ASSUME NEW ops, NEW r, Accept(h, "mirror", ops, FALSE, r), Plans("mirror", ops)
        PROVE  Base' /\ Moves(h)
    BY <1>0, <1>2, AdmitStep DEF Accept
  <1> HIDE DEF d
  <1>3. PICK s \in Sessions :
          \/ delete_session(h, d, s)
          \/ \E in \in SessionInputs, spanOk \in BOOLEAN : put_session(h, s, in, spanOk)
    BY DEF MirrorRequest, d
  <1>4. CASE delete_session(h, d, s)
    <2>1. ASSUME ~referenced(d, s) PROVE Plans("mirror", <<Del(MirrorSession(s))>>)
      <3> DEFINE c == Del(MirrorSession(s))  C == {c}
      <3>1. c.key = MirrorSession(s)
        BY DelOf
      <3> HIDE DEF c
      <3>2. <<c>> \in Seq(C) /\ <<c>> # <<>> /\ \A e \in C : e.key = MirrorSession(s)
        BY <3>1
      <3>3. blindReads' = 0 => ~referenced(db, s)
        BY <1>0, <2>1 DEF referenced
      <3> HIDE DEF C
      <3>4. Plans("mirror", <<c>>)
        BY <3>2, <3>3, MirrorPlanned
      <3> QED
        BY <3>4 DEF c
    <2> QED
      BY <1>1, <1>2, <1>4, <2>1 DEF delete_session
  <1>5. ASSUME NEW in \in SessionInputs, NEW spanOk \in BOOLEAN, put_session(h, s, in, spanOk)
        PROVE  Base' /\ Moves(h)
    <2> DEFINE a == Del(MirrorSession(s))
               b == HSet(MirrorSession(s), session_fields(in, spanOk))
               C == {a, b}
    <2>1. "src_port" \in Fields /\ in.source \notin {Absent, Keep}
      <3>1. in.source \in Members
        BY MirrorConstants
      <3>2. "src_port" \in MirrorFields /\ MirrorFields \subseteq Fields
        BY MirrorConstants DEF MirrorFields
      <3>3. Members \subseteq MirrorValues /\ MirrorValues \subseteq Values
        BY MirrorConstants DEF MirrorValues
      <3> QED
        BY <3>1, <3>2, <3>3, StoreConstants
    <2>2. "src_port" \in DOMAIN session_fields(in, spanOk) /\ session_fields(in, spanOk)["src_port"] = in.source
      BY <2>1 DEF session_fields, Given, Restrict
    <2>3. a.key = MirrorSession(s) /\ b.key = MirrorSession(s) /\ b.upd["src_port"] = in.source
      BY <2>1, <2>2, SetField, DelOf
    <2>4. session_writes(s, in, spanOk) = <<a, b>>
      BY DEF session_writes
    <2> HIDE DEF a, b
    <2>5. <<a, b>> \in Seq(C) /\ <<a, b>> # <<>> /\ <<a, b>>[Len(<<a, b>>)] = b
      OBVIOUS
    <2>6. \A e \in C : e.key = MirrorSession(s)
      BY <2>3
    <2> HIDE DEF C
    <2>7. Plans("mirror", <<a, b>>)
      BY <2>1, <2>3, <2>5, <2>6, MirrorPlanned
    <2> QED
      BY <1>1, <1>2, <1>5, <2>4, <2>7 DEF put_session
  <1> QED
    BY <1>3, <1>4, <1>5

----------------------------------------------------------------------------
(* The plans of the AAA page.                                              *)

LEMMA AaaPlanned ==
  ASSUME page = "aaa", NEW ops, Within(ops, AaaTabs)
  PROVE  Plans("aaa", ops)
  <1>1. Tables("aaa") = AaaTabs /\ page \in Homes("aaa")
    BY DEF Tables, Homes
  <1> QED
    BY <1>1 DEF Plans, Mutexes

LEMMA OptionalKey ==
  ASSUME NEW k, NEW f, NEW v
  PROVE  Optional(k, f, v).key = k
  BY DEF Optional, HDel, HSetField, HSet

LEMMA AaaMoves ==
  ASSUME Base, NEW h \in Handlers, page' = page, page = "aaa", AaaRequest(h), blindReads' = blindReads
  PROVE  Base' /\ Moves(h)
  <1>0. blindReads' \in Nat
    BY DEF Base, Domains
  <1>1. ASSUME NEW f, NEW status, Decline(h, f, status) PROVE Base' /\ Moves(h)
    BY <1>0, <1>1, RefuseStep DEF Decline
  <1>2. ASSUME NEW ops, NEW r, Accept(h, "aaa", ops, FALSE, r), Within(ops, AaaTabs)
        PROVE  Base' /\ Moves(h)
    <2>1. Plans("aaa", ops)
      BY <1>2, AaaPlanned
    <2> QED
      BY <1>0, <1>2, <2>1, AdmitStep DEF Accept
  <1>3. ASSUME NEW order, NEW failthrough, put_authentication(h, order, failthrough)
        PROVE  Base' /\ Moves(h)
    <2> DEFINE c == HSet(AaaAuth, [login |-> order, failthrough |-> failthrough])
    <2>1. c.key[1] \in AaaTabs
      BY DEF HSet, AaaAuth, AaaTabs
    <2> HIDE DEF c
    <2>2. Within(<<c>>, AaaTabs)
      BY <2>1, WithinOne
    <2> QED
      BY <1>1, <1>2, <1>3, <2>2 DEF put_authentication, c
  <1>4. ASSUME NEW auth, NEW timeout, NEW key, put_aaa_global(h, auth, timeout, key)
        PROVE  Base' /\ Moves(h)
    <2> DEFINE a == HSet(AaaGlobal, [auth_type |-> auth])
               b == Optional(AaaGlobal, "timeout", timeout)
               c == apply_key(AaaGlobal, key)
    <2>1. a.key[1] \in AaaTabs /\ b.key[1] \in AaaTabs /\ AaaGlobal[1] \in AaaTabs
      BY OptionalKey DEF HSet, AaaGlobal, AaaTabs
    <2>2. Within(c, AaaTabs)
      BY <2>1, ApplyKeyWithin
    <2> HIDE DEF a, b, c
    <2>5. Within(<<a, b>>, AaaTabs)
      BY <2>1, WithinTwo
    <2>6. Within(<<a, b>> \o c, AaaTabs)
      BY <2>2, <2>5, WithinJoin
    <2> QED
      BY <1>2, <1>4, <2>6 DEF put_aaa_global, a, b, c
  <1>5. ASSUME NEW x, NEW priority, NEW key, write_server_fields(h, x, priority, key)
        PROVE  Base' /\ Moves(h)
    <2> DEFINE c == Optional(AaaServer(x), "priority", priority)
    <2>1. c.key[1] \in AaaTabs
      BY OptionalKey DEF AaaServer, AaaTabs
    <2>2. PICK r : Take(h, {"aaa"}, <<c>>, FALSE, <<"register">>, r)
      BY <1>5 DEF write_server_fields
    <2> HIDE DEF c
    <2>3. Plans("aaa", <<c>>)
      BY <2>1, WithinOne, AaaPlanned
    <2> QED
      BY <1>0, <2>2, <2>3, AdmitStep
  <1>6. ASSUME NEW x, delete_server(h, x) PROVE Base' /\ Moves(h)
    <2>1. Del(AaaServer(x)).key[1] \in AaaTabs
      BY DEF Del, AaaServer, AaaTabs
    <2>2. Within(<<Del(AaaServer(x))>>, AaaTabs)
      BY <2>1, WithinOne
    <2> QED
      BY <1>1, <1>2, <1>6, <2>2 DEF delete_server
  <1>7. ASSUME NEW x, NEW priority, NEW key,
               create_server(h, x, priority, key) \/ update_server(h, x, priority, key)
        PROVE  Base' /\ Moves(h)
    BY <1>1, <1>5, <1>7 DEF create_server, update_server
  <1> QED
    BY <1>3, <1>4, <1>6, <1>7 DEF AaaRequest

----------------------------------------------------------------------------
(* The plans of the users page.                                            *)

\* The commands of a plan are about the account of u.
OfUser(p, u) == IsSeq(p) /\ \A i \in 1..Len(p) : p[i].key \in {Passwd(u), Group(u)}

LEMMA AccountsApart ==
  ASSUME NEW u, NEW w
  PROVE  /\ Passwd(u)[1] = "passwd" /\ Group(u)[1] = "group" /\ Passwd(u)[2] = u /\ Group(u)[2] = u
         /\ Passwd(u) # Group(w)
         /\ Passwd(u) = Passwd(w) => u = w
         /\ Group(u) = Group(w) => u = w
  BY DEF Passwd, Group

LEMMA OfOne ==
  ASSUME NEW u, NEW c, c.key \in {Passwd(u), Group(u)}
  PROVE  OfUser(<<c>>, u)
  BY SeqUnit DEF OfUser

LEMMA OfNone ==
  ASSUME NEW u
  PROVE  OfUser(<<>>, u)
  BY SeqEmpty DEF OfUser

LEMMA OfJoin ==
  ASSUME NEW u, NEW p, NEW q, OfUser(p, u), OfUser(q, u)
  PROVE  OfUser(p \o q, u)
  <1>1. IsSeq(p) /\ IsSeq(q)
    BY DEF OfUser
  <1>2. /\ IsSeq(p \o q) /\ Len(p) \in Nat /\ Len(q) \in Nat /\ Len(p \o q) = Len(p) + Len(q)
        /\ \A i \in 1..Len(p \o q) : (p \o q)[i] = IF i <= Len(p) THEN p[i] ELSE q[i - Len(p)]
    BY <1>1, SeqJoin
  <1>3. ASSUME NEW i \in 1..Len(p \o q) PROVE (p \o q)[i].key \in {Passwd(u), Group(u)}
    <2>1. CASE i <= Len(p)
      BY <1>2, <2>1 DEF OfUser
    <2>2. CASE ~(i <= Len(p))
      <3>1. i - Len(p) \in 1..Len(q)
        BY <1>2, <2>2
      <3> QED
        BY <1>2, <2>2, <3>1 DEF OfUser
    <2> QED
      BY <2>1, <2>2
  <1> QED
    BY <1>2, <1>3 DEF OfUser

LEMMA HarmlessJoin ==
  ASSUME NEW w, NEW p, NEW q, IsSeq(p), IsSeq(q), Harmless(w, p), Harmless(w, q)
  PROVE  Harmless(w, p \o q)
  <1>2. /\ IsSeq(p \o q) /\ Len(p) \in Nat /\ Len(q) \in Nat /\ Len(p \o q) = Len(p) + Len(q)
        /\ \A i \in 1..Len(p \o q) : (p \o q)[i] = IF i <= Len(p) THEN p[i] ELSE q[i - Len(p)]
    BY SeqJoin
  <1> DEFINE Mild(c) ==
        /\ c.key = Passwd(w) => c.upd["login"] \in {Keep, "bash"}
        /\ c.key = Group(w) => c.upd["sudo"] \in {Keep, "in"} /\ c.upd["admin"] \in {Keep, "in"}
  <1>3. (\A i \in 1..Len(p) : Mild(p[i])) /\ (\A i \in 1..Len(q) : Mild(q[i]))
    BY DEF Harmless
  <1>4. ASSUME NEW i \in 1..Len(p \o q) PROVE Mild((p \o q)[i])
    <2> HIDE DEF Mild
    <2>1. CASE i <= Len(p)
      BY <1>2, <1>3, <2>1
    <2>2. CASE ~(i <= Len(p))
      <3>1. i - Len(p) \in 1..Len(q)
        BY <1>2, <2>2
      <3> QED
        BY <1>2, <1>3, <2>2, <3>1
    <2> QED
      BY <2>1, <2>2
  <1> QED
    BY <1>4 DEF Harmless

\* What is done to one account does no harm to another.
LEMMA OthersUnharmed ==
  ASSUME NEW u, NEW w, u # w, NEW p, OfUser(p, u)
  PROVE  Harmless(w, p)
  <1>1. \A i \in 1..Len(p) : p[i].key # Passwd(w) /\ p[i].key # Group(w)
    BY AccountsApart DEF OfUser
  <1> QED
    BY <1>1 DEF Harmless

LEMMA OfUserWithin ==
  ASSUME NEW u, NEW p, OfUser(p, u)
  PROVE  Within(p, UserTabs)
  BY AccountsApart DEF OfUser, Within, UserTabs

LEMMA RolePlan ==
  ASSUME NEW u, NEW role, NEW groups, groups \subseteq AdminGroups
  PROVE  /\ OfUser(apply_role(u, role, groups), u)
         /\ role # "operator" => \A w : Harmless(w, apply_role(u, role, groups))
  <1>1. IsFiniteSet(groups)
    <2>1. IsFiniteSet({"sudo", "docker", "admin"})
      <3>1. IsFiniteSet({"sudo"})
        BY FS_Singleton
      <3>2. IsFiniteSet({"sudo"} \cup {"docker"})
        BY <3>1, FS_AddElement
      <3>3. IsFiniteSet(({"sudo"} \cup {"docker"}) \cup {"admin"})
        BY <3>2, FS_AddElement
      <3>4. ({"sudo"} \cup {"docker"}) \cup {"admin"} = {"sudo", "docker", "admin"}
        OBVIOUS
      <3> QED
        BY <3>3, <3>4
    <2>2. groups \subseteq {"sudo", "docker", "admin"}
      BY SystemConstants
    <2> QED
      BY <2>1, <2>2, FS_Subset
  <1>2. CASE role = "operator"
    <2> DEFINE n == Cardinality(groups)  o == SetToSeq(groups)
               p == [j \in DOMAIN o |-> HDel(Group(u), {o[j]})]
    <2>1. n \in Nat /\ o \in [1..n -> groups]
      BY <1>1, SeqOfSet
    <2>2. apply_role(u, role, groups) = p
      BY <1>2 DEF apply_role
    <2> HIDE DEF n, o
    <2>3. p = [j \in 1..n |-> HDel(Group(u), {o[j]})]
      BY <2>1
    <2>4. \A j \in 1..n : p[j].key = Group(u)
      BY <2>3 DEF HDel
    <2> DEFINE S == {HDel(Group(u), {g}) : g \in groups}
    <2>5. p \in Seq(S) /\ Len(p) = n
      <3>1. \A j \in 1..n : HDel(Group(u), {o[j]}) \in S
        BY <2>1
      <3> HIDE DEF S, p
      <3>2. p \in [1..n -> S]
        BY <2>3, <3>1
      <3> QED
        BY <2>1, <3>2
    <2> HIDE DEF p, S
    <2> QED
      BY <1>2, <2>2, <2>4, <2>5 DEF OfUser, IsSeq
  <1>3. CASE role # "operator"
    <2> DEFINE c == HSet(Group(u), [g \in groups |-> "in"])
    <2>1. c.key = Group(u) /\ "sudo" \in Fields /\ "admin" \in Fields
      BY SystemConstants DEF HSet, SystemFields
    <2>2. c.upd["sudo"] \in {Keep, "in"} /\ c.upd["admin"] \in {Keep, "in"}
      <3>1. /\ c.upd["sudo"] = IF "sudo" \in DOMAIN [g \in groups |-> "in"] THEN [g \in groups |-> "in"]["sudo"] ELSE Keep
            /\ c.upd["admin"] = IF "admin" \in DOMAIN [g \in groups |-> "in"] THEN [g \in groups |-> "in"]["admin"] ELSE Keep
        BY <2>1 DEF HSet
      <3> QED
        BY <3>1
    <2>3. apply_role(u, role, groups) \in {<<>>, <<c>>}
      BY <1>3 DEF apply_role
    <2> HIDE DEF c
    <2>4. OfUser(<<>>, u) /\ OfUser(<<c>>, u)
      BY <2>1, OfNone, OfOne
    <2>5. \A w : Harmless(w, <<>>)
      BY SeqEmpty DEF Harmless
    <2>6. \A w : Harmless(w, <<c>>)
      <3>1. Len(<<c>>) = 1 /\ <<c>>[1] = c
        BY SeqUnit
      <3>2. \A w : c.key # Passwd(w)
        BY <2>1, AccountsApart
      <3> QED
        BY <2>1, <2>2, <3>1, <3>2 DEF Harmless
    <2> QED
      BY <2>3, <2>4, <2>5, <2>6
  <1> QED
    BY <1>2, <1>3

LEMMA PasswordPlan ==
  ASSUME NEW u, NEW given
  PROVE  OfUser(SetPassword(u, given), u) /\ \A w : Harmless(w, SetPassword(u, given))
  <1> DEFINE c == HSet(Passwd(u), [password |-> "set"])
  <1>1. "login" \in Fields
    BY SystemConstants DEF SystemFields
  <1>2. c.key = Passwd(u) /\ c.upd["login"] = Keep
    BY <1>1 DEF HSet
  <1>3. SetPassword(u, given) \in {<<>>, <<c>>}
    BY DEF SetPassword
  <1> HIDE DEF c
  <1>4. OfUser(<<>>, u) /\ OfUser(<<c>>, u)
    BY <1>2, OfNone, OfOne
  <1>5. \A w : Harmless(w, <<>>)
    BY SeqEmpty DEF Harmless
  <1>6. \A w : Harmless(w, <<c>>)
    <2>1. Len(<<c>>) = 1 /\ <<c>>[1] = c
      BY SeqUnit
    <2>2. \A w : c.key # Group(w)
      BY <1>2, AccountsApart
    <2> QED
      BY <1>2, <2>1, <2>2 DEF Harmless
  <1> QED
    BY <1>3, <1>4, <1>5, <1>6

LEMMA AccountsKnown ==
  ASSUME NEW u \in Users
  PROVE  /\ Passwd(u) \in Keys /\ Group(u) \in Keys
         /\ "login" \in Fields /\ "sudo" \in Fields /\ "admin" \in Fields
         /\ "bash" # Absent /\ "bash" # Keep /\ "in" # Keep /\ "in" # Absent
  <1>1. Passwd(u) \in {Passwd(x) : x \in Users} /\ Group(u) \in {Group(x) : x \in Users}
    OBVIOUS
  <1>2. SystemKeys \subseteq Keys /\ SystemFields \subseteq Fields /\ SystemValues \subseteq Values
    BY SystemConstants
  <1>3. Passwd(u) \in Keys /\ Group(u) \in Keys
    BY <1>1, <1>2 DEF SystemKeys
  <1>4. "login" \in Fields /\ "sudo" \in Fields /\ "admin" \in Fields
    BY <1>2 DEF SystemFields
  <1>5. "bash" \in Values /\ "in" \in Values
    BY <1>2 DEF SystemValues
  <1> QED
    BY <1>3, <1>4, <1>5, StoreConstants

\* Admins are read off the account files alone.
LEMMA AdminsLocal ==
  ASSUME NEW d, NEW e, \A u \in Users : e[Passwd(u)] = d[Passwd(u)] /\ e[Group(u)] = d[Group(u)]
  PROVE  Admins(e) = Admins(d)
  BY DEF Admins, UsersIn

\* One who is not the last admin leaves another.
LEMMA AnotherAdmin ==
  ASSUME NEW d, NEW u, ~LastAdmin(d, u), Admins(d) # {}
  PROVE  \E w \in Admins(d) : w # u
  <1>1. SUFFICES ASSUME \A w \in Admins(d) : w = u PROVE FALSE
    OBVIOUS
  <1>2. Admins(d) = {u}
    BY <1>1
  <1>3. Cardinality({u}) = 1
    BY FS_Singleton
  <1> QED
    BY <1>2, <1>3 DEF LastAdmin

LEMMA UserPlanned ==
  ASSUME page = "users", NEW u, NEW ops, OfUser(ops, u),
         blindReads' = 0 /\ Admins(db) # {} => \E w \in Admins(db) : Harmless(w, ops)
  PROVE  Plans("system", ops)
  <1>1. Within(ops, UserTabs)
    BY OfUserWithin
  <1>2. Tables("system") = UserTabs /\ page \in Homes("system")
    BY DEF Tables, Homes, SystemPages
  <1> QED
    BY <1>1, <1>2 DEF Plans, Mutexes

LEMMA UserMoves ==
  ASSUME Base, NEW h \in Handlers, page' = page, page = "users", NEW T, Blindness(T), UserRequest(h, T)
  PROVE  Base' /\ Moves(h)
  <1> DEFINE d == Blinded(T)
             groups == IF "admin_groups" \in T THEN {} ELSE AdminGroups
  <1>0. /\ blindReads' \in Nat /\ (blindReads' = 0 => blindReads = 0)
        /\ blindReads' = 0 => \A k \in Keys : d[k] = db[k]
    BY SeesAll
  <1>1. ASSUME NEW f, NEW status, Decline(h, f, status) PROVE Base' /\ Moves(h)
    BY <1>0, <1>1, RefuseStep DEF Decline
  <1>2. ASSUME NEW ops, NEW r, Accept(h, "system", ops, FALSE, r), Plans("system", ops)
        PROVE  Base' /\ Moves(h)
    BY <1>0, <1>2, AdmitStep DEF Accept
  <1>3. groups \subseteq AdminGroups
    OBVIOUS
  <1>4. blindReads' = 0 => Admins(d) = Admins(db)
    BY <1>0, AdminsLocal, AccountsKnown
  <1> HIDE DEF d, groups
  <1>5. PICK u \in Users :
           \/ delete_user(h, d, u)
           \/ \E role \in {"admin", "operator"} :
                 \/ create_user(h, u, role, groups)
                 \/ \E given \in BOOLEAN : update_user(h, d, u, role, given, groups)
    BY DEF UserRequest, d, groups
  <1>6. ASSUME ~LastAdmin(d, u), NEW ops, OfUser(ops, u) PROVE Plans("system", ops)
    <2>1. ASSUME blindReads' = 0, Admins(db) # {} PROVE \E w \in Admins(db) : Harmless(w, ops)
      <3>1. PICK w \in Admins(db) : w # u
        BY <1>4, <1>6, <2>1, AnotherAdmin
      <3> QED
        BY <1>6, <3>1, OthersUnharmed
    <2> QED
      BY <1>6, <2>1, UserPlanned
  <1>7. CASE delete_user(h, d, u)
    <2> DEFINE a == Del(Passwd(u))  b == Del(Group(u))
    <2>1. a.key = Passwd(u) /\ b.key = Group(u)
      BY DelOf
    <2> HIDE DEF a, b
    <2>2. OfUser(<<a, b>>, u)
      <3>1. <<a, b>> \in Seq({a, b}) /\ Len(<<a, b>>) = 2 /\ <<a, b>>[1] = a /\ <<a, b>>[2] = b
        OBVIOUS
      <3>2. \A i \in 1..2 : i = 1 \/ i = 2
        OBVIOUS
      <3> QED
        BY <2>1, <3>1, <3>2 DEF OfUser, IsSeq
    <2>3. ~LastAdmin(d, u) => Plans("system", <<a, b>>)
      BY <1>6, <2>2
    <2> QED
      BY <1>1, <1>2, <1>7, <2>3 DEF delete_user, a, b
  <1>8. ASSUME NEW role \in {"admin", "operator"}, create_user(h, u, role, groups)
        PROVE  Base' /\ Moves(h)
    <2> DEFINE c == HSet(Passwd(u), [login |-> "bash"])
               p == apply_role(u, role, groups)  q == SetPassword(u, TRUE)
    <2>1. c.key = Passwd(u)
      BY DEF HSet
    <2>2. OfUser(p, u) /\ OfUser(q, u)
      BY <1>3, RolePlan, PasswordPlan
    <2> HIDE DEF c, p, q
    <2>3. OfUser(<<c>>, u)
      BY <2>1, OfOne
    <2>4. OfUser(<<c>> \o p, u)
      BY <2>2, <2>3, OfJoin
    <2>5. OfUser(<<c>> \o p \o q, u)
      BY <2>2, <2>4, OfJoin
    <2>6. ASSUME ~Exists(db, Passwd(u)) PROVE Plans("system", <<c>> \o p \o q)
      <3>1. u \notin Admins(db)
        BY <2>6, AccountsKnown DEF Admins, UsersIn, Exists, NoRow
      <3>2. \A w \in Admins(db) : Harmless(w, <<c>> \o p \o q)
        BY <2>5, <3>1, OthersUnharmed
      <3> QED
        BY <2>5, <3>2, UserPlanned
    <2> QED
      BY <1>1, <1>2, <1>8, <2>6 DEF create_user, c, p, q
  <1>9. ASSUME NEW role \in {"admin", "operator"}, NEW given \in BOOLEAN,
               update_user(h, d, u, role, given, groups)
        PROVE  Base' /\ Moves(h)
    <2> DEFINE p == apply_role(u, role, groups)  q == SetPassword(u, given)
    <2>1. /\ OfUser(p, u) /\ OfUser(q, u) /\ (role # "operator" => \A w : Harmless(w, p))
          /\ \A w : Harmless(w, q)
      BY <1>3, RolePlan, PasswordPlan
    <2> HIDE DEF p, q
    <2>2. OfUser(p \o q, u)
      BY <2>1, OfJoin
    <2>3. ASSUME role = "operator" => ~LastAdmin(d, u) PROVE Plans("system", p \o q)
      <3>1. CASE role = "operator"
        BY <1>6, <2>2, <2>3, <3>1
      <3>2. CASE role # "operator"
        <4>1. \A w : Harmless(w, p \o q)
          BY <2>1, <3>2, HarmlessJoin DEF OfUser
        <4> QED
          BY <2>2, <4>1, UserPlanned
      <3> QED
        BY <3>1, <3>2
    <2> QED
      BY <1>1, <1>2, <1>9, <2>3 DEF update_user, p, q
  <1> QED
    BY <1>5, <1>7, <1>8, <1>9

----------------------------------------------------------------------------
(* The plans of the system page.                                           *)

LEMMA DelsWithin ==
  ASSUME NEW T, NEW ks, ks \subseteq Keys, IsFiniteSet(ks), \A k \in ks : k[1] \in T
  PROVE  Within(Dels(ks), T)
  <1>1. Dels(ks) \in Seq(Command) /\ \A i \in 1..Len(Dels(ks)) : \E k \in ks : Dels(ks)[i] = Del(k)
    BY DelsShape
  <1> QED
    BY <1>1, DelOf DEF Within, IsSeq

LEMMA MarksWithin ==
  ASSUME NEW T, NEW ks, ks \subseteq Keys, IsFiniteSet(ks), \A k \in ks : k[1] \in T
  PROVE  Within(Marks(ks), T)
  <1>0. "NULL" \in Values
    BY SystemConstants DEF SystemValues
  <1>1. Marks(ks) \in Seq(Command) /\ \A i \in 1..Len(Marks(ks)) : \E k \in ks : Marks(ks)[i] = HSet(k, Marker)
    BY <1>0, MarksShape
  <1>2. \A k : HSet(k, Marker).key = k
    BY DEF HSet
  <1> QED
    BY <1>1, <1>2 DEF Within, IsSeq

LEMMA SystemRowsKnown ==
  /\ \A s \in Hosts : <<"NTP_SERVER", s>> \in Keys /\ <<"SYSLOG_SERVER", s>> \in Keys
  /\ \A c \in Communities : <<"SNMP_COMMUNITY", c>> \in Keys
  /\ \A a \in Range(Cidrs) : <<"MGMT_INTERFACE", "eth0", a>> \in Keys
  <1>1. SystemKeys \subseteq Keys
    BY SystemConstants
  <1>2. /\ {Ntp(s) : s \in Hosts} \subseteq Keys /\ {Syslog(s) : s \in Hosts} \subseteq Keys
        /\ {Community(c) : c \in Communities} \subseteq Keys
        /\ {MgmtIp(a) : a \in Range(Cidrs)} \subseteq Keys
    BY <1>1 DEF SystemKeys
  <1>3. /\ \A s \in Hosts : Ntp(s) \in Keys /\ Syslog(s) \in Keys
        /\ \A c \in Communities : Community(c) \in Keys
        /\ \A a \in Range(Cidrs) : MgmtIp(a) \in Keys
    BY <1>2
  <1> QED
    BY <1>3 DEF Ntp, Syslog, Community, MgmtIp

\* The rows of a table that are not wanted any more.
LEMMA GoneWithin ==
  ASSUME NEW T, NEW table \in T, NEW N, IsFiniteSet(N), \A n \in N : <<table, n>> \in Keys,
         NEW current, current \subseteq N, NEW desired
  PROVE  Within(Gone(table, current, desired), T)
  <1> DEFINE S == current \ desired  g == [n \in S |-> <<table, n>>]
             ks == {<<table, n>> : n \in current \ desired}
  <1>1. IsFiniteSet(S)
    BY FS_Subset
  <1>2. ks = {g[n] : n \in S} /\ g \in [S -> {g[n] : n \in S}]
    OBVIOUS
  <1>3. ks \subseteq Keys /\ \A k \in ks : k[1] \in T
    OBVIOUS
  <1>4. Gone(table, current, desired) = Dels(ks)
    BY DEF Gone
  <1> HIDE DEF g, ks, S
  <1>5. IsFiniteSet(ks)
    BY <1>1, <1>2, FiniteImage
  <1> QED
    BY <1>3, <1>4, <1>5, DelsWithin

\* One command for each member of a finite set.
LEMMA EachWithin ==
  ASSUME NEW T, NEW S, IsFiniteSet(S), NEW o, o = SetToSeq(S), NEW p, NEW g,
         p = [j \in DOMAIN o |-> g[o[j]]], DOMAIN g = S, \A x \in S : g[x].key[1] \in T
  PROVE  Within(p, T)
  <1> DEFINE n == Cardinality(S)  C == {g[x] : x \in S}
  <1>1. n \in Nat /\ o \in [1..n -> S]
    BY SeqOfSet
  <1> HIDE DEF n
  <1>2. \A j \in 1..n : g[o[j]] \in C
    BY <1>1
  <1>3. \A c \in C : c.key[1] \in T
    OBVIOUS
  <1> HIDE DEF C
  <1>4. p = [j \in 1..n |-> g[o[j]]]
    BY <1>1
  <1>5. p \in [1..n -> C]
    BY <1>2, <1>4
  <1>6. p \in Seq(C) /\ Len(p) = n
    BY <1>1, <1>5
  <1> QED
    BY <1>3, <1>5, <1>6 DEF Within, IsSeq

LEMMA GeneralWithin ==
  ASSUME NEW in \in GeneralInputs, NEW d
  PROVE  Within(GeneralWrites(d, in), SystemTabs)
  <1> DEFINE ntp == Rows(d, "NTP_SERVER", Hosts)
             H == DOMAIN in.syslog
             o == SetToSeq(H)
             a == HSet(Meta, [hostname |-> in.hostname])
             b == Gone("NTP_SERVER", ntp, in.ntp)
             c == Marks({Ntp(s) : s \in in.ntp \ ntp})
             e == Gone("SYSLOG_SERVER", Rows(d, "SYSLOG_SERVER", Hosts), H)
             f == FlattenSeq([j \in DOMAIN o |-> SyslogWrite(o[j], in.syslog[o[j]])])
  <1>0. IsFiniteSet(Hosts) /\ in.ntp \subseteq Hosts /\ H \subseteq Hosts
    BY SystemConstants
  <1>1. Within(<<a>>, SystemTabs)
    <2>1. a.key[1] \in SystemTabs
      BY DEF HSet, Meta, SystemTabs
    <2> HIDE DEF a
    <2> QED
      BY <2>1, WithinOne
  <1>2. Within(b, SystemTabs) /\ Within(e, SystemTabs)
    <2>1. "NTP_SERVER" \in SystemTabs /\ "SYSLOG_SERVER" \in SystemTabs
      BY DEF SystemTabs
    <2>2. Rows(d, "NTP_SERVER", Hosts) \subseteq Hosts /\ Rows(d, "SYSLOG_SERVER", Hosts) \subseteq Hosts
      BY DEF Rows
    <2>3. (\A n \in Hosts : <<"NTP_SERVER", n>> \in Keys) /\ (\A n \in Hosts : <<"SYSLOG_SERVER", n>> \in Keys)
      BY SystemRowsKnown
    <2>4. Within(b, SystemTabs)
      BY <1>0, <2>1, <2>2, <2>3, GoneWithin
    <2>5. Within(e, SystemTabs)
      BY <1>0, <2>1, <2>2, <2>3, GoneWithin
    <2> QED
      BY <2>4, <2>5
  <1>3. Within(c, SystemTabs)
    <2> DEFINE S == in.ntp \ ntp  g == [s \in S |-> Ntp(s)]  ks == {Ntp(s) : s \in in.ntp \ ntp}
    <2>1. IsFiniteSet(S)
      BY <1>0, FS_Subset
    <2>2. ks = {g[s] : s \in S} /\ g \in [S -> {g[s] : s \in S}]
      OBVIOUS
    <2>3. ks \subseteq Keys /\ \A k \in ks : k[1] \in SystemTabs
      <3>1. \A s \in S : Ntp(s) \in Keys
        BY <1>0, SystemRowsKnown DEF Ntp
      <3>2. \A s : Ntp(s)[1] \in SystemTabs
        BY DEF Ntp, SystemTabs
      <3> QED
        BY <3>1, <3>2
    <2> HIDE DEF g, ks, S
    <2>4. IsFiniteSet(ks)
      BY <2>1, <2>2, FiniteImage
    <2>5. Within(Marks(ks), SystemTabs)
      BY <2>3, <2>4, MarksWithin
    <2> QED
      BY <2>5 DEF ks
  <1>4. Within(f, SystemTabs)
    <2> DEFINE n == Cardinality(H)
               A == {HSet(Syslog(s), [port |-> in.syslog[s]]) : s \in H}
               B == {HSet(Syslog(s), Marker) : s \in H}
               D == {HDel(Syslog(s), {"port"}) : s \in H}
               S == A \cup B \cup D
               q == [j \in DOMAIN o |-> SyslogWrite(o[j], in.syslog[o[j]])]
    <2>1. IsFiniteSet(H)
      BY <1>0, FS_Subset
    <2>2. n \in Nat /\ o \in [1..n -> H]
      BY <2>1, SeqOfSet
    <2> HIDE DEF n, H, o
    <2>3. \A s \in H : SyslogWrite(s, in.syslog[s]) \in Seq(S)
      <3> TAKE s \in H
      <3>1. /\ HSet(Syslog(s), [port |-> in.syslog[s]]) \in S
            /\ HSet(Syslog(s), Marker) \in S /\ HDel(Syslog(s), {"port"}) \in S
        OBVIOUS
      <3> HIDE DEF S
      <3>2. /\ <<HSet(Syslog(s), [port |-> in.syslog[s]])>> \in Seq(S)
            /\ <<HSet(Syslog(s), Marker), HDel(Syslog(s), {"port"})>> \in Seq(S)
        BY <3>1
      <3> QED
        BY <3>2 DEF SyslogWrite
    <2>4. \A x \in S : x.key[1] \in SystemTabs
      <3>0. \A s, v : HSet(Syslog(s), v).key[1] \in SystemTabs
        BY DEF HSet, Syslog, SystemTabs
      <3>1. \A x \in A : x.key[1] \in SystemTabs
        BY <3>0
      <3>2. \A x \in B : x.key[1] \in SystemTabs
        BY DEF HSet, Syslog, SystemTabs
      <3>3. \A x \in D : x.key[1] \in SystemTabs
        BY DEF HDel, Syslog, SystemTabs
      <3> QED
        BY <3>1, <3>2, <3>3
    <2> HIDE DEF S
    <2>5. q = [j \in 1..n |-> SyslogWrite(o[j], in.syslog[o[j]])]
      BY <2>2
    <2>6. \A j \in 1..n : SyslogWrite(o[j], in.syslog[o[j]]) \in Seq(S)
      BY <2>2, <2>3
    <2> HIDE DEF q
    <2>7. q \in [1..n -> Seq(S)]
      BY <2>5, <2>6
    <2>8. q \in Seq(Seq(S))
      BY <2>2, <2>7
    <2>9. FlattenSeq(q) \in Seq(S)
      BY <2>8, FlattenShape
    <2>10. Within(FlattenSeq(q), SystemTabs)
      BY <2>4, <2>9, ElementOfSeq DEF Within, IsSeq
    <2> QED
      BY <2>10 DEF q
  <1>5. GeneralWrites(d, in) = <<a>> \o b \o c \o e \o f
    BY DEF GeneralWrites
  <1> HIDE DEF a, b, c, e, f
  <1>6. Within(<<a>> \o b, SystemTabs)
    BY <1>1, <1>2, WithinJoin
  <1>7. Within(<<a>> \o b \o c, SystemTabs)
    BY <1>3, <1>6, WithinJoin
  <1>8. Within(<<a>> \o b \o c \o e, SystemTabs)
    BY <1>2, <1>7, WithinJoin
  <1>9. Within(<<a>> \o b \o c \o e \o f, SystemTabs)
    BY <1>4, <1>8, WithinJoin
  <1> QED
    BY <1>5, <1>9

LEMMA SnmpWithin ==
  ASSUME NEW in \in SnmpInputs, NEW d
  PROVE  Within(SnmpWrites(d, in), SystemTabs)
  <1> DEFINE H == DOMAIN in.communities
             o == SetToSeq(H)
             a == HSet(SnmpFeature, [state |-> IF in.enabled THEN "enabled" ELSE "disabled"])
             b == TextRow(SnmpRow("LOCATION"), "Location", in.location)
             c == TextRow(SnmpRow("CONTACT"), "Contact", in.contact)
             e == Gone("SNMP_COMMUNITY", Rows(d, "SNMP_COMMUNITY", Communities), H)
             g == [x \in H |-> HSet(Community(x), [TYPE |-> IF in.communities[x] = "ro" THEN "RO" ELSE "RW"])]
             f == [j \in DOMAIN o |->
                     HSet(Community(o[j]), [TYPE |-> IF in.communities[o[j]] = "ro" THEN "RO" ELSE "RW"])]
  <1>0. IsFiniteSet(Communities) /\ H \subseteq Communities
    BY SystemConstants
  <1>1. a.key[1] \in SystemTabs /\ b.key[1] \in SystemTabs /\ c.key[1] \in SystemTabs
    BY DEF TextRow, Del, HSetField, HSet, SnmpFeature, SnmpRow, SystemTabs
  <1>2. Within(e, SystemTabs)
    <2>1. "SNMP_COMMUNITY" \in SystemTabs /\ Rows(d, "SNMP_COMMUNITY", Communities) \subseteq Communities
      BY DEF SystemTabs, Rows
    <2>2. \A n \in Communities : <<"SNMP_COMMUNITY", n>> \in Keys
      BY SystemRowsKnown
    <2> QED
      BY <1>0, <2>1, <2>2, GoneWithin
  <1>3. Within(f, SystemTabs)
    <2>1. IsFiniteSet(H)
      BY <1>0, FS_Subset
    <2>2. DOMAIN g = H /\ \A x \in H : g[x].key[1] \in SystemTabs
      BY DEF HSet, Community, SystemTabs
    <2>3. o \in [1..Cardinality(H) -> H]
      BY <2>1, SeqOfSet
    <2>4. f = [j \in DOMAIN o |-> g[o[j]]]
      BY <2>3
    <2> HIDE DEF g, f
    <2> QED
      BY <2>1, <2>2, <2>4, EachWithin
  <1>4. SnmpWrites(d, in) = <<a, b, c>> \o e \o f
    BY DEF SnmpWrites
  <1> HIDE DEF a, b, c, e, f
  <1>5. Within(<<a, b, c>>, SystemTabs)
    BY <1>1, WithinThree
  <1>6. Within(<<a, b, c>> \o e, SystemTabs)
    BY <1>2, <1>5, WithinJoin
  <1>7. Within(<<a, b, c>> \o e \o f, SystemTabs)
    BY <1>3, <1>6, WithinJoin
  <1> QED
    BY <1>4, <1>7

\* The rows of the management interface that go.
LEMMA MgmtWithin ==
  ASSUME NEW A, A \subseteq Range(Cidrs)
  PROVE  Within(Dels({MgmtIp(a) : a \in A}), SystemTabs)
  <1> DEFINE g == [a \in A |-> MgmtIp(a)]  ks == {MgmtIp(a) : a \in A}
  <1>1. IsFiniteSet(A)
    <2>1. IsFiniteSet(Range(Cidrs))
      BY SystemConstants
    <2> QED
      BY <2>1, FS_Subset
  <1>2. ks = {g[a] : a \in A} /\ g \in [A -> {g[a] : a \in A}]
    OBVIOUS
  <1>3. ks \subseteq Keys /\ \A k \in ks : k[1] \in SystemTabs
    BY SystemRowsKnown DEF MgmtIp, SystemTabs
  <1> HIDE DEF g, ks
  <1>4. IsFiniteSet(ks)
    BY <1>1, <1>2, FiniteImage
  <1>5. Within(Dels(ks), SystemTabs)
    BY <1>3, <1>4, DelsWithin
  <1> QED
    BY <1>5 DEF ks

LEMMA SystemMoves ==
  ASSUME Base, NEW h \in Handlers, page' = page, page = "system",
         SystemRequest(h) \/ (MaintenanceRequest(h) /\ UNCHANGED blindReads)
  PROVE  Base' /\ Moves(h)
  <1> DEFINE Reads == blindReads' \in Nat /\ (blindReads' = 0 => blindReads = 0)
  <1>a. ASSUME NEW T, Blindness(T) PROVE Reads
    BY <1>a, SeesAll
  <1>b. ASSUME UNCHANGED blindReads PROVE Reads
    BY <1>b DEF Base, Domains
  <1>1. ASSUME Reads, NEW f, NEW status, Decline(h, f, status) PROVE Base' /\ Moves(h)
    BY <1>1, RefuseStep DEF Decline
  <1>2. ASSUME NEW ops, Within(ops, SystemTabs) PROVE Plans("system", ops)
    <2>1. Tables("system") = SystemTabs /\ page \in Homes("system")
      BY DEF Tables, Homes, SystemPages
    <2> QED
      BY <1>2, <2>1 DEF Plans, Mutexes
  <1>3. ASSUME Reads, NEW ops, NEW batched \in BOOLEAN, NEW r,
               Accept(h, "system", ops, batched, r), Within(ops, SystemTabs)
        PROVE  Base' /\ Moves(h)
    BY <1>2, <1>3, AdmitStep DEF Accept
  <1>4. ASSUME NEW in \in GeneralInputs, NEW T, Blindness(T), put_general(h, Blinded(T), in)
        PROVE  Base' /\ Moves(h)
    <2>1. Reads
      BY <1>4, <1>a
    <2> HIDE DEF Reads
    <2> QED
      BY <1>3, <1>4, <2>1, GeneralWithin DEF put_general
  <1>5. ASSUME NEW in \in SnmpInputs, NEW T, Blindness(T), put_snmp(h, Blinded(T), in)
        PROVE  Base' /\ Moves(h)
    <2>1. Reads
      BY <1>5, <1>a
    <2> HIDE DEF Reads
    <2> QED
      BY <1>3, <1>5, <2>1, SnmpWithin DEF put_snmp
  <1>6. ASSUME Reads, NEW in \in ManagementInputs, put_management(h, in) PROVE Base' /\ Moves(h)
    <2> DEFINE A == mgmt_rows(db)
               p == Dels({MgmtIp(a) : a \in A})
               c == Del(Mgmt)
               q == StaticWrites(db, in)
    <2>1. A \subseteq Range(Cidrs)
      BY DEF mgmt_rows
    <2>2. Within(p, SystemTabs)
      BY <2>1, MgmtWithin
    <2>3. c.key[1] \in SystemTabs
      BY DEF Del, Mgmt, SystemTabs
    <2>4. Within(q, SystemTabs)
      <3> DEFINE B == mgmt_rows(db) \ {in.ip}
                 r == Dels({MgmtIp(a) : a \in B})
                 x == HSet(MgmtIp(in.ip), [gwaddr |-> in.gateway])
                 y == HSet(MgmtIp(in.ip), Marker)
                 z == HDel(MgmtIp(in.ip), {"gwaddr"})
      <3>1. Within(r, SystemTabs)
        BY <2>1, MgmtWithin
      <3>2. x.key[1] \in SystemTabs /\ y.key[1] \in SystemTabs /\ z.key[1] \in SystemTabs
        BY DEF HSet, HDel, MgmtIp, SystemTabs
      <3>3. q = r \o IF in.gateway # Absent THEN <<x>> ELSE <<y, z>>
        BY DEF StaticWrites
      <3> HIDE DEF r, x, y, z, q
      <3>4. Within(<<x>>, SystemTabs) /\ Within(<<y, z>>, SystemTabs)
        BY <3>2, WithinOne, WithinTwo
      <3>5. Within(IF in.gateway # Absent THEN <<x>> ELSE <<y, z>>, SystemTabs)
        BY <3>4
      <3> QED
        BY <3>1, <3>3, <3>5, WithinJoin
    <2> HIDE DEF p, c, q
    <2>5. Within(Append(p, c), SystemTabs)
      BY <2>2, <2>3, WithinPush
    <2> QED
      BY <1>1, <1>3, <1>6, <2>4, <2>5 DEF put_management, p, c, q
  <1>7. Plans("system", <<>>)
    BY <1>2, WithinNone
  <1>8. ASSUME Reads, save_config(h) PROVE Base' /\ Moves(h)
    <2>1. PICK r : Take(h, {"system"}, <<>>, FALSE, <<"config save">>, r)
      BY <1>8 DEF save_config
    <2> QED
      BY <1>7, <1>8, <2>1, AdmitStep
  <1>9. ASSUME Reads, NEW b \in Backups, restore(h, b) PROVE Base' /\ Moves(h)
    <2>1. Take(h, {"system"}, <<>>, FALSE, <<"write file", "config reload">>, [op |-> "restore", backup |-> b])
      BY <1>9 DEF restore
    <2>2. [op |-> "restore", backup |-> b].op = "restore" /\ [op |-> "restore", backup |-> b].backup \in Backups
      OBVIOUS
    <2> QED
      BY <1>7, <1>9, <2>1, <2>2, AdmitStep
  <1> HIDE DEF Reads
  <1>10. CASE SystemRequest(h)
    BY <1>4, <1>5, <1>6, <1>10, <1>b DEF SystemRequest
  <1>11. CASE MaintenanceRequest(h) /\ UNCHANGED blindReads
    BY <1>8, <1>9, <1>11, <1>b DEF MaintenanceRequest
  <1> QED
    BY <1>10, <1>11

----------------------------------------------------------------------------
(* Every step is of one of the kinds.                                      *)

LEMMA StepKinds ==
  ASSUME Base, SecurityNext
  PROVE  Base' /\ ((\E h \in Handlers : Moves(h)) \/ Crashes)
  <1>0. page' = page
    BY DEF SecurityNext
  <1>1. CASE (page \in SystemPages /\ SystemCrash) \/ (page \notin SystemPages /\ Crash)
    BY <1>0, <1>1, CrashStep
  <1>2. ASSUME NEW h \in Handlers,
               \/ Receive(h) \/ Malformed(h) \/ Register(h) \/ ReadFault(h)
               \/ page \in SystemPages /\ SystemStep(h)
               \/ page \notin SystemPages /\ Finish(h)
               \/ pc[h] = "queued" /\ SecurityPage(h)
        PROVE  Base' /\ Moves(h)
    <2>0. Domains /\ BaseOK(h) /\ faults \in Nat /\ blindReads \in Nat
      BY DEF Base, Domains
    <2>1. CASE Receive(h)
      <3>1. /\ pc[h] = "idle" /\ pc' = [pc EXCEPT ![h] = "queued"]
            /\ db' = db /\ saved' = saved /\ lock' = lock /\ todo' = todo /\ snaps' = snaps
            /\ faults' = faults /\ stops' = stops /\ req' = req /\ rest' = rest /\ blindReads' = blindReads
        BY <2>1 DEF Receive, Arrive
      <3>2. /\ todo[h] = <<>> /\ snaps[h] = <<>> /\ pc[h] \notin Busy /\ "queued" \notin Busy /\ Grows
        BY <2>0, <3>1 DEF BaseOK, Tidy, Busy, Grows
      <3> QED
        BY <1>0, <2>0, <3>1, <3>2, QuietStep
    <2>2. CASE Malformed(h)
      <3>1. Answer(h, {}, 400) /\ blindReads' = blindReads
        BY <2>2 DEF Malformed
      <3> QED
        BY <1>0, <2>0, <3>1, RefuseStep
    <2>3. CASE Register(h)
      BY <1>0, <2>3, RegisterStep
    <2>4. CASE ReadFault(h)
      <3>1. /\ pc[h] = "plain" /\ todo[h] = <<>> /\ pc' = [pc EXCEPT ![h] = "done"]
            /\ db' = db /\ saved' = saved /\ lock' = Released(h) /\ todo' = todo /\ snaps' = snaps
            /\ faults' = faults + 1 /\ stops' = stops /\ blindReads' = blindReads
            /\ req' = [req EXCEPT ![h] = NoRequest] /\ rest' = [rest EXCEPT ![h] = <<>>]
        BY <2>4 DEF ReadFault
      <3>2. snaps[h] = <<>> /\ "done" \notin Busy /\ faults' \in Nat /\ Grows
        BY <2>0, <3>1 DEF BaseOK, Tidy, Busy, Grows
      <3> QED
        BY <1>0, <2>0, <3>1, <3>2, QuietStep
    <2>5. CASE page \in SystemPages /\ SystemStep(h)
      BY <1>0, <2>5, SystemStepMoves
    <2>6. CASE page \notin SystemPages /\ Finish(h)
      BY <1>0, <2>6, ProceedStep DEF Finish
    <2>7. CASE SecurityPage(h)
      <3>1. CASE page = "acl" /\ AclRequest(h) /\ UNCHANGED blindReads
        BY <1>0, <3>1, AclMoves
      <3>2. ASSUME page = "acl", NEW T, Blindness(T), MirrorRequest(h, Blinded(T))
            PROVE  Base' /\ Moves(h)
        BY <1>0, <3>2, MirrorMoves
      <3>3. CASE page = "aaa" /\ AaaRequest(h) /\ UNCHANGED blindReads
        BY <1>0, <3>3, AaaMoves
      <3>4. ASSUME page = "users", NEW T, Blindness(T), UserRequest(h, T) PROVE Base' /\ Moves(h)
        BY <1>0, <3>4, UserMoves
      <3>5. CASE page = "system" /\ (SystemRequest(h) \/ (MaintenanceRequest(h) /\ UNCHANGED blindReads))
        BY <1>0, <3>5, SystemMoves
      <3> QED
        BY <2>7, <3>1, <3>2, <3>3, <3>4, <3>5 DEF SecurityPage
    <2> QED
      BY <1>2, <2>1, <2>2, <2>3, <2>4, <2>5, <2>6, <2>7
  <1> QED
    BY <1>1, <1>2 DEF SecurityNext

LEMMA BaseStutters ==
  ASSUME Base, UNCHANGED <<vars, page>>
  PROVE  Base'
  <1>1. /\ db' = db /\ saved' = saved /\ lock' = lock /\ pc' = pc /\ todo' = todo /\ snaps' = snaps
        /\ faults' = faults /\ stops' = stops /\ req' = req /\ rest' = rest
        /\ blindReads' = blindReads /\ page' = page
    BY DEF vars, storeVars
  <1>2. Domains' /\ \A h \in Handlers : BaseOK(h)
    BY <1>1 DEF Base, Domains
  <1>3. ASSUME NEW h \in Handlers PROVE BaseOK(h)'
    <2>1. \A f : Works(h, f) => Works(h, f)'
      BY <1>1 DEF Works, Holds, Tables, Within
    <2>2. Working(h)'
      BY <1>1, <1>2, <2>1 DEF BaseOK, Working
    <2>3. Resting(h)' /\ Tidy(h)' /\ Undoing(h)' /\ Readings(h)'
      BY <1>1, <1>2 DEF BaseOK, Resting, Tidy, Undoing, Readings, Restoring
    <2> QED
      BY <2>2, <2>3 DEF BaseOK
  <1> QED
    BY <1>2, <1>3 DEF Base

LEMMA BaseStarts ==
  ASSUME Init, page \in Pages
  PROVE  /\ Base /\ db \in Configs0 /\ saved = db /\ blindReads = 0
         /\ \A h \in Handlers : todo[h] = <<>> /\ \A f \in Features : lock[f] # h
  <1>1. PICK d \in Configs0 : StoreInit(d)
    BY DEF Init
  <1>2. /\ db = d /\ saved = d /\ lock = [f \in Features |-> NoOne]
        /\ pc = [h \in Handlers |-> "idle"] /\ todo = [h \in Handlers |-> <<>>]
        /\ snaps = [h \in Handlers |-> <<>>] /\ faults = 0 /\ stops = 0
        /\ req = [h \in Handlers |-> NoRequest] /\ rest = [h \in Handlers |-> <<>>] /\ blindReads = 0
    BY <1>1 DEF StoreInit, Init
  <1>3. DOMAIN d = Keys
    BY SwitchingConstants
  <1>4. ASSUME NEW h \in Handlers PROVE BaseOK(h) /\ todo[h] = <<>> /\ \A f \in Features : lock[f] # h
    <2>1. pc[h] = "idle" /\ todo[h] = <<>> /\ snaps[h] = <<>> /\ rest[h] = <<>>
          /\ \A f \in Features : lock[f] # h
      BY <1>2, StoreConstants
    <2> QED
      BY <2>1 DEF BaseOK, Working, Resting, Tidy, Undoing, Readings, Busy
  <1>5. Domains
    BY <1>2, <1>3 DEF Domains
  <1> QED
    BY <1>2, <1>4, <1>5 DEF Base

----------------------------------------------------------------------------
(* An admin remains.                                                       *)

LEMMA HarmlessNone ==
  ASSUME NEW w
  PROVE  Harmless(w, <<>>)
  BY SeqEmpty DEF Harmless

LEMMA HarmlessTail ==
  ASSUME NEW w, NEW p, IsSeq(p), p # <<>>, Harmless(w, p)
  PROVE  Harmless(w, Tail(p))
  <1>1. \A i \in 1..Len(Tail(p)) : i + 1 \in 1..Len(p) /\ Tail(p)[i] = p[i + 1]
    BY SeqNext
  <1> QED
    BY <1>1 DEF Harmless

\* A command of another table does no harm.
LEMMA TablesUnharmed ==
  ASSUME NEW w, NEW p, NEW T, T \cap UserTabs = {}, Within(p, T)
  PROVE  Harmless(w, p)
  <1>1. \A i \in 1..Len(p) : p[i].key[1] \notin UserTabs
    BY DEF Within
  <1>2. Passwd(w)[1] \in UserTabs /\ Group(w)[1] \in UserTabs
    BY AccountsApart DEF UserTabs
  <1> QED
    BY <1>1, <1>2 DEF Harmless

LEMMA ElsewhereTables ==
  ASSUME page # "users", NEW f \in Mutexes
  PROVE  Tables(f) \cap UserTabs = {}
  <1>1. Tables("acl") = AclTabs /\ Tables("mirror") = {"MIRROR_SESSION"} /\ Tables("aaa") = AaaTabs
        /\ Tables("system") = SystemTabs
    BY DEF Tables
  <1>2. f \in {"acl", "mirror", "aaa", "system"}
    BY DEF Mutexes
  <1> QED
    BY <1>1, <1>2 DEF AclTabs, AaaTabs, SystemTabs, UserTabs

LEMMA StaysAdmin ==
  ASSUME NEW d, DOMAIN d = Keys, NEW w \in Admins(d), NEW c,
         c.key = Passwd(w) => c.upd["login"] \in {Keep, "bash"},
         c.key = Group(w) => c.upd["sudo"] \in {Keep, "in"} /\ c.upd["admin"] \in {Keep, "in"}
  PROVE  w \in Admins(Issue(d, c))
  <1>0. w \in Users /\ d[Passwd(w)]["login"] = "bash" /\ (d[Group(w)]["sudo"] = "in" \/ d[Group(w)]["admin"] = "in")
    BY DEF Admins, UsersIn
  <1>1. /\ Passwd(w) \in Keys /\ Group(w) \in Keys
        /\ "login" \in Fields /\ "sudo" \in Fields /\ "admin" \in Fields
    BY <1>0, AccountsKnown
  <1>2. \A k \in Keys : Issue(d, c)[k] = IF k = c.key THEN Patched(d[k], c.upd) ELSE d[k]
    BY IssueRow
  <1>3. Issue(d, c)[Passwd(w)]["login"] = "bash"
    BY <1>0, <1>1, <1>2 DEF Patched
  <1>4. /\ d[Group(w)]["sudo"] = "in" => Issue(d, c)[Group(w)]["sudo"] = "in"
        /\ d[Group(w)]["admin"] = "in" => Issue(d, c)[Group(w)]["admin"] = "in"
    <2>1. CASE c.key = Group(w)
      <3>1. Issue(d, c)[Group(w)] = Patched(d[Group(w)], c.upd)
        BY <1>1, <1>2, <2>1
      <3> QED
        BY <1>1, <2>1, <3>1 DEF Patched
    <2>2. CASE c.key # Group(w)
      BY <1>1, <1>2, <2>2
    <2> QED
      BY <2>1, <2>2
  <1> QED
    BY <1>0, <1>3, <1>4 DEF Admins, UsersIn

LEMMA ElsewhereAdmins ==
  ASSUME NEW d, DOMAIN d = Keys, NEW c, c.key[1] \notin UserTabs
  PROVE  Admins(Issue(d, c)) = Admins(d)
  <1>1. \A u : Passwd(u)[1] \in UserTabs /\ Group(u)[1] \in UserTabs
    BY AccountsApart DEF UserTabs
  <1>2. \A k \in Keys : Issue(d, c)[k] = IF k = c.key THEN Patched(d[k], c.upd) ELSE d[k]
    BY IssueRow
  <1>3. \A u \in Users : Passwd(u) \in Keys /\ Group(u) \in Keys
    BY AccountsKnown
  <1>4. \A u \in Users : Issue(d, c)[Passwd(u)] = d[Passwd(u)] /\ Issue(d, c)[Group(u)] = d[Group(u)]
    BY <1>1, <1>2, <1>3
  <1> QED
    BY <1>4, AdminsLocal

LEMMA ReloadedAdmins == Admins(Reloaded) = Admins(db)
  <1>1. \A u \in Users : Passwd(u) \in Keys /\ Group(u) \in Keys
    BY AccountsKnown
  <1>2. \A u : Account(Passwd(u)) /\ Account(Group(u))
    BY AccountsApart DEF Account
  <1>3. \A u \in Users : Reloaded[Passwd(u)] = db[Passwd(u)] /\ Reloaded[Group(u)] = db[Group(u)]
    BY <1>1, <1>2 DEF Reloaded
  <1> QED
    BY <1>3, AdminsLocal

\* The snapshot a rollback is at.
LEMMA LastWithin ==
  ASSUME NEW h, NEW T, Within(snaps[h], T), snaps[h] # <<>>
  PROVE  LastSnap(h).key[1] \in T /\ Len(snaps[h]) \in 1..Len(snaps[h])
  BY WithinPop DEF LastSnap, Within

LEMMA AdminKeeps ==
  ASSUME Base, Base', AdminInv, (\E h \in Handlers : Moves(h)) \/ Crashes
  PROVE  AdminInv'
  <1>0. Domains /\ DOMAIN db = Keys /\ page' = page
    BY DEF Base, Domains, Moves, Alone, Crashes
  <1>1. SUFFICES ASSUME blindReads' = 0
                 PROVE  /\ \E w \in Admins(db') : \A h \in Handlers : Harmless(w, todo'[h])
                        /\ page' \notin SystemPages => Admins(saved') # {}
    BY DEF AdminInv
  <1>2. blindReads = 0
    BY <1>1 DEF Moves, Alone, Crashes, Grows
  <1>3. PICK w \in Admins(db) : \A h \in Handlers : Harmless(w, todo[h])
    BY <1>2 DEF AdminInv
  <1>4. page \notin SystemPages => Admins(saved) # {}
    BY <1>2 DEF AdminInv
  <1>5. CASE page # "users"
    <2>1. ASSUME NEW g \in Handlers, NEW x PROVE Harmless(x, todo'[g])
      <3>1. BaseOK(g)'
        BY DEF Base
      <3>2. CASE pc'[g] \in Busy
        <4>1. PICK f \in Mutexes : Works(g, f)'
          BY <3>1, <3>2 DEF BaseOK, Working
        <4>2. Within(todo'[g], Tables(f)') /\ Tables(f)' = Tables(f)
          BY <1>0, <4>1 DEF Works, Tables
        <4> QED
          BY <1>5, <4>2, ElsewhereTables, TablesUnharmed
      <3>3. CASE pc'[g] \notin Busy
        BY <3>1, <3>3, HarmlessNone DEF BaseOK, Tidy, Busy
      <3> QED
        BY <3>2, <3>3
    <2>2. Admins(db') # {} /\ (page \notin SystemPages => Admins(saved') # {})
      <3>1. ASSUME NEW h \in Handlers, Moves(h)
            PROVE  Admins(db') = Admins(db) /\ (page \notin SystemPages => saved' \in {saved, db})
        <4>1. CASE Issues(h)
          <5>1. PICK f \in Mutexes : Works(h, f)
            BY <4>1, AtWork DEF Issues, Busy
          <5>2. Head(todo[h]).key[1] \in Tables(f)
            BY <4>1, <5>1, WithinTail DEF Works, Issues
          <5>3. Head(todo[h]).key[1] \notin UserTabs
            BY <1>5, <5>2, ElsewhereTables
          <5>4. db' = Issue(db, Head(todo[h])) /\ saved' = saved
            BY <4>1 DEF Issues
          <5> QED
            BY <1>0, <5>3, <5>4, ElsewhereAdmins
        <4>2. CASE Undoes(h)
          <5> DEFINE k == LastSnap(h).key
                     c == HSet(LastSnap(h).key, [f \in Present(LastSnap(h).prior) |-> LastSnap(h).prior[f]])
          <5>1. PICK f \in Mutexes : Works(h, f)
            BY <4>2, AtWork DEF Undoes, Busy
          <5>2. k[1] \in Tables(f)
            BY <4>2, <5>1, LastWithin DEF Works, Undoes
          <5>3. k[1] \notin UserTabs
            BY <1>5, <5>2, ElsewhereTables
          <5>4. Del(k).key = k /\ c.key = k
            BY DEF Del, HSet
          <5>5. db' \in {db, Issue(db, Del(k)), Issue(db, c)} /\ saved' = saved
            BY <4>2 DEF Undoes
          <5> HIDE DEF k, c
          <5>6. Admins(Issue(db, Del(k))) = Admins(db) /\ Admins(Issue(db, c)) = Admins(db)
            BY <1>0, <5>3, <5>4, ElsewhereAdmins
          <5> QED
            BY <5>5, <5>6
        <4>3. CASE Reloads(h)
          BY <4>3, ReloadedAdmins DEF Reloads, SystemPages
        <4>4. CASE Quiet(h) \/ ReadsOn(h) \/ \E f, ops : Admits(h, f, ops) /\ Plans(f, ops)
          BY <4>4 DEF Quiet, ReadsOn, Admits, SystemPages
        <4> QED
          BY <3>1, <4>1, <4>2, <4>3, <4>4 DEF Moves
      <3>2. CASE Crashes
        <4>1. db' = db \/ (page \in SystemPages /\ db' = Reloaded) \/ (page \notin SystemPages /\ db' = saved)
          BY <3>2 DEF Crashes
        <4>2. Admins(db') # {}
          BY <1>3, <1>4, <4>1, ReloadedAdmins
        <4> QED
          BY <1>4, <3>2, <4>2 DEF Crashes
      <3> QED
        BY <1>3, <1>4, <3>1, <3>2
    <2> QED
      BY <1>0, <2>1, <2>2
  <1>6. CASE page = "users"
    <2>1. page' \in SystemPages
      BY <1>0, <1>6 DEF SystemPages
    <2>2. ASSUME NEW g \in Handlers, NEW f \in Mutexes, Works(g, f) PROVE f = "system"
      BY <1>6, <2>2 DEF Works, Homes, Mutexes
    <2>3. ASSUME NEW h \in Handlers, Moves(h)
          PROVE  \E x \in Admins(db') : \A g \in Handlers : Harmless(x, todo'[g])
      <3>0. BaseOK(h) /\ \A g \in Handlers \ {h} : todo'[g] = todo[g]
        BY <2>3 DEF Base, Moves, Alone
      <3>1. IsSeq(todo[h])
        <4>1. CASE pc[h] \in Busy
          BY <4>1, AtWork DEF Works, Within
        <4>2. CASE pc[h] \notin Busy
          BY <3>0, <4>2, SeqEmpty DEF BaseOK, Tidy, Busy
        <4> QED
          BY <4>1, <4>2
      <3>2. todo[h] # <<>> => Harmless(w, Tail(todo[h]))
        BY <1>3, <3>1, HarmlessTail
      <3>3. CASE Issues(h)
        <4> DEFINE c == Head(todo[h])
        <4>1. todo[h] # <<>> /\ db' = Issue(db, c) /\ (todo'[h] = Tail(todo[h]) \/ todo'[h] = <<>>)
          BY <3>3 DEF Issues, Abandons
        <4>2. c = todo[h][1] /\ 1 \in 1..Len(todo[h])
          BY <3>1, <4>1, SeqNext
        <4>3. /\ c.key = Passwd(w) => c.upd["login"] \in {Keep, "bash"}
              /\ c.key = Group(w) => c.upd["sudo"] \in {Keep, "in"} /\ c.upd["admin"] \in {Keep, "in"}
          BY <1>3, <4>2 DEF Harmless
        <4> HIDE DEF c
        <4>4. w \in Admins(db')
          BY <1>0, <4>1, <4>3, StaysAdmin
        <4>5. Harmless(w, todo'[h])
          BY <3>2, <4>1, HarmlessNone
        <4> QED
          BY <1>3, <3>0, <4>4, <4>5
      <3>4. CASE Quiet(h)
        <4>1. db' = db /\ (todo'[h] = todo[h] \/ todo'[h] = <<>> \/ (todo[h] # <<>> /\ todo'[h] = Tail(todo[h])))
          BY <3>4 DEF Quiet, Abandons
        <4>2. Harmless(w, todo'[h])
          BY <1>3, <3>2, <4>1, HarmlessNone
        <4> QED
          BY <1>3, <3>0, <4>1, <4>2
      <3>5. ~Undoes(h) /\ ~Reloads(h) /\ ~ReadsOn(h)
        BY <1>6, <3>0 DEF Undoes, Reloads, ReadsOn, BaseOK, Undoing
      <3>6. ASSUME NEW f, NEW ops, Admits(h, f, ops), Plans(f, ops)
            PROVE  \E x \in Admins(db') : \A g \in Handlers : Harmless(x, todo'[g])
        <4>1. PICK x \in Admins(db) : Harmless(x, ops)
          BY <1>1, <1>3, <1>6, <3>6 DEF Plans
        <4>2. f = "system" /\ lock["system"] = NoOne /\ db' = db /\ todo'[h] = ops
          BY <1>6, <3>6 DEF Plans, Admits, Homes, Mutexes
        <4>3. ASSUME NEW g \in Handlers, g # h PROVE todo'[g] = <<>>
          <5>1. BaseOK(g) /\ g # NoOne
            BY StoreConstants DEF Base
          <5>2. pc[g] \notin Busy
            BY <2>2, <4>2, <5>1, AtWork DEF Works, Holds
          <5> QED
            BY <3>0, <4>3, <5>1, <5>2 DEF BaseOK, Tidy, Busy
        <4> QED
          BY <4>1, <4>2, <4>3, HarmlessNone
      <3> QED
        BY <2>3, <3>3, <3>4, <3>5, <3>6 DEF Moves
    <2>4. CASE Crashes
      <3>1. db' = db \/ db' = Reloaded
        BY <1>6, <2>4 DEF Crashes, SystemPages
      <3>2. w \in Admins(db')
        BY <1>3, <3>1, ReloadedAdmins
      <3> QED
        BY <2>1, <2>4, <3>2, HarmlessNone DEF Crashes
    <2> QED
      BY <2>1, <2>3, <2>4
  <1> QED
    BY <1>5, <1>6

\* The switch starts with an account that can administer it.
StartsAdministered == \A d \in Configs0 : Admins(d) # {}

(***************************************************************************)
(* update_user and delete_user: whatever requests run, are killed or fail  *)
(* half way, as long as the account files could be read there is an admin. *)
(***************************************************************************)
THEOREM AnAdminRemains ==
  ASSUME StartsAdministered
  PROVE  SecuritySpec => []AdminRemains
  <1>1. Init /\ page \in Pages => Base /\ AdminInv
    <2> SUFFICES ASSUME Init, page \in Pages PROVE Base /\ AdminInv
      OBVIOUS
    <2>1. Base /\ Admins(db) # {} /\ Admins(saved) # {} /\ \A h \in Handlers : todo[h] = <<>>
      BY BaseStarts DEF StartsAdministered
    <2> QED
      BY <2>1, HarmlessNone DEF AdminInv
  <1>2. (Base /\ AdminInv) /\ [SecurityNext]_<<vars, page>> => (Base /\ AdminInv)'
    <2> SUFFICES ASSUME Base, AdminInv, [SecurityNext]_<<vars, page>> PROVE (Base /\ AdminInv)'
      OBVIOUS
    <2>1. CASE SecurityNext
      BY <2>1, StepKinds, AdminKeeps
    <2>2. CASE UNCHANGED <<vars, page>>
      <3>1. AdminInv'
        BY <2>2 DEF AdminInv, Admins, UsersIn, Harmless, vars, storeVars
      <3> QED
        BY <2>2, <3>1, BaseStutters
    <2> QED
      BY <2>1, <2>2
  <1>3. Base /\ AdminInv => AdminRemains
    BY DEF AdminInv, AdminRemains
  <1> QED
    BY <1>1, <1>2, <1>3, PTL DEF SecuritySpec

----------------------------------------------------------------------------
(* Who holds a mutex is at work behind it, and whose rows change.          *)

LEMMA Holder ==
  ASSUME Base, NEW h \in Handlers, NEW f \in Mutexes, lock[f] = h
  PROVE  pc[h] \in Busy /\ Works(h, f)
  <1>1. BaseOK(h) /\ f \in Features
    BY PagesKnown DEF Base, Mutexes
  <1>2. pc[h] \in Busy
    BY <1>1 DEF BaseOK, Resting
  <1>3. PICK g \in Mutexes : Works(h, g)
    BY <1>1, <1>2 DEF BaseOK, Working
  <1>4. g = f
    BY <1>1, <1>3 DEF Works, Holds
  <1> QED
    BY <1>2, <1>3, <1>4

LEMMA TablesApart ==
  ASSUME NEW f \in Mutexes
  PROVE  /\ f # "acl" => \A x \in AclTabs : x \notin Tables(f)
         /\ f # "mirror" => "MIRROR_SESSION" \notin Tables(f)
         /\ Tables("acl") = AclTabs /\ Tables("mirror") = {"MIRROR_SESSION"}
         /\ Homes("acl") = {"acl"} /\ Homes("mirror") = {"acl"}
  <1>1. f \in {"acl", "mirror", "aaa", "system"}
    BY DEF Mutexes
  <1>2. /\ Tables("acl") = AclTabs /\ Tables("mirror") = {"MIRROR_SESSION"}
        /\ Tables("aaa") = AaaTabs /\ Tables("system") \in {UserTabs, SystemTabs}
    BY DEF Tables
  <1>3. Homes("acl") = {"acl"} /\ Homes("mirror") = {"acl"}
    BY DEF Homes
  <1> QED
    BY <1>1, <1>2, <1>3 DEF AclTabs, AaaTabs, SystemTabs, UserTabs

\* A row changes by the next command of who holds its mutex, or by its rollback.
LEMMA RowChanges ==
  ASSUME Base, NEW h \in Handlers, Moves(h), ~Reloads(h), NEW k \in Keys, db'[k] # db[k]
  PROVE  \E f \in Mutexes :
            /\ Works(h, f) /\ lock[f] = h /\ k[1] \in Tables(f)
            /\ \/ Issues(h) /\ k = Head(todo[h]).key
               \/ Undoes(h) /\ k = LastSnap(h).key
  <1>0. DOMAIN db = Keys
    BY DEF Base, Domains
  <1>1. CASE Issues(h)
    <2>1. PICK f \in Mutexes : Works(h, f)
      BY <1>1, AtWork DEF Issues, Busy
    <2>2. db' = Issue(db, Head(todo[h])) /\ Head(todo[h]).key[1] \in Tables(f)
      BY <1>1, <2>1, WithinTail DEF Works, Issues
    <2>3. k = Head(todo[h]).key
      BY <1>0, <2>2, IssueRow
    <2> QED
      BY <1>1, <2>1, <2>2, <2>3 DEF Works, Holds
  <1>2. CASE Undoes(h)
    <2> DEFINE l == LastSnap(h).key
               c == HSet(LastSnap(h).key, [f \in Present(LastSnap(h).prior) |-> LastSnap(h).prior[f]])
    <2>1. PICK f \in Mutexes : Works(h, f)
      BY <1>2, AtWork DEF Undoes, Busy
    <2>2. l[1] \in Tables(f)
      BY <1>2, <2>1, LastWithin DEF Works, Undoes
    <2>3. Del(l).key = l /\ c.key = l
      BY DEF Del, HSet
    <2>4. db' \in {db, Issue(db, Del(l)), Issue(db, c)}
      BY <1>2 DEF Undoes
    <2> HIDE DEF c
    <2>5. k = l
      BY <1>0, <2>3, <2>4, IssueRow
    <2> QED
      BY <1>2, <2>1, <2>2, <2>5 DEF Works, Holds
  <1>3. CASE Quiet(h) \/ ReadsOn(h) \/ \E f, ops : Admits(h, f, ops) /\ Plans(f, ops)
    BY <1>3 DEF Quiet, ReadsOn, Admits
  <1> QED
    BY <1>1, <1>2, <1>3 DEF Moves

----------------------------------------------------------------------------
(* Unmanaged tables.                                                       *)

LEMMA TameStays ==
  ASSUME NEW row, TameRow(row), NEW u, TameUpd(u)
  PROVE  TameRow(Patched(row, u))
  <1>1. "type" \in Fields /\ Keep \notin ManagedTypes
    BY AclFieldsKnown
  <1>2. CASE u = NoRow
    BY <1>2, DelRow DEF TameRow
  <1>3. CASE u["type"] \in ManagedTypes
    BY <1>1, <1>3 DEF TameRow, Patched
  <1>4. CASE u["type"] = Keep /\ \A f \in Fields : u[f] \in {Keep, Absent}
    <2>1. CASE row["type"] \in ManagedTypes
      BY <1>1, <1>4, <2>1 DEF TameRow, Patched
    <2>2. CASE row = NoRow
      BY <1>4, <2>2 DEF TameRow, Patched, NoRow
    <2> QED
      BY <2>1, <2>2 DEF TameRow
  <1> QED
    BY <1>2, <1>3, <1>4 DEF TameUpd

LEMMA TameRestored ==
  ASSUME NEW k, NEW prior, TameRow(prior)
  PROVE  TameUpd(HSet(k, [f \in Present(prior) |-> prior[f]]).upd)
  <1>1. "type" \in Fields /\ Absent \notin ManagedTypes
    BY AclFieldsKnown
  <1>2. CASE prior["type"] \in ManagedTypes
    BY <1>1, <1>2 DEF HSet, Present, TameUpd
  <1>3. CASE prior = NoRow
    BY <1>1, <1>3 DEF HSet, Present, TameUpd, NoRow
  <1> QED
    BY <1>2, <1>3 DEF TameRow

LEMMA AboutNone ==
  ASSUME NEW t
  PROVE  About(<<>>, t) /\ Recalls(<<>>, t)
  BY SeqEmpty DEF About, Recalls

LEMMA AboutTail ==
  ASSUME NEW p, IsSeq(p), p # <<>>, NEW t, About(p, t)
  PROVE  About(Tail(p), t) /\ Head(p).key[2] = t /\ (Head(p).key = AclTable(t) => TameUpd(Head(p).upd))
  <1>1. /\ Head(p) = p[1] /\ 1 \in 1..Len(p)
        /\ \A i \in 1..Len(Tail(p)) : i + 1 \in 1..Len(p) /\ Tail(p)[i] = p[i + 1]
    BY SeqNext
  <1> QED
    BY <1>1 DEF About

LEMMA RecallsMore ==
  ASSUME NEW h, NEW T, Within(snaps[h], T), NEW k, k[1] \in T, NEW t, k[2] = t,
         Recalls(snaps[h], t), TameRow(db[AclTable(t)])
  PROVE  Recalls(WithSnapshot(h, k), t)
  <1> DEFINE c == [key |-> k, prior |-> db[k]]
             s == snaps[h]
  <1>1. c.key = k /\ c.prior = db[k]
    OBVIOUS
  <1> HIDE DEF c
  <1>2. /\ Len(s) \in Nat /\ Len(Append(s, c)) = Len(s) + 1
        /\ \A i \in 1..(Len(s) + 1) : Append(s, c)[i] = IF i <= Len(s) THEN s[i] ELSE c
    BY <1>1, WithinPush
  <1>3. Recalls(Append(s, c), t)
    BY <1>1, <1>2 DEF Recalls
  <1> QED
    BY <1>3 DEF WithSnapshot, c

LEMMA RecallsFewer ==
  ASSUME NEW s, NEW T, Within(s, T), s # <<>>, NEW t, Recalls(s, t)
  PROVE  /\ Recalls(SubSeq(s, 1, Len(s) - 1), t)
         /\ s[Len(s)].key[2] = t /\ (s[Len(s)].key = AclTable(t) => TameRow(s[Len(s)].prior))
  BY WithinPop DEF Recalls

LEMMA TameKeeps ==
  ASSUME Base, Base', TameInv, (\E h \in Handlers : Moves(h)) \/ Crashes
  PROVE  TameInv'
  <1>0. DOMAIN db = Keys /\ "acl" \in Features /\ "acl" \in Mutexes
    BY PagesKnown DEF Base, Domains, Mutexes
  <1>1. SUFFICES ASSUME NEW h \in Handlers, lock'["acl"] = h
                 PROVE  \E t \in AclTables : /\ TameRow(db'[AclTable(t)])
                                             /\ About(todo'[h], t) /\ Recalls(snaps'[h], t)
    BY DEF TameInv
  <1>2. PICK m \in Handlers : Moves(m)
    BY <1>0, <1>1, StoreConstants DEF Crashes
  <1>3. CASE lock["acl"] # h
    <2>1. m = h
      BY <1>0, <1>1, <1>2, <1>3 DEF Moves, Alone
    <2>2. ~Issues(h) /\ ~Quiet(h) /\ ~Undoes(h) /\ ~Reloads(h) /\ ~ReadsOn(h)
      BY <1>0, <1>1, <1>3 DEF Issues, Quiet, Undoes, Reloads, ReadsOn, TakesNone
    <2>3. PICK f, ops : Admits(h, f, ops) /\ Plans(f, ops)
      BY <1>2, <2>1, <2>2 DEF Moves
    <2>4. f = "acl"
      BY <1>0, <1>1, <1>3, <2>3 DEF Admits
    <2>5. PICK t \in AclTables : AclPlan(t, ops)
      BY <2>3, <2>4 DEF Plans
    <2>6. db' = db /\ todo'[h] = ops /\ snaps'[h] = <<>>
      BY <2>3 DEF Admits
    <2> QED
      BY <2>5, <2>6, AboutNone DEF AclPlan
  <1>4. CASE lock["acl"] = h
    <2>1. Works(h, "acl") /\ pc[h] \in Busy
      BY <1>0, <1>4, Holder
    <2>2. page = "acl" /\ Within(todo[h], AclTabs) /\ Within(snaps[h], AclTabs)
      BY <1>0, <2>1, TablesApart DEF Works
    <2>3. PICK t \in AclTables : /\ TameRow(db[AclTable(t)])
                                 /\ About(todo[h], t) /\ Recalls(snaps[h], t)
      BY <1>4 DEF TameInv
    <2>4. AclTable(t) \in Keys /\ AclTable(t)[1] \in AclTabs
      BY AclTableKnown, AclRowsApart DEF AclTabs
    <2>5. ~Reloads(m)
      BY <2>2 DEF Reloads
    <2>6. CASE m # h
      <3>1. todo'[h] = todo[h] /\ snaps'[h] = snaps[h]
        BY <1>2, <2>6 DEF Moves, Alone
      <3>2. db'[AclTable(t)] = db[AclTable(t)]
        <4> SUFFICES ASSUME db'[AclTable(t)] # db[AclTable(t)] PROVE FALSE
          OBVIOUS
        <4>1. PICK f \in Mutexes : lock[f] = m /\ AclTable(t)[1] \in Tables(f)
          BY <1>2, <2>4, <2>5, RowChanges
        <4>2. f = "acl"
          BY <2>4, <4>1, TablesApart
        <4> QED
          BY <1>4, <2>6, <4>1, <4>2
      <3> QED
        BY <2>3, <3>1, <3>2
    <2>7. CASE m = h
      <3>1. IsSeq(todo[h])
        BY <2>2 DEF Within
      <3>2. todo[h] # <<>> =>
              /\ About(Tail(todo[h]), t) /\ Head(todo[h]).key[2] = t /\ Head(todo[h]).key[1] \in AclTabs
              /\ Head(todo[h]).key = AclTable(t) => TameUpd(Head(todo[h]).upd)
        BY <2>2, <2>3, <3>1, AboutTail, WithinTail
      <3>3. Snaps(h) => Recalls(snaps'[h], t)
        BY <2>2, <2>3, <3>2, RecallsMore DEF Snaps
      <3>4. CASE Issues(h)
        <4>1. todo[h] # <<>> /\ db' = Issue(db, Head(todo[h])) /\ Snaps(h)
              /\ (todo'[h] = Tail(todo[h]) \/ todo'[h] = <<>>)
          BY <3>4 DEF Issues, Abandons
        <4>2. TameRow(db'[AclTable(t)])
          BY <1>0, <2>3, <2>4, <3>2, <4>1, IssueRow, TameStays
        <4>3. About(todo'[h], t)
          BY <3>2, <4>1, AboutNone
        <4> QED
          BY <3>3, <4>1, <4>2, <4>3
      <3>5. CASE Quiet(h)
        <4>1. /\ db' = db /\ (Snaps(h) \/ snaps'[h] = <<>>)
              /\ todo'[h] = todo[h] \/ todo'[h] = <<>> \/ (todo[h] # <<>> /\ todo'[h] = Tail(todo[h]))
          BY <3>5 DEF Quiet, Abandons
        <4>2. About(todo'[h], t)
          BY <2>3, <3>2, <4>1, AboutNone
        <4>3. Recalls(snaps'[h], t)
          BY <3>3, <4>1, AboutNone
        <4> QED
          BY <2>3, <4>1, <4>2, <4>3
      <3>6. CASE Undoes(h)
        <4> DEFINE l == LastSnap(h)
                   c == HSet(l.key, [f \in Present(l.prior) |-> l.prior[f]])
        <4>1. /\ Recalls(SubSeq(snaps[h], 1, Len(snaps[h]) - 1), t)
              /\ l.key = AclTable(t) => TameRow(l.prior)
          BY <2>2, <2>3, <3>6, RecallsFewer DEF Undoes, LastSnap
        <4>2. /\ todo'[h] = <<>> /\ db' \in {db, Issue(db, Del(l.key)), Issue(db, c)}
              /\ snaps'[h] \in {snaps[h], SubSeq(snaps[h], 1, Len(snaps[h]) - 1)}
          BY <3>6 DEF Undoes
        <4>3. c.key = l.key /\ Del(l.key).key = l.key /\ Del(l.key).upd = NoRow
          BY DelRow DEF HSet
        <4>4. l.key = AclTable(t) => TameUpd(c.upd)
          BY <4>1, TameRestored
        <4> HIDE DEF c, l
        <4>5. l.key = AclTable(t) => TameUpd(Del(l.key).upd)
          BY <4>3 DEF TameUpd
        <4>6. TameRow(db'[AclTable(t)])
          BY <1>0, <2>3, <2>4, <4>2, <4>3, <4>4, <4>5, IssueRow, TameStays
        <4> QED
          BY <2>3, <4>1, <4>2, <4>6, AboutNone
      <3>7. ~ReadsOn(h) /\ \A f, ops : ~Admits(h, f, ops)
        BY <2>1, <2>2 DEF ReadsOn, Admits
      <3> QED
        BY <1>2, <2>5, <2>7, <3>4, <3>5, <3>6, <3>7 DEF Moves
    <2> QED
      BY <2>6, <2>7
  <1> QED
    BY <1>3, <1>4

LEMMA AclKeyTable ==
  ASSUME NEW k \in AclKeys
  PROVE  k \in Keys /\ k[1] \in AclTabs
  <1>1. k \in Keys
    BY AclConstants
  <1>2. \/ \E t : k = AclTable(t)
        \/ \E t, p : k = AclRule(t, p) \/ k = RuleDesc(t, p)
    BY DEF AclKeys
  <1> QED
    BY <1>1, <1>2, AclRowsApart DEF AclTabs

\* One step leaves the rows of an unmanaged table alone.
LEMMA LeavesUnmanaged ==
  ASSUME Base, TameInv, (\E h \in Handlers : Moves(h)) \/ Crashes,
         stops' = stops, \A h \in Handlers : req[h].op # "restore",
         NEW t \in AclTables, Exists(db, AclTable(t)), db[AclTable(t)]["type"] \notin ManagedTypes,
         NEW k \in AclKeys, k[2] = t
  PROVE  db'[k] = db[k]
  <1> SUFFICES ASSUME db'[k] # db[k] PROVE FALSE
    OBVIOUS
  <1>1. PICK h \in Handlers : Moves(h)
    BY DEF Crashes
  <1>2. ~Reloads(h)
    BY DEF Reloads
  <1>3. k \in Keys /\ k[1] \in AclTabs
    BY AclKeyTable
  <1>4. PICK f \in Mutexes :
            /\ Works(h, f) /\ lock[f] = h /\ k[1] \in Tables(f)
            /\ \/ Issues(h) /\ k = Head(todo[h]).key
               \/ Undoes(h) /\ k = LastSnap(h).key
    BY <1>1, <1>2, <1>3, RowChanges
  <1>5. f = "acl"
    BY <1>3, <1>4, TablesApart
  <1>6. PICK u \in AclTables : /\ TameRow(db[AclTable(u)])
                               /\ About(todo[h], u) /\ Recalls(snaps[h], u)
    BY <1>4, <1>5 DEF TameInv
  <1>7. CASE Issues(h) /\ k = Head(todo[h]).key
    BY <1>4, <1>6, <1>7, AboutTail DEF Works, Within, Issues, TameRow, Exists
  <1>8. CASE Undoes(h) /\ k = LastSnap(h).key
    BY <1>4, <1>6, <1>8, RecallsFewer DEF Works, Undoes, LastSnap, TameRow, Exists
  <1> QED
    BY <1>4, <1>7, <1>8

(***************************************************************************)
(* The image's own ACL tables are "protected from this API": no request,   *)
(* rolled back or not, changes a row of a table of another type, whatever  *)
(* the others do.  (acl.rs, managed_table.)                                *)
(***************************************************************************)
THEOREM ImageTablesSafe == SecuritySpec => UnmanagedUntouched
  <1> DEFINE Safe == stops' = stops /\ (\A h \in Handlers : req[h].op # "restore") =>
                        \A t \in AclTables :
                           Exists(db, AclTable(t)) /\ db[AclTable(t)]["type"] \notin ManagedTypes =>
                              \A k \in AclKeys : k[2] = t => db'[k] = db[k]
  <1>1. Init /\ page \in Pages => Base /\ TameInv
    <2> SUFFICES ASSUME Init, page \in Pages PROVE Base /\ TameInv
      OBVIOUS
    <2>1. Base /\ "acl" \in Features /\ \A h \in Handlers : \A f \in Features : lock[f] # h
      BY BaseStarts, PagesKnown
    <2> QED
      BY <2>1 DEF TameInv
  <1>2. (Base /\ TameInv) /\ [SecurityNext]_<<vars, page>> => (Base /\ TameInv)' /\ [Safe]_vars
    <2> SUFFICES ASSUME Base, TameInv, [SecurityNext]_<<vars, page>>
                 PROVE  (Base /\ TameInv)' /\ [Safe]_vars
      OBVIOUS
    <2>1. CASE SecurityNext
      <3>1. Base' /\ ((\E h \in Handlers : Moves(h)) \/ Crashes)
        BY <2>1, StepKinds
      <3>2. TameInv'
        BY <3>1, TameKeeps
      <3>3. Safe
        BY <3>1, LeavesUnmanaged
      <3> QED
        BY <3>1, <3>2, <3>3
    <2>2. CASE UNCHANGED <<vars, page>>
      <3>1. db' = db /\ lock' = lock /\ todo' = todo /\ snaps' = snaps
        BY <2>2 DEF vars, storeVars
      <3>2. TameInv'
        BY <3>1 DEF TameInv, About, Recalls, TameRow
      <3> QED
        BY <2>2, <3>2, BaseStutters
    <2> QED
      BY <2>1, <2>2
  <1> HIDE DEF Safe
  <1>3. [][Safe]_vars <=> UnmanagedUntouched
    BY DEF UnmanagedUntouched, Safe
  <1> QED
    BY <1>1, <1>2, <1>3, PTL DEF SecuritySpec

----------------------------------------------------------------------------
(* Rules and their tables.                                                 *)

AclAgree(d, e) ==
    \A u \in AclTables :
        e[AclTable(u)] = d[AclTable(u)] /\ \A n \in Priorities : e[AclRule(u, n)] = d[AclRule(u, n)]

LEMMA LawfulLocal ==
  ASSUME NEW d, NEW e, AclAgree(d, e), Lawful(d)
  PROVE  Lawful(e)
  BY DEF AclAgree, Lawful, Exists, managed

LEMMA RulePlanLocal ==
  ASSUME NEW d, NEW e, AclAgree(d, e), NEW t \in AclTables, NEW p, RulePlan(d, t, p)
  PROVE  RulePlan(e, t, p)
  <1>1. /\ e[AclTable(t)] = d[AclTable(t)]
        /\ \A n \in Priorities : e[AclRule(t, n)] = d[AclRule(t, n)]
    BY DEF AclAgree
  <1>2. WritesRules(d, t, p) => WritesRules(e, t, p)
    BY <1>1 DEF WritesRules, Exists
  <1>3. WritesTable(d, t, p) => WritesTable(e, t, p)
    BY <1>1 DEF WritesTable, managed, Exists
  <1>4. Deletes(d, t, p) => Deletes(e, t, p)
    BY <1>1 DEF Deletes, Exists
  <1> QED
    BY <1>2, <1>3, <1>4 DEF RulePlan

\* A plan's next command, and the plan that is left.
LEMMA RuleStep ==
  ASSUME NEW d, DOMAIN d = Keys, Lawful(d), NEW t \in AclTables, NEW p, IsSeq(p), p # <<>>,
         RulePlan(d, t, p), \A i \in 1..Len(p) : p[i].key[2] = t
  PROVE  Lawful(Issue(d, Head(p))) /\ RulePlan(Issue(d, Head(p)), t, Tail(p))
  <1> DEFINE c == Head(p)
             e == Issue(d, c)
             q == Tail(p)
  <1>1. /\ c = p[1] /\ 1 \in 1..Len(p) /\ Len(p) \in Nat /\ Len(q) \in Nat
        /\ \A i \in 1..Len(q) : i + 1 \in 1..Len(p) /\ q[i] = p[i + 1]
    BY SeqNext, SeqLen
  <1>2. /\ \A u \in AclTables : AclTable(u) \in Keys /\ AclTable(u)[1] = "ACL_TABLE" /\ AclTable(u)[2] = u
        /\ \A u \in AclTables, n \in Priorities :
              AclRule(u, n) \in Keys /\ AclRule(u, n)[1] = "ACL_RULE" /\ AclRule(u, n)[2] = u
    <2>1. \A u \in AclTables : AclTable(u) \in Keys /\ AclTable(u)[1] = "ACL_TABLE" /\ AclTable(u)[2] = u
      BY AclTableKnown, AclRowsApart
    <2>2. \A u \in AclTables, n \in Priorities :
            AclRule(u, n) \in Keys /\ AclRule(u, n)[1] = "ACL_RULE" /\ AclRule(u, n)[2] = u
      BY AclRowsKnown, AclRowsApart
    <2> QED
      BY <2>1, <2>2
  <1>3. \A k \in Keys : e[k] = IF k = c.key THEN Patched(d[k], c.upd) ELSE d[k]
    BY IssueRow
  <1>4. c.key[2] = t
    BY <1>1
  <1>5. SrcFields \subseteq Fields /\ "type" \in Fields /\ Absent \notin ManagedTypes /\ Keep \notin ManagedTypes
    BY AclFieldsKnown
  <1>6. \A f \in Fields : NoRow[f] = Absent
    BY DEF NoRow
  <1> HIDE DEF c, e, q
  <1>7. \A u \in AclTables : u # t =>
          /\ e[AclTable(u)] = d[AclTable(u)]
          /\ \A n \in Priorities : e[AclRule(u, n)] = d[AclRule(u, n)]
    BY <1>2, <1>3, <1>4
  \* What remains to be shown is about the table itself.
  <1>8. ASSUME \A n \in Priorities :
                  /\ Exists(e, AclRule(t, n)) => Exists(e, AclTable(t))
                  /\ \A f \in SrcFields :
                        managed(e, t) /\ e[AclRule(t, n)][f] # Absent => f = src_field(e[AclTable(t)]["type"])
        PROVE  Lawful(e)
    <2>1. ASSUME NEW u \in AclTables, NEW n \in Priorities
          PROVE  /\ Exists(e, AclRule(u, n)) => Exists(e, AclTable(u))
                 /\ \A f \in SrcFields :
                       managed(e, u) /\ e[AclRule(u, n)][f] # Absent => f = src_field(e[AclTable(u)]["type"])
      <3>1. CASE u = t
        BY <1>8, <3>1
      <3>2. CASE u # t
        BY <1>7, <3>2 DEF Lawful, Exists, managed
      <3> QED
        BY <3>1, <3>2
    <2> QED
      BY <2>1 DEF Lawful
  <1>9. CASE WritesRules(d, t, p)
    <2>1. /\ Exists(d, AclTable(t)) /\ c.key[1] # "ACL_TABLE"
          /\ \A f \in SrcFields : c.upd[f] \in {Keep, Absent} \/ f = src_field(d[AclTable(t)]["type"])
      BY <1>1, <1>9 DEF WritesRules
    <2>2. e[AclTable(t)] = d[AclTable(t)]
      BY <1>2, <1>3, <2>1
    <2>3. ASSUME NEW n \in Priorities, NEW f \in SrcFields, managed(e, t), e[AclRule(t, n)][f] # Absent
          PROVE  f = src_field(e[AclTable(t)]["type"])
      <3>1. managed(d, t)
        BY <2>2, <2>3 DEF managed, Exists
      <3>2. CASE AclRule(t, n) = c.key
        <4>1. e[AclRule(t, n)][f] = IF c.upd[f] = Keep THEN d[AclRule(t, n)][f] ELSE c.upd[f]
          <5>1. AclRule(t, n) \in Keys /\ f \in Fields
            BY <1>2, <1>5
          <5>2. e[AclRule(t, n)] = Patched(d[AclRule(t, n)], c.upd)
            BY <1>3, <3>2, <5>1
          <5> QED
            BY <5>1, <5>2 DEF Patched
        <4> QED
          BY <2>1, <2>2, <2>3, <3>1, <4>1 DEF Lawful
      <3>3. CASE AclRule(t, n) # c.key
        BY <1>2, <1>3, <2>2, <2>3, <3>1, <3>3 DEF Lawful
      <3> QED
        BY <3>2, <3>3
    <2>4. Lawful(e)
      BY <1>8, <2>1, <2>2, <2>3 DEF Exists
    <2>5. WritesRules(e, t, q)
      BY <1>1, <1>9, <2>2 DEF WritesRules, Exists
    <2> QED
      BY <2>4, <2>5 DEF RulePlan, c, e, q
  <1>10. CASE WritesTable(d, t, p)
    <2>1. c.key = AclTable(t) /\ \A i \in 1..Len(q) : q[i].key = AclTable(t)
      BY <1>1, <1>10 DEF WritesTable
    <2>2. \A n \in Priorities : e[AclRule(t, n)] = d[AclRule(t, n)]
      BY <1>2, <1>3, <2>1
    <2>3. CASE \A n \in Priorities : d[AclRule(t, n)] = NoRow
      <3>1. Lawful(e)
        BY <1>5, <1>6, <1>8, <2>2, <2>3 DEF Exists
      <3>2. WritesTable(e, t, q)
        BY <2>1, <2>2, <2>3 DEF WritesTable
      <3> QED
        BY <3>1, <3>2 DEF RulePlan, c, e, q
    <2>4. CASE managed(d, t) /\ \A i \in 1..Len(p) : p[i].upd["type"] \in {Keep, d[AclTable(t)]["type"]}
      <3>1. e[AclTable(t)]["type"] = d[AclTable(t)]["type"]
        <4>1. e[AclTable(t)] = Patched(d[AclTable(t)], c.upd)
          BY <1>2, <1>3, <2>1
        <4>2. c.upd["type"] \in {Keep, d[AclTable(t)]["type"]}
          BY <1>1, <2>4
        <4> QED
          BY <1>5, <4>1, <4>2 DEF Patched
      <3>2. managed(e, t) /\ Exists(e, AclTable(t))
        BY <1>5, <1>6, <2>4, <3>1 DEF managed, Exists
      <3>3. Lawful(e)
        BY <1>8, <2>2, <2>4, <3>1, <3>2 DEF Lawful
      <3>4. WritesTable(e, t, q)
        BY <1>1, <2>1, <2>4, <3>1, <3>2 DEF WritesTable
      <3> QED
        BY <3>3, <3>4 DEF RulePlan, c, e, q
    <2> QED
      BY <1>10, <2>3, <2>4 DEF WritesTable
  <1>11. CASE Deletes(d, t, p)
    <2>1. c.upd = NoRow /\ \A i \in 1..Len(q) : q[i].upd = NoRow
      <3>1. \A j \in 1..Len(p) : p[j].upd = NoRow
        BY <1>11 DEF Deletes
      <3> QED
        BY <1>1, <3>1
    <2>2. \A k \in Keys : e[k] = IF k = c.key THEN NoRow ELSE d[k]
      BY <1>3, <2>1, DelRow
    <2>3. CASE c.key = AclTable(t)
      <3>1. \A n \in Priorities : d[AclRule(t, n)] = NoRow
        BY <1>1, <1>11, <2>3 DEF Deletes, Exists
      <3>2. \A n \in Priorities : e[AclRule(t, n)] = NoRow
        BY <1>2, <2>2, <2>3, <3>1
      <3>3. Lawful(e)
        BY <1>5, <1>6, <1>8, <3>2 DEF Exists
      <3>4. Deletes(e, t, q)
        BY <2>1, <3>2 DEF Deletes, Exists
      <3> QED
        BY <3>3, <3>4 DEF RulePlan, c, e, q
    <2>4. CASE c.key # AclTable(t)
      <3>1. e[AclTable(t)] = d[AclTable(t)]
        BY <1>2, <2>2, <2>4
      <3>2. \A n \in Priorities : e[AclRule(t, n)] = NoRow \/ e[AclRule(t, n)] = d[AclRule(t, n)]
        BY <1>2, <2>2
      <3>3. Lawful(e)
        BY <1>5, <1>6, <1>8, <3>1, <3>2 DEF Lawful, Exists, managed
      <3>4. ASSUME NEW j \in 1..Len(q), q[j].key = AclTable(t), NEW n \in Priorities, Exists(e, AclRule(t, n))
            PROVE  \E i \in 1..Len(q) : i < j /\ q[i].key = AclRule(t, n)
        <4>1. AclRule(t, n) # c.key /\ Exists(d, AclRule(t, n))
          BY <1>2, <2>2, <3>4 DEF Exists
        <4>2. PICK i \in 1..Len(p) : i < j + 1 /\ p[i].key = AclRule(t, n)
          BY <1>1, <1>11, <3>4, <4>1 DEF Deletes
        <4>3. i # 1
          BY <1>1, <4>1, <4>2
        <4>4. i - 1 \in 1..Len(q) /\ i - 1 < j /\ (i - 1) + 1 = i
          BY <1>1, <4>2, <4>3
        <4>5. q[i - 1] = p[i]
          BY <1>1, <4>4
        <4> QED
          BY <4>2, <4>4, <4>5
      <3>5. Deletes(e, t, q)
        BY <2>1, <3>4 DEF Deletes
      <3> QED
        BY <3>3, <3>5 DEF RulePlan, c, e, q
    <2> QED
      BY <2>3, <2>4
  <1> QED
    BY <1>9, <1>10, <1>11 DEF RulePlan

\* Requests that do not hold the ACL mutex leave tables and rules alone.
LEMMA AclRowsStay ==
  ASSUME Base, NEW m \in Handlers, Moves(m), ~Reloads(m), lock["acl"] # m
  PROVE  AclAgree(db, db')
  <1>1. ASSUME NEW k \in Keys, k[1] \in AclTabs PROVE db'[k] = db[k]
    <2> SUFFICES ASSUME db'[k] # db[k] PROVE FALSE
      OBVIOUS
    <2>1. PICK f \in Mutexes : lock[f] = m /\ k[1] \in Tables(f)
      BY RowChanges
    <2> QED
      BY <1>1, <2>1, TablesApart
  <1>2. \A u \in AclTables : AclTable(u) \in Keys /\ AclTable(u)[1] \in AclTabs
    BY AclTableKnown, AclRowsApart DEF AclTabs
  <1>3. \A u \in AclTables, n \in Priorities : AclRule(u, n) \in Keys /\ AclRule(u, n)[1] \in AclTabs
    BY AclRowsKnown, AclRowsApart DEF AclTabs
  <1> QED
    BY <1>1, <1>2, <1>3 DEF AclAgree

LEMMA ReloadedAcls == AclAgree(saved, Reloaded)
  <1>1. \A u \in AclTables : AclTable(u) \in Keys /\ AclTable(u)[1] = "ACL_TABLE"
    BY AclTableKnown, AclRowsApart
  <1>2. \A u \in AclTables, n \in Priorities : AclRule(u, n) \in Keys /\ AclRule(u, n)[1] = "ACL_RULE"
    BY AclRowsKnown, AclRowsApart
  <1>3. \A k \in Keys : k[1] \in {"ACL_TABLE", "ACL_RULE"} => Reloaded[k] = saved[k]
    BY DEF Reloaded, Account
  <1> QED
    BY <1>1, <1>2, <1>3 DEF AclAgree

\* The configurations that were there, loaded or uploaded, were lawful.
StartsLawful == \A d \in Configs0 \cup Backups : Lawful(d)

LEMMA LawKeeps ==
  ASSUME StartsLawful, Base, Base', LawInv, (\E h \in Handlers : Moves(h)) \/ Crashes
  PROVE  LawInv'
  <1>0. DOMAIN db = Keys /\ "acl" \in Features /\ "acl" \in Mutexes
    BY PagesKnown DEF Base, Domains, Mutexes
  <1>1. SUFFICES ASSUME faults' = 0
                 PROVE  /\ Lawful(db') /\ Lawful(saved')
                        /\ \A h \in Handlers : lock'["acl"] = h =>
                              \E t \in AclTables :
                                 /\ RulePlan(db', t, todo'[h])
                                 /\ \A i \in 1..Len(todo'[h]) : todo'[h][i].key[2] = t
    BY DEF LawInv
  <1>2. faults = 0
    BY <1>1 DEF Moves, Alone, Crashes, Grows
  <1>3. /\ Lawful(db) /\ Lawful(saved)
        /\ \A h \in Handlers : lock["acl"] = h =>
              \E t \in AclTables :
                 RulePlan(db, t, todo[h]) /\ \A i \in 1..Len(todo[h]) : todo[h][i].key[2] = t
    BY <1>2 DEF LawInv
  <1>4. Lawful(Reloaded)
    BY <1>3, ReloadedAcls, LawfulLocal
  <1>5. CASE Crashes
    <2>1. db' \in {db, Reloaded, saved} /\ saved' = saved /\ \A h \in Handlers : lock'["acl"] # h
      BY <1>0, <1>5, StoreConstants DEF Crashes
    <2> QED
      BY <1>3, <1>4, <2>1
  <1>6. ASSUME NEW m \in Handlers, Moves(m)
        PROVE  /\ Lawful(db') /\ Lawful(saved')
               /\ \A h \in Handlers : lock'["acl"] = h =>
                     \E t \in AclTables :
                        /\ RulePlan(db', t, todo'[h])
                        /\ \A i \in 1..Len(todo'[h]) : todo'[h][i].key[2] = t
    <2>1. Lawful(saved')
      <3>1. saved' \in {saved, db} \/ saved' \in Backups
        BY <1>6 DEF Moves, Issues, Quiet, Undoes, Reloads, ReadsOn, Admits
      <3> QED
        BY <1>3, <3>1 DEF StartsLawful
    <2>2. CASE Issues(m) /\ lock["acl"] = m
      <3>1. PICK t \in AclTables :
               RulePlan(db, t, todo[m]) /\ \A i \in 1..Len(todo[m]) : todo[m][i].key[2] = t
        BY <1>3, <2>2
      <3>2. todo[m] # <<>> /\ db' = Issue(db, Head(todo[m])) /\ todo'[m] = Tail(todo[m])
        BY <1>1, <2>2 DEF Issues, Abandons
      <3>3. IsSeq(todo[m])
        BY <1>0, <2>2, Holder DEF Works, Within
      <3>4. Lawful(db') /\ RulePlan(db', t, todo'[m])
        BY <1>0, <1>3, <3>1, <3>2, <3>3, RuleStep
      <3>5. \A i \in 1..Len(todo'[m]) : todo'[m][i].key[2] = t
        BY <3>1, <3>2, <3>3, SeqNext
      <3>6. \A h \in Handlers : lock'["acl"] = h => h = m
        BY <1>0, <1>6, <2>2 DEF Moves, Alone
      <3> QED
        BY <2>1, <3>4, <3>5, <3>6
    <2>3. CASE ~(Issues(m) /\ lock["acl"] = m) /\ ~Reloads(m)
      <3>1. ~Undoes(m)
        BY <1>1 DEF Undoes
      <3>2. AclAgree(db, db')
        <4>1. CASE Issues(m)
          BY <1>6, <2>3, <4>1, AclRowsStay
        <4>2. CASE Quiet(m) \/ ReadsOn(m) \/ \E f, ops : Admits(m, f, ops) /\ Plans(f, ops)
          BY <4>2 DEF Quiet, ReadsOn, Admits, AclAgree
        <4> QED
          BY <1>6, <2>3, <3>1, <4>1, <4>2 DEF Moves
      <3>3. Lawful(db')
        BY <1>3, <3>2, LawfulLocal
      <3>4. ASSUME NEW h \in Handlers, lock'["acl"] = h
            PROVE  \E t \in AclTables :
                      /\ RulePlan(db', t, todo'[h])
                      /\ \A i \in 1..Len(todo'[h]) : todo'[h][i].key[2] = t
        <4>1. CASE lock["acl"] = h
          <5>1. todo'[h] = todo[h]
            <6>1. CASE h # m
              BY <1>6, <6>1 DEF Moves, Alone
            <6>2. CASE h = m
              <7>1. page = "acl" /\ pc[h] \in Busy
                BY <1>0, <4>1, Holder, TablesApart DEF Works
              <7>2. Quiet(m)
                BY <1>6, <2>3, <3>1, <4>1, <6>2, <7>1 DEF Moves, ReadsOn, Admits
              <7> QED
                BY <1>1, <6>2, <7>1, <7>2 DEF Quiet, Abandons
            <6> QED
              BY <6>1, <6>2
          <5> QED
            BY <1>3, <3>2, <4>1, <5>1, RulePlanLocal
        <4>2. CASE lock["acl"] # h
          <5>1. m = h
            BY <1>0, <1>6, <3>4, <4>2 DEF Moves, Alone
          <5>2. ~Issues(h) /\ ~Quiet(h) /\ ~ReadsOn(h)
            BY <1>0, <3>4, <4>2 DEF Issues, Quiet, ReadsOn, TakesNone
          <5>3. PICK f, ops : Admits(h, f, ops) /\ Plans(f, ops)
            BY <1>6, <2>3, <3>1, <5>1, <5>2 DEF Moves
          <5>4. f = "acl"
            BY <1>0, <3>4, <4>2, <5>3 DEF Admits
          <5>5. PICK t \in AclTables : AclPlan(t, ops)
            BY <5>3, <5>4 DEF Plans
          <5>6. db' = db /\ todo'[h] = ops
            BY <5>3 DEF Admits
          <5> QED
            BY <1>3, <5>5, <5>6 DEF AclPlan, About
        <4> QED
          BY <4>1, <4>2
      <3> QED
        BY <2>1, <3>3, <3>4
    <2>4. CASE Reloads(m)
      <3>1. db' = Reloaded /\ page = "system" /\ TakesNone(m)
        BY <2>4 DEF Reloads
      <3>2. \A h \in Handlers : lock'["acl"] # h
        <4> SUFFICES ASSUME NEW h \in Handlers, lock'["acl"] = h PROVE FALSE
          OBVIOUS
        <4>1. lock["acl"] = h
          BY <1>0, <1>6, <3>1 DEF Moves, Alone, TakesNone
        <4> QED
          BY <1>0, <3>1, <4>1, Holder, TablesApart DEF Works
      <3> QED
        BY <1>4, <2>1, <3>1, <3>2
    <2> QED
      BY <2>2, <2>3, <2>4
  <1> QED
    BY <1>5, <1>6

(***************************************************************************)
(* delete_table and put_rule: until a redis command first fails, no rule   *)
(* is without its table, in redis or in the saved file, nor matches on     *)
(* another family, whatever requests interleave and wherever the agent is  *)
(* killed; from configurations of which it holds.                          *)
(***************************************************************************)
THEOREM RulesKeepTheirTable ==
  ASSUME StartsLawful
  PROVE  SecuritySpec => []RulesHaveTheirTable
  <1>1. Init /\ page \in Pages => Base /\ LawInv
    <2> SUFFICES ASSUME Init, page \in Pages PROVE Base /\ LawInv
      OBVIOUS
    <2>1. /\ Base /\ db \in Configs0 /\ saved = db /\ "acl" \in Features
          /\ \A h \in Handlers : \A f \in Features : lock[f] # h
      BY BaseStarts, PagesKnown
    <2> QED
      BY <2>1 DEF LawInv, StartsLawful
  <1>2. (Base /\ LawInv) /\ [SecurityNext]_<<vars, page>> => (Base /\ LawInv)'
    <2> SUFFICES ASSUME Base, LawInv, [SecurityNext]_<<vars, page>> PROVE (Base /\ LawInv)'
      OBVIOUS
    <2>1. CASE SecurityNext
      BY <2>1, StepKinds, LawKeeps
    <2>2. CASE UNCHANGED <<vars, page>>
      <3>1. db' = db /\ saved' = saved /\ lock' = lock /\ todo' = todo /\ faults' = faults
        BY <2>2 DEF vars, storeVars
      <3>2. Lawful(db)' = Lawful(db) /\ Lawful(saved)' = Lawful(saved)
        BY <3>1 DEF Lawful, Exists, managed
      <3>3. \A t, h : RulePlan(db, t, todo[h])' = RulePlan(db, t, todo[h])
        BY <3>1 DEF RulePlan, WritesRules, WritesTable, Deletes, Exists, managed
      <3>4. LawInv'
        BY <3>1, <3>2, <3>3 DEF LawInv
      <3> QED
        BY <2>2, <3>4, BaseStutters
    <2> QED
      BY <2>1, <2>2
  <1>3. Base /\ LawInv => RulesHaveTheirTable
    <2> SUFFICES ASSUME LawInv, faults = 0 PROVE RulesHaveTheirTable
      BY DEF RulesHaveTheirTable
    <2>1. Lawful(db) /\ Lawful(saved)
      BY DEF LawInv
    <2>2. ASSUME NEW d \in {db, saved}, NEW t \in AclTables, RulesOf(d, t) # {}
          PROVE  Exists(d, AclTable(t))
      BY <2>1, <2>2 DEF RulesOf, Lawful
    <2> QED
      BY <2>1, <2>2 DEF RulesHaveTheirTable, Lawful, SrcFields
  <1> QED
    BY <1>1, <1>2, <1>3, PTL DEF SecuritySpec

----------------------------------------------------------------------------
(* Sessions and the rules that name them.                                  *)

LEMMA ReturnsTail ==
  ASSUME NEW p, IsSeq(p), p # <<>>, Returns(p)
  PROVE  \/ Tail(p) = <<>> /\ Head(p).upd["src_port"] \notin {Keep, Absent}
         \/ Tail(p) # <<>> /\ Returns(Tail(p)) /\ Tail(p)[1] = p[2] /\ 2 \in 1..Len(p)
  <1> DEFINE q == Tail(p)
  <1>1. /\ IsSeq(q) /\ Head(p) = p[1] /\ Len(p) \in Nat /\ Len(p) >= 1 /\ Len(q) = Len(p) - 1
        /\ \A i \in 1..Len(q) : i + 1 \in 1..Len(p) /\ q[i] = p[i + 1]
    BY SeqNext
  <1>2. Len(q) \in Nat /\ (q = <<>> <=> Len(q) = 0)
    BY <1>1, SeqLen
  <1> HIDE DEF q
  <1>3. CASE Len(q) = 0
    <2>1. Len(p) = 1
      BY <1>1, <1>3
    <2> QED
      BY <1>1, <1>2, <1>3, <2>1 DEF Returns, q
  <1>4. CASE Len(q) # 0
    <2>1. Len(q) \in 1..Len(q) /\ 1 \in 1..Len(q) /\ Len(q) + 1 = Len(p)
      BY <1>1, <1>2, <1>4
    <2>2. q[Len(q)] = p[Len(p)] /\ q[1] = p[1 + 1] /\ 1 + 1 \in 1..Len(p)
      BY <1>1, <2>1
    <2> QED
      BY <1>2, <1>4, <2>2 DEF Returns, q
  <1> QED
    BY <1>3, <1>4

LEMMA SessionPlanNext ==
  ASSUME NEW p, IsSeq(p), NEW d, NEW e, NEW s, SessionPlan(d, p, s), referenced(e, s) => referenced(d, s)
  PROVE  SessionPlan(e, p, s) /\ (p # <<>> => SessionPlan(e, Tail(p), s))
  <1>1. SessionPlan(e, p, s)
    BY DEF SessionPlan
  <1>2. ASSUME p # <<>> PROVE SessionPlan(e, Tail(p), s)
    <2>1. \A i \in 1..Len(Tail(p)) : i + 1 \in 1..Len(p) /\ Tail(p)[i] = p[i + 1]
      BY <1>2, SeqNext
    <2>2. \A i \in 1..Len(Tail(p)) : Tail(p)[i].key = MirrorSession(s)
      BY <2>1 DEF SessionPlan
    <2>3. Returns(p) => Tail(p) = <<>> \/ Returns(Tail(p))
      BY <1>2, ReturnsTail
    <2> QED
      BY <1>2, <2>2, <2>3 DEF SessionPlan
  <1> QED
    BY <1>1, <1>2

LEMMA NamesNoneNext ==
  ASSUME NEW p, IsSeq(p), p # <<>>, NamesNone(p)
  PROVE  NamesNone(Tail(p))
  <1>1. \A i \in 1..Len(Tail(p)) : i + 1 \in 1..Len(p) /\ Tail(p)[i] = p[i + 1]
    BY SeqNext
  <1> QED
    BY <1>1 DEF NamesNone

\* Who still has commands to issue still holds its mutex.
LEMMA StillHolds ==
  ASSUME Base, Base', NEW h \in Handlers, TakesNone(h), NEW f \in Mutexes, lock[f] = h,
         todo'[h] # <<>>
  PROVE  lock'[f] = h
  <1>1. BaseOK(h)' /\ Mutexes \subseteq Features
    BY PagesKnown DEF Base, Mutexes
  <1>2. pc'[h] \in Busy
    BY <1>1 DEF BaseOK, Tidy, Busy
  <1>3. PICK g \in Mutexes : Works(h, g)'
    BY <1>1, <1>2 DEF BaseOK, Working
  <1>4. lock[g] = h
    BY <1>1, <1>3 DEF Works, Holds, TakesNone
  <1>5. g = f
    BY <1>1, <1>4, Holder DEF Works, Holds
  <1> QED
    BY <1>3, <1>5 DEF Works, Holds

LEMMA SessionsKnown ==
  ASSUME NEW s \in Sessions
  PROVE  s # Absent /\ "src_port" \in Fields
  <1>1. Sessions \subseteq MirrorValues /\ MirrorValues \subseteq Values
    BY MirrorConstants DEF MirrorValues
  <1>2. "src_port" \in MirrorFields /\ MirrorFields \subseteq Fields
    BY MirrorConstants DEF MirrorFields
  <1> QED
    BY <1>1, <1>2, StoreConstants

\* No rule comes to name a session.
LEMMA RefsStay ==
  ASSUME Base, NEW m \in Handlers, Moves(m), ~Reloads(m), faults' = 0,
         lock["acl"] = m => NamesNone(todo[m]),
         NEW k \in Keys, k[1] = "ACL_RULE", NEW f \in RefFields
  PROVE  db'[k][f] \in {db[k][f], Absent}
  <1> SUFFICES ASSUME db'[k] # db[k] PROVE db'[k][f] \in {db[k][f], Absent}
    OBVIOUS
  <1>0. DOMAIN db = Keys /\ f \in Fields
    BY AclFieldsKnown DEF Base, Domains
  <1>1. PICK x \in Mutexes :
            /\ Works(m, x) /\ lock[x] = m /\ k[1] \in Tables(x)
            /\ \/ Issues(m) /\ k = Head(todo[m]).key
               \/ Undoes(m) /\ k = LastSnap(m).key
    BY RowChanges
  <1>2. x = "acl"
    BY <1>1, TablesApart DEF AclTabs
  <1>3. Issues(m) /\ k = Head(todo[m]).key
    BY <1>1 DEF Undoes
  <1>4. /\ todo[m] # <<>> /\ db' = Issue(db, Head(todo[m]))
        /\ Head(todo[m]) = todo[m][1] /\ 1 \in 1..Len(todo[m])
    BY <1>1, <1>3, WithinTail DEF Issues, Works
  <1>5. Head(todo[m]).upd[f] \in {Keep, Absent}
    BY <1>1, <1>2, <1>3, <1>4 DEF NamesNone
  <1>6. db'[k] = Patched(db[k], Head(todo[m]).upd)
    BY <1>0, <1>3, <1>4, IssueRow
  <1> QED
    BY <1>0, <1>5, <1>6 DEF Patched

\* The session a request writes back is there, or is still to be written.
LEMMA WritesBack ==
  ASSUME Base, Base', NEW m \in Handlers, Issues(m), faults' = 0, lock["mirror"] = m, NEW s \in Sessions,
         SessionPlan(db, todo[m], s), Returns(todo[m]), MirrorSession(s) \in Keys
  PROVE  Exists(db', MirrorSession(s)) \/ Returning(s)'
  <1>0. DOMAIN db = Keys /\ "src_port" \in Fields /\ "mirror" \in Mutexes
    BY SessionsKnown DEF Base, Domains, Mutexes
  <1>1. IsSeq(todo[m])
    BY <1>0, Holder DEF Works, Within
  <1>2. todo[m] # <<>> /\ db' = Issue(db, Head(todo[m])) /\ todo'[m] = Tail(todo[m]) /\ TakesNone(m)
    BY DEF Issues, Abandons
  <1>3. Head(todo[m]) = todo[m][1] /\ 1 \in 1..Len(todo[m])
    BY <1>1, <1>2, SeqNext
  <1>4. Head(todo[m]).key = MirrorSession(s)
    BY <1>3 DEF SessionPlan
  <1>5. CASE Tail(todo[m]) = <<>> /\ Head(todo[m]).upd["src_port"] \notin {Keep, Absent}
    <2>1. db'[MirrorSession(s)] = Patched(db[MirrorSession(s)], Head(todo[m]).upd)
      BY <1>0, <1>2, <1>4, IssueRow
    <2>2. db'[MirrorSession(s)]["src_port"] # Absent
      BY <1>0, <1>5, <2>1 DEF Patched
    <2> QED
      BY <1>0, <2>2 DEF Exists, NoRow
  <1>6. CASE Tail(todo[m]) # <<>> /\ Returns(Tail(todo[m])) /\ Tail(todo[m])[1] = todo[m][2] /\ 2 \in 1..Len(todo[m])
    <2>1. lock'["mirror"] = m
      BY <1>0, <1>2, <1>6, StillHolds
    <2>2. todo'[m][1].key = MirrorSession(s) /\ Returns(todo'[m])
      BY <1>2, <1>6 DEF SessionPlan
    <2> QED
      BY <2>1, <2>2 DEF Returning, Returns
  <1> QED
    BY <1>1, <1>2, <1>5, <1>6, ReturnsTail

LEMMA ReloadedBacked ==
  ASSUME Backed(saved)
  PROVE  Backed(Reloaded)
  <1>1. \A k \in Keys : k[1] \in {"ACL_RULE", "MIRROR_SESSION"} => Reloaded[k] = saved[k]
    BY DEF Reloaded, Account
  <1>2. Refs(Reloaded) = Refs(saved)
    BY <1>1 DEF Refs
  <1>3. ASSUME NEW r \in Refs(saved)
        PROVE  /\ MirrorSession(Reloaded[r[1]][r[2]]) \in Keys
               /\ Exists(Reloaded, MirrorSession(Reloaded[r[1]][r[2]]))
    <2>1. r[1] \in Keys /\ r[1][1] = "ACL_RULE"
      BY DEF Refs
    <2>2. Reloaded[r[1]] = saved[r[1]]
      BY <1>1, <2>1
    <2>3. MirrorSession(saved[r[1]][r[2]]) \in Keys /\ Exists(saved, MirrorSession(saved[r[1]][r[2]]))
      BY DEF Backed
    <2>4. MirrorSession(saved[r[1]][r[2]])[1] = "MIRROR_SESSION"
      BY AclRowsApart
    <2> QED
      BY <1>1, <2>2, <2>3, <2>4 DEF Exists
  <1> QED
    BY <1>2, <1>3 DEF Backed

\* The configurations that were there name no session that is missing.
StartsBacked == \A d \in Configs0 \cup Backups : Backed(d)

LEMMA ServedKeeps ==
  ASSUME Base, Base', NEW m \in Handlers, Moves(m), ~Reloads(m), faults' = 0, Served, Careful
  PROVE  Served'
  <1>0. "mirror" \in Features /\ "mirror" \in Mutexes /\ DOMAIN db = Keys
    BY PagesKnown DEF Mutexes, Base, Domains
  <1> DEFINE Coming(v) ==
               \E h \in Handlers : lock'["mirror"] = h /\ Returns(todo'[h]) /\ todo'[h][1].key = MirrorSession(v)
  <1>1. SUFFICES ASSUME NEW r \in Refs(db')
                 PROVE  /\ MirrorSession(db'[r[1]][r[2]]) \in Keys
                        /\ Exists(db', MirrorSession(db'[r[1]][r[2]])) \/ Coming(db'[r[1]][r[2]])
    BY DEF Served, Exists, Refs, Returning, Returns
  <1>9. PICK s : s = db[r[1]][r[2]]
    OBVIOUS
  <1>2. r \in Keys \X RefFields /\ r[1] \in Keys /\ r[2] \in RefFields /\ r[1][1] = "ACL_RULE" /\ db'[r[1]][r[2]] # Absent
    BY DEF Refs
  <1>3. db'[r[1]][r[2]] = s
    BY <1>2, <1>9, RefsStay DEF Careful
  <1>4. r \in Refs(db) /\ referenced(db, s)
    BY <1>2, <1>3, <1>9 DEF Refs, referenced, RefFields
  <1>5. MirrorSession(s) \in Keys /\ (Exists(db, MirrorSession(s)) \/ Returning(s))
    BY <1>4, <1>9 DEF Served
  <1> HIDE DEF Coming
  <1>6. ASSUME lock["mirror"] = m, Issues(m), Head(todo[m]).key = MirrorSession(s)
        PROVE  Exists(db', MirrorSession(s)) \/ Coming(s)
    <2>1. PICK x \in Sessions : SessionPlan(db, todo[m], x)
      BY <1>6 DEF Careful
    <2>2. IsSeq(todo[m]) /\ todo[m] # <<>>
      BY <1>0, <1>6, Holder DEF Works, Within, Issues
    <2>3. MirrorSession(x) = MirrorSession(s)
      BY <1>6, <2>1, <2>2, SeqNext DEF SessionPlan
    <2>4. x = s
      BY <2>3 DEF MirrorSession
    <2>5. Returns(todo[m])
      BY <1>4, <2>1, <2>2, <2>4 DEF SessionPlan
    <2> QED
      <3>1. Exists(db', MirrorSession(s)) \/ Returning(s)'
        BY <1>5, <1>6, <2>1, <2>4, <2>5, WritesBack
      <3> QED
        BY <3>1 DEF Returning, Returns, Coming
  <1>7. CASE Exists(db, MirrorSession(s))
    <2>1. CASE db'[MirrorSession(s)] = db[MirrorSession(s)]
      BY <1>3, <1>5, <1>7, <2>1 DEF Exists
    <2>2. CASE db'[MirrorSession(s)] # db[MirrorSession(s)]
      <3>1. PICK f \in Mutexes :
               /\ Works(m, f) /\ lock[f] = m /\ MirrorSession(s)[1] \in Tables(f)
               /\ \/ Issues(m) /\ MirrorSession(s) = Head(todo[m]).key
                  \/ Undoes(m) /\ MirrorSession(s) = LastSnap(m).key
        BY <1>5, <2>2, RowChanges
      <3>2. f = "mirror"
        BY <3>1, TablesApart, AclRowsApart
      <3>3. Issues(m) /\ MirrorSession(s) = Head(todo[m]).key
        BY <3>1 DEF Undoes
      <3> QED
        BY <1>3, <1>5, <1>6, <3>1, <3>2, <3>3
    <2> QED
      BY <2>1, <2>2
  <1>8. CASE Returning(s)
    <2>1. PICK h \in Handlers : lock["mirror"] = h /\ Returns(todo[h]) /\ todo[h][1].key = MirrorSession(s)
      BY <1>8 DEF Returning
    <2>2. Works(h, "mirror") /\ pc[h] \in Busy /\ page = "acl" /\ todo[h] # <<>>
      BY <1>0, <2>1, Holder, TablesApart DEF Works, Returns
    <2>3. CASE h # m
      <3>1. todo'[h] = todo[h] /\ lock'["mirror"] = h
        BY <1>0, <2>1, <2>3 DEF Moves, Alone
      <3>2. Coming(s)
        BY <2>1, <3>1 DEF Coming
      <3> QED
        BY <1>3, <1>5, <3>2
    <2>4. CASE h = m /\ Issues(m)
      <3>1. Head(todo[m]).key = MirrorSession(s)
        BY <2>1, <2>2, <2>4, SeqNext DEF Works, Within
      <3> QED
        BY <1>3, <1>5, <1>6, <2>1, <2>4, <3>1
    <2>5. CASE h = m /\ ~Issues(m)
      <3>1. Quiet(m)
        BY <2>2, <2>5 DEF Moves, Undoes, ReadsOn, Admits
      <3>2. todo'[h] = todo[h] /\ TakesNone(h)
        BY <2>2, <2>5, <3>1 DEF Quiet, Abandons
      <3>3. lock'["mirror"] = h
        BY <1>0, <2>1, <2>2, <3>2, StillHolds
      <3>4. Coming(s)
        BY <2>1, <3>2, <3>3 DEF Coming
      <3> QED
        BY <1>3, <1>5, <3>4
    <2> QED
      BY <2>3, <2>4, <2>5
  <1> QED
    BY <1>5, <1>7, <1>8

LEMMA CarefulKeeps ==
  ASSUME Base, Base', NEW m \in Handlers, Moves(m), faults' = 0, blindReads' = 0, Careful
  PROVE  Careful'
  <1>0. /\ {"mirror", "acl"} \subseteq Features /\ {"mirror", "acl"} \subseteq Mutexes
        /\ DOMAIN db = Keys
    BY PagesKnown DEF Mutexes, Base, Domains
  \* Someone keeps a mutex: the reload is not of this page, and no rule comes to name a session.
  <1>1. ASSUME NEW f \in {"mirror", "acl"}, NEW h \in Handlers, lock[f] = h, lock'[f] = h
        PROVE  /\ page = "acl" /\ IsSeq(todo[h]) /\ ~Reloads(m)
               /\ todo'[h] = todo[h] \/ (todo[h] # <<>> /\ todo'[h] = Tail(todo[h]))
    <2>1. pc[h] \in Busy /\ page = "acl" /\ IsSeq(todo[h])
      BY <1>0, <1>1, Holder, TablesApart DEF Works, Within
    <2>2. CASE h # m
      BY <2>1, <2>2 DEF Moves, Alone, Reloads
    <2>3. CASE h = m
      <3>1. Issues(m) \/ Quiet(m)
        BY <2>1, <2>3 DEF Moves, Undoes, Reloads, ReadsOn, Admits
      <3> QED
        BY <2>1, <2>3, <3>1 DEF Issues, Quiet, Abandons, Reloads
    <2> QED
      BY <2>2, <2>3
  \* Someone takes it.
  <1>2. ASSUME NEW f \in {"mirror", "acl"}, NEW h \in Handlers, lock[f] # h, lock'[f] = h
        PROVE  db' = db /\ Plans(f, todo'[h])
    <2>1. m = h
      BY <1>0, <1>2 DEF Moves, Alone
    <2>2. ~Issues(h) /\ ~Quiet(h) /\ ~ReadsOn(h) /\ ~Undoes(h) /\ ~Reloads(h)
      BY <1>0, <1>2 DEF Issues, Quiet, ReadsOn, Undoes, Reloads, TakesNone
    <2>3. PICK g, ops : Admits(h, g, ops) /\ Plans(g, ops)
      BY <2>1, <2>2 DEF Moves
    <2>4. g = f
      BY <1>0, <1>2, <2>3 DEF Admits
    <2> QED
      BY <2>3, <2>4 DEF Admits
  <1>3. ASSUME NEW h \in Handlers, lock'["mirror"] = h
        PROVE  \E s \in Sessions : SessionPlan(db', todo'[h], s)
    <2>1. CASE lock["mirror"] # h
      <3>1. db' = db /\ Plans("mirror", todo'[h])
        BY <1>2, <1>3, <2>1
      <3> QED
        BY <3>1 DEF Plans
    <2>2. CASE lock["mirror"] = h
      <3>1. /\ IsSeq(todo[h]) /\ ~Reloads(m)
            /\ todo'[h] = todo[h] \/ (todo[h] # <<>> /\ todo'[h] = Tail(todo[h]))
        BY <1>1, <1>3, <2>2
      <3>2. PICK s \in Sessions : SessionPlan(db, todo[h], s)
        BY <2>2 DEF Careful
      <3>3. referenced(db', s) => referenced(db, s)
        <4>1. s # Absent
          BY SessionsKnown
        <4>2. \A k \in Keys : k[1] = "ACL_RULE" => \A f \in RefFields : db'[k][f] \in {db[k][f], Absent}
          BY <3>1, RefsStay DEF Careful
        <4> QED
          BY <4>1, <4>2 DEF referenced, RefFields
      <3>4. SessionPlan(db', todo'[h], s)
        BY <3>1, <3>2, <3>3, SessionPlanNext
      <3> QED
        BY <3>4
    <2> QED
      BY <2>1, <2>2
  <1>4. ASSUME NEW h \in Handlers, lock'["acl"] = h PROVE NamesNone(todo'[h])
    <2>1. CASE lock["acl"] # h
      <3>1. Plans("acl", todo'[h])
        BY <1>2, <1>4, <2>1
      <3> QED
        BY <3>1 DEF Plans, AclPlan
    <2>2. CASE lock["acl"] = h
      <3>1. /\ IsSeq(todo[h]) /\ NamesNone(todo[h])
            /\ todo'[h] = todo[h] \/ (todo[h] # <<>> /\ todo'[h] = Tail(todo[h]))
        BY <1>1, <1>4, <2>2 DEF Careful
      <3> QED
        BY <3>1, NamesNoneNext
    <2> QED
      BY <2>1, <2>2
  <1>5. \A h \in Handlers :
          /\ lock'["mirror"] = h => \E s \in Sessions : SessionPlan(db', todo'[h], s)
          /\ lock'["acl"] = h => NamesNone(todo'[h])
    BY <1>3, <1>4
  <1> QED
    BY <1>5 DEF Careful, SessionPlan, Returns, referenced, NamesNone

LEMMA BackedKeeps ==
  ASSUME StartsBacked, Base, Base', BackedInv, (\E h \in Handlers : Moves(h)) \/ Crashes
  PROVE  BackedInv'
  <1>0. {"mirror", "acl"} \subseteq Mutexes /\ Mutexes \subseteq Features
    BY PagesKnown DEF Mutexes
  <1>1. SUFFICES ASSUME faults' = 0, stops' = 0, blindReads' = 0
                 PROVE  Served' /\ Careful' /\ (page' = "system" => Backed(saved'))
    BY DEF BackedInv, Backed, Refs, Exists
  <1>2. PICK m \in Handlers : Moves(m)
    BY <1>1 DEF Crashes
  <1>3. faults = 0 /\ stops = 0 /\ blindReads = 0 /\ page' = page
    BY <1>1, <1>2 DEF Moves, Alone, Grows
  <1>4. Served /\ Careful /\ (page = "system" => Backed(saved))
    BY <1>3 DEF BackedInv
  <1>5. Careful'
    BY <1>1, <1>2, <1>4, CarefulKeeps
  <1>6. ASSUME page = "system" PROVE Backed(db)
    <2>1. \A s : ~Returning(s)
      BY <1>0, <1>6, Holder, TablesApart DEF Returning, Works
    <2> QED
      BY <1>4, <2>1 DEF Served, Backed
  <1>7. ASSUME page' = "system" PROVE Backed(saved')
    <2>1. saved' \in {saved, db} \/ saved' \in Backups
      BY <1>2 DEF Moves, Issues, Quiet, Undoes, Reloads, ReadsOn, Admits
    <2> QED
      BY <1>3, <1>4, <1>6, <1>7, <2>1 DEF StartsBacked
  <1>8. Served'
    <2>1. CASE ~Reloads(m)
      BY <1>1, <1>2, <1>4, <2>1, ServedKeeps
    <2>2. CASE Reloads(m)
      <3>1. Backed(db')
        BY <1>4, <2>2, ReloadedBacked DEF Reloads
      <3> QED
        BY <3>1 DEF Backed, Served, Refs, Exists
    <2> QED
      BY <2>1, <2>2
  <1> QED
    BY <1>5, <1>7, <1>8

(***************************************************************************)
(* delete_session against put_rule and put_session: while no read degraded,*)
(* no write failed and nothing was killed, a session a rule names is there *)
(* whenever the mirror mutex is free, though ACL requests do not take it;  *)
(* from configurations of which it holds.                                  *)
(***************************************************************************)
THEOREM RulesKeepTheirSession ==
  ASSUME StartsBacked
  PROVE  SecuritySpec => []SessionsBackRules
  <1>0. "mirror" \in Features /\ "acl" \in Features
    BY PagesKnown
  <1>1. Init /\ page \in Pages => Base /\ BackedInv
    <2> SUFFICES ASSUME Init, page \in Pages PROVE Base /\ BackedInv
      OBVIOUS
    <2>1. /\ Base /\ db \in Configs0 /\ saved = db
          /\ \A h \in Handlers : \A f \in Features : lock[f] # h
      BY BaseStarts
    <2>2. Backed(db) /\ Backed(saved)
      BY <2>1 DEF StartsBacked
    <2>3. Served
      BY <2>2 DEF Served, Backed
    <2>4. Careful
      BY <1>0, <2>1 DEF Careful
    <2> QED
      BY <2>1, <2>2, <2>3, <2>4 DEF BackedInv
  <1>2. (Base /\ BackedInv) /\ [SecurityNext]_<<vars, page>> => (Base /\ BackedInv)'
    <2> SUFFICES ASSUME Base, BackedInv, [SecurityNext]_<<vars, page>> PROVE (Base /\ BackedInv)'
      OBVIOUS
    <2>1. CASE SecurityNext
      BY <2>1, StepKinds, BackedKeeps
    <2>2. CASE UNCHANGED <<vars, page>>
      <3>1. /\ db' = db /\ saved' = saved /\ lock' = lock /\ todo' = todo /\ page' = page
            /\ faults' = faults /\ stops' = stops /\ blindReads' = blindReads
        BY <2>2 DEF vars, storeVars
      <3>2. Served => Served'
        BY <3>1 DEF Served, Refs, Exists, Returning, Returns
      <3>3. Careful => Careful'
        BY <3>1 DEF Careful, SessionPlan, Returns, referenced, NamesNone
      <3>4. Backed(saved) => Backed(saved)'
        BY <3>1 DEF Backed, Refs, Exists
      <3>5. BackedInv'
        BY <3>1, <3>2, <3>3, <3>4 DEF BackedInv
      <3> QED
        BY <2>2, <3>5, BaseStutters
    <2> QED
      BY <2>1, <2>2
  <1>3. Base /\ BackedInv => SessionsBackRules
    <2> SUFFICES ASSUME BackedInv, lock["mirror"] = NoOne, faults = 0, stops = 0, blindReads = 0
                 PROVE  \A k \in Keys, f \in RefFields :
                           k[1] = "ACL_RULE" /\ db[k][f] # Absent => Exists(db, MirrorSession(db[k][f]))
      BY DEF SessionsBackRules, RefFields
    <2>1. Served
      BY DEF BackedInv
    <2>2. \A s : ~Returning(s)
      BY StoreConstants DEF Returning
    <2>3. ASSUME NEW k \in Keys, NEW f \in RefFields, k[1] = "ACL_RULE", db[k][f] # Absent
          PROVE  Exists(db, MirrorSession(db[k][f]))
      <3> DEFINE r == <<k, f>>
      <3>1. r \in Refs(db) /\ r[1] = k /\ r[2] = f
        BY <2>3 DEF Refs
      <3> HIDE DEF r
      <3> QED
        BY <2>1, <2>2, <3>1 DEF Served
    <2> QED
      BY <2>3
  <1> QED
    BY <1>1, <1>2, <1>3, PTL DEF SecuritySpec
=============================================================================
