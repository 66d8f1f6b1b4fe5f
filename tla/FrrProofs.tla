----------------------------- MODULE FrrProofs -----------------------------
(***************************************************************************)
(* The pages that program FRR, for any lists, maps, tags, peers, bodies,   *)
(* number of handlers and bounds: whatever lines fail and whenever the     *)
(* agent dies, a prefix list is there in one family, the IS-IS instance    *)
(* and its NET are one, a BFD peer is one, and a list that is about to be  *)
(* deleted is matched on by no route map.                                  *)
(***************************************************************************)
EXTENDS FrrPages, StoreProofs

\* What the configurations FRR runs, and boots with, satisfy.
OneFam(d) ==
    \A n \in ListNames : \A f, g \in Families :
        Exists(d, ListKey(f, n)) /\ Exists(d, ListKey(g, n)) => f = g
OneTag(d) ==
    \A s, t \in Tags : Exists(d, RouterKey(s)) /\ Exists(d, RouterKey(t)) => s = t
HasNet(d, k, n) == d[k][Statement(n)] # Absent
OneNet(d) ==
    \A t \in Tags : \A m, n \in Nets :
        HasNet(d, RouterKey(t), m) /\ HasNet(d, RouterKey(t), n) => m = n
SamePeer(k, l) == k[2] = l[2] /\ k[4] = l[4] /\ k[5] = l[5] /\ k[6] = l[6]
OnePeer(d) == \A k, l \in PeerRows(d) : SamePeer(k, l) => k = l
Sound(d) == DOMAIN d = Keys /\ OneFam(d) /\ OneTag(d) /\ OneNet(d) /\ OnePeer(d)

\* What the switch starts with.
StartsSound == \A d \in Configs0 : Sound(d)

(***************************************************************************)
(* None of this is inductive: the lines still to come matter.  A plan that *)
(* replaces a block removes the one rival that may be there first, and     *)
(* then only adds to the block k; one that changes the NET withdraws the   *)
(* old one before it states the new one, m.                                *)
(***************************************************************************)
Avoids(p, table) == \A i \in 1..Len(p) : p[i].key[1] # table
Supplants(d, p, k, rivals) ==
    /\ \A i \in 1..Len(p) : p[i].key = k \/ (i = 1 /\ \E r \in rivals : p[1] = Del(r))
    /\ \A r \in rivals : Exists(d, r) => p # <<>> /\ p[1] = Del(r)

ListRivals(f, n) == {ListKey(g, n) : g \in Families \ {f}}
PeerRivals(k) == {l \in Keys : l[1] = "peer" /\ l # k /\ SamePeer(k, l)}

Restates(d, p, k, m) ==
    /\ \A i \in 1..Len(p) : p[i].key = k
    /\ \A t \in Tags : Exists(d, RouterKey(t)) => RouterKey(t) = k
    /\ \A i \in 1..Len(p), n \in Nets :
          \/ p[i].upd[Statement(n)] \in {Keep, Absent}
          \/ /\ n = m
             /\ \A o \in Nets \ {m} :
                   HasNet(d, k, o) => \E j \in 1..(i - 1) : p[j].upd[Statement(o)] = Absent

ListPlan(d, p) ==
    \/ Avoids(p, "prefix-list")
    \/ \E f \in Families, n \in ListNames : Supplants(d, p, ListKey(f, n), ListRivals(f, n))
NetPlan(d, p) ==
    \/ Avoids(p, "router isis")
    \/ \E t \in Tags : \E m : Restates(d, p, RouterKey(t), m)
PeerPlan(d, p) ==
    \/ Avoids(p, "peer")
    \/ \E k : k[1] = "peer" /\ Supplants(d, p, k, PeerRivals(k))

\* The plan keeps every configuration on its way sound.
Heads(d, p) == IsSeq(p) /\ ListPlan(d, p) /\ NetPlan(d, p) /\ PeerPlan(d, p)

(***************************************************************************)
(* The inductive invariant: the handler that is writing holds the mutex of *)
(* the page and has a plan that keeps the configuration sound; one that is *)
(* about to delete a list has nothing else to do, and nobody uses it.      *)
(***************************************************************************)
Working(h) == pc[h] = "plain" => lock[page] = h /\ Heads(db, todo[h])
Resting(h) == pc[h] # "plain" => todo[h] = <<>>
Unbatched(h) == pc[h] \notin {"batch", "undoDel", "undoSet"}
Deleting(h) ==
    req[h].op = "delete list" /\ todo[h] # <<>> =>
        Len(todo[h]) = 1 /\ Users(db, req[h].name) = {}
HandlerOK(h) == Working(h) /\ Resting(h) /\ Unbatched(h) /\ Deleting(h)

Domains ==
    /\ DOMAIN lock = Features /\ page \in Features
    /\ DOMAIN pc = Handlers /\ DOMAIN todo = Handlers /\ DOMAIN req = Handlers
FrrInv ==
    /\ Domains
    /\ Sound(db) /\ Sound(saved)
    /\ \A h \in Handlers : HandlerOK(h)

----------------------------------------------------------------------------
(* One command of a plan.                                                  *)

\* The blocks are told apart by what they are and what they are called.
LEMMA BlocksApart ==
  /\ \A f, n : ListKey(f, n)[1] = "prefix-list"
  /\ \A n : MapKey(n)[1] = "route-map"
  /\ \A t : RouterKey(t)[1] = "router isis"
  /\ \A s, t : RouterKey(s) = RouterKey(t) => s = t
  /\ \A i : InterfaceKey(i)[1] = "interface"
  /\ \A m, n : Statement(m) = Statement(n) => m = n
  BY DEF ListKey, MapKey, RouterKey, InterfaceKey, Statement

LEMMA ListsApart ==
  ASSUME NEW f, NEW n, NEW g, NEW m, ListKey(f, n) = ListKey(g, m)
  PROVE  f = g /\ n = m
  BY DEF ListKey

\* The blocks the properties are about can be in the configuration.
LEMMA BlocksKnown ==
  /\ \A f \in Families, n \in ListNames : ListKey(f, n) \in Keys
  /\ \A n \in MapNames : MapKey(n) \in Keys
  /\ \A t \in Tags : RouterKey(t) \in Keys
  /\ \A n \in Nets : Statement(n) \in Fields
  <1>1. ASSUME NEW f \in Families, NEW n \in ListNames PROVE ListKey(f, n) \in Keys
    <2>1. ListKey(f, n) \in {ListKey(g, m) : g \in Families, m \in ListNames}
      OBVIOUS
    <2> QED
      BY <2>1, PolicyConstants
  <1>2. \A n \in MapNames : MapKey(n) \in Keys
    BY PolicyConstants
  <1>3. \A t \in Tags : RouterKey(t) \in Keys
    BY IsisConstants
  <1>4. \A n \in Nets : Statement(n) \in Fields
    BY IsisConstants
  <1> QED
    BY <1>1, <1>2, <1>3, <1>4

\* A replacement goes on as a replacement, and from its first line on there
\* is no rival.
LEMMA SupplantStep ==
  ASSUME NEW d, DOMAIN d = Keys, NEW p, IsSeq(p), p # <<>>,
         NEW k, NEW R, R \subseteq Keys, k \notin R, Supplants(d, p, k, R)
  PROVE  LET e == Issue(d, Head(p))
         IN  /\ Supplants(e, Tail(p), k, R)
             /\ \A r \in R : ~Exists(e, r)
             /\ \A j \in Keys : j # k /\ j \notin R => e[j] = d[j]
  <1> DEFINE c == Head(p)  e == Issue(d, c)  q == Tail(p)
  <1>1. /\ c = p[1] /\ Len(p) \in Nat /\ Len(p) >= 1 /\ Len(q) = Len(p) - 1
        /\ \A i \in 1..Len(q) : i + 1 \in 1..Len(p) /\ q[i] = p[i + 1]
    BY SeqNext
  <1>2. /\ \A j \in Keys : e[j] = IF j = c.key THEN Patched(d[j], c.upd) ELSE d[j]
    BY IssueRow
  <1>3. 1 \in 1..Len(p)
    BY <1>1
  <1>4. c.key = k \/ \E r \in R : c = Del(r)
    BY <1>1, <1>3 DEF Supplants
  <1>5. \A r : Del(r).key = r /\ \A x : Patched(x, Del(r).upd) = NoRow
    BY DelRow
  <1> HIDE DEF c, e, q
  <1>6. ASSUME NEW r \in R PROVE ~Exists(e, r)
    <2>1. CASE c = Del(r)
      <3>1. c.key = r /\ Patched(d[r], c.upd) = NoRow
        BY <1>5, <2>1
      <3> QED
        BY <1>2, <3>1 DEF Exists
    <2>2. CASE c # Del(r)
      <3>1. ~Exists(d, r)
        BY <1>1, <2>2 DEF Supplants
      <3>2. c.key # r
        BY <1>4, <1>5, <2>2
      <3> QED
        BY <1>2, <3>1, <3>2 DEF Exists
    <2> QED
      BY <2>1, <2>2
  <1>7. ASSUME NEW i \in 1..Len(q) PROVE q[i].key = k
    <2>1. i + 1 \in 1..Len(p) /\ i + 1 # 1
      BY <1>1
    <2> QED
      BY <1>1, <2>1 DEF Supplants
  <1>8. \A j \in Keys : j # k /\ j \notin R => e[j] = d[j]
    BY <1>2, <1>4, <1>5
  <1> QED
    BY <1>6, <1>7, <1>8 DEF Supplants, c, e, q

\* What is left of a plan avoids what the plan avoids, and so does its line.
LEMMA AvoidStep ==
  ASSUME NEW d, DOMAIN d = Keys, NEW p, IsSeq(p), p # <<>>, NEW table, Avoids(p, table)
  PROVE  LET e == Issue(d, Head(p))
         IN  Avoids(Tail(p), table) /\ \A j \in Keys : j[1] = table => e[j] = d[j]
  <1>1. /\ Head(p) = p[1] /\ Len(p) \in Nat /\ Len(p) >= 1
        /\ \A i \in 1..Len(Tail(p)) : i + 1 \in 1..Len(p) /\ Tail(p)[i] = p[i + 1]
    BY SeqNext
  <1>2. Head(p).key[1] # table
    BY <1>1 DEF Avoids
  <1>3. Avoids(Tail(p), table)
    BY <1>1 DEF Avoids
  <1> QED
    BY <1>2, <1>3, IssueRow

\* A line of a plan, for the prefix lists.
LEMMA ListStep ==
  ASSUME NEW d, Sound(d), NEW p, IsSeq(p), p # <<>>, ListPlan(d, p)
  PROVE  OneFam(Issue(d, Head(p))) /\ ListPlan(Issue(d, Head(p)), Tail(p))
  <1> DEFINE e == Issue(d, Head(p))
  <1>0. DOMAIN d = Keys /\ OneFam(d)
    BY DEF Sound
  <1>1. CASE Avoids(p, "prefix-list")
    <2>1. Avoids(Tail(p), "prefix-list") /\ \A j \in Keys : j[1] = "prefix-list" => e[j] = d[j]
      BY <1>0, <1>1, AvoidStep
    <2> HIDE DEF e
    <2>2. \A n \in ListNames, f \in Families : e[ListKey(f, n)] = d[ListKey(f, n)]
      BY <2>1, BlocksApart, BlocksKnown
    <2> QED
      BY <1>0, <2>1, <2>2 DEF OneFam, Exists, ListPlan, e
  <1>2. ASSUME NEW f \in Families, NEW n \in ListNames,
               Supplants(d, p, ListKey(f, n), ListRivals(f, n))
        PROVE  OneFam(e) /\ ListPlan(e, Tail(p))
    <2> DEFINE k == ListKey(f, n)  R == ListRivals(f, n)
    <2>0. \A r : r \in R <=> \E g \in Families : g # f /\ r = ListKey(g, n)
      BY DEF ListRivals
    <2>1. R \subseteq Keys /\ k \notin R
      <3>1. ASSUME NEW r \in R PROVE r \in Keys /\ r # k
        <4>1. PICK g \in Families : g # f /\ r = ListKey(g, n)
          BY <2>0, <3>1
        <4> QED
          BY <4>1, ListsApart, BlocksKnown, Zenon
      <3> QED
        BY <3>1
    <2>2. /\ Supplants(e, Tail(p), k, R)
          /\ \A r \in R : ~Exists(e, r)
          /\ \A j \in Keys : j # k /\ j \notin R => e[j] = d[j]
      BY <1>0, <1>2, <2>1, SupplantStep
    <2> HIDE DEF e, k, R
    <2>3. ASSUME NEW m \in ListNames, NEW a \in Families, NEW b \in Families,
                 Exists(e, ListKey(a, m)), Exists(e, ListKey(b, m))
          PROVE  a = b
      <3>1. CASE m = n
        <4>1. \A g \in Families : g # f => ListKey(g, n) \in R
          BY DEF R, ListRivals
        <4> QED
          BY <2>2, <2>3, <3>1, <4>1
      <3>2. CASE m # n
        <4>0. \A g \in Families : ListKey(g, m) \in Keys /\ ListKey(g, m) # k /\ ListKey(g, m) \notin R
          <5> TAKE g \in Families
          <5>1. ListKey(g, m) \in Keys /\ ListKey(g, m) # k
            BY <3>2, ListsApart, BlocksKnown, Zenon DEF k
          <5>2. \A a1 : ListKey(g, m) # ListKey(a1, n)
            BY <3>2, ListsApart, Zenon
          <5> QED
            BY <2>0, <5>1, <5>2
        <4>1. \A g \in Families : e[ListKey(g, m)] = d[ListKey(g, m)]
          BY <2>2, <4>0
        <4> QED
          BY <1>0, <2>3, <4>1 DEF OneFam, Exists
      <3> QED
        BY <3>1, <3>2
    <2> QED
      BY <2>2, <2>3 DEF OneFam, ListPlan, k, R
  <1> QED
    BY <1>1, <1>2 DEF ListPlan

\* A line of a plan, for the peers.
LEMMA PeerStep ==
  ASSUME NEW d, Sound(d), NEW p, IsSeq(p), p # <<>>, PeerPlan(d, p)
  PROVE  OnePeer(Issue(d, Head(p))) /\ PeerPlan(Issue(d, Head(p)), Tail(p))
  <1> DEFINE e == Issue(d, Head(p))
  <1>0. DOMAIN d = Keys /\ OnePeer(d)
    BY DEF Sound
  <1>1. CASE Avoids(p, "peer")
    <2>1. Avoids(Tail(p), "peer") /\ \A j \in Keys : j[1] = "peer" => e[j] = d[j]
      BY <1>0, <1>1, AvoidStep
    <2> HIDE DEF e
    <2>2. PeerRows(e) = PeerRows(d)
      BY <2>1 DEF PeerRows, Exists
    <2> QED
      BY <1>0, <2>1, <2>2 DEF OnePeer, PeerPlan, e
  <1>2. ASSUME NEW k, k[1] = "peer", Supplants(d, p, k, PeerRivals(k))
        PROVE  OnePeer(e) /\ PeerPlan(e, Tail(p))
    <2> DEFINE R == PeerRivals(k)
    <2>1. R \subseteq Keys /\ k \notin R
      BY DEF PeerRivals
    <2>2. /\ Supplants(e, Tail(p), k, R)
          /\ \A r \in R : ~Exists(e, r)
          /\ \A j \in Keys : j # k /\ j \notin R => e[j] = d[j]
      BY <1>0, <1>2, <2>1, SupplantStep
    <2> HIDE DEF e, R
    <2>3. ASSUME NEW a \in PeerRows(e), NEW b \in PeerRows(e), SamePeer(a, b) PROVE a = b
      <3>1. /\ a \in Keys /\ a[1] = "peer" /\ Exists(e, a) /\ a \notin R
            /\ b \in Keys /\ b[1] = "peer" /\ Exists(e, b) /\ b \notin R
        BY <2>2, <2>3 DEF PeerRows
      <3>2. CASE a = k \/ b = k
        BY <2>3, <3>1, <3>2 DEF R, PeerRivals, SamePeer
      <3>3. CASE a # k /\ b # k
        <4>1. a \in PeerRows(d) /\ b \in PeerRows(d)
          BY <2>2, <3>1, <3>3 DEF PeerRows, Exists
        <4> QED
          BY <1>0, <2>3, <4>1 DEF OnePeer
      <3> QED
        BY <3>2, <3>3
    <2> QED
      BY <1>2, <2>2, <2>3 DEF OnePeer, PeerPlan, R
  <1> QED
    BY <1>1, <1>2 DEF PeerPlan

\* A line of a plan, for the IS-IS instance and its NET.
LEMMA NetStep ==
  ASSUME NEW d, Sound(d), NEW p, IsSeq(p), p # <<>>, NetPlan(d, p)
  PROVE  LET e == Issue(d, Head(p))
         IN  OneTag(e) /\ OneNet(e) /\ NetPlan(e, Tail(p))
  <1> DEFINE e == Issue(d, Head(p))
  <1>0. DOMAIN d = Keys /\ OneTag(d) /\ OneNet(d)
    BY DEF Sound
  <1>1. CASE Avoids(p, "router isis")
    <2>1. Avoids(Tail(p), "router isis") /\ \A j \in Keys : j[1] = "router isis" => e[j] = d[j]
      BY <1>0, <1>1, AvoidStep
    <2> HIDE DEF e
    <2>2. \A t \in Tags : e[RouterKey(t)] = d[RouterKey(t)]
      BY <2>1, BlocksApart, BlocksKnown
    <2>3. OneTag(e)
      BY <1>0, <2>2 DEF OneTag, Exists
    <2>4. OneNet(e)
      BY <1>0, <2>2 DEF OneNet, HasNet
    <2> QED
      BY <2>1, <2>3, <2>4 DEF NetPlan, e
  <1>2. ASSUME NEW u \in Tags, NEW m, Restates(d, p, RouterKey(u), m)
        PROVE  OneTag(e) /\ OneNet(e) /\ NetPlan(e, Tail(p))
    <2> DEFINE k == RouterKey(u)  c == Head(p)  q == Tail(p)
    <2>1. /\ c = p[1] /\ Len(p) \in Nat /\ Len(p) >= 1 /\ Len(q) = Len(p) - 1
          /\ \A i \in 1..Len(q) : i + 1 \in 1..Len(p) /\ q[i] = p[i + 1]
      BY SeqNext
    <2>2. k \in Keys /\ c.key = k
      BY <1>2, <2>1, BlocksKnown DEF Restates
    <2>3. \A j \in Keys : e[j] = IF j = k THEN Patched(d[j], c.upd) ELSE d[j]
      BY <1>0, <2>2, IssueRow
    <2> HIDE DEF e, c, q
    <2>4. \A n \in Nets : e[k][Statement(n)] =
            IF c.upd[Statement(n)] = Keep THEN d[k][Statement(n)] ELSE c.upd[Statement(n)]
      BY <2>2, <2>3, BlocksKnown DEF Patched
    <2> HIDE DEF k
    <2>5. \A t \in Tags : Exists(d, RouterKey(t)) => RouterKey(t) = k
      BY <1>2 DEF Restates, k
    <2>6. \A t \in Tags : Exists(e, RouterKey(t)) => RouterKey(t) = k
      BY <2>3, <2>5, BlocksKnown DEF Exists
    <2>7. OneTag(e)
      BY <2>6, BlocksApart DEF OneTag
    <2>8. \A n \in Nets :
            \/ c.upd[Statement(n)] \in {Keep, Absent}
            \/ n = m /\ \A o \in Nets \ {m} : ~HasNet(d, k, o)
      <3>1. 1 \in 1..Len(p) /\ 1..(1 - 1) = {}
        BY <2>1
      <3> QED
        BY <1>2, <2>1, <3>1 DEF Restates, k
    <2>9. \A n \in Nets : HasNet(e, k, n) => HasNet(d, k, n) \/ (n = m /\ \A o \in Nets \ {m} : ~HasNet(d, k, o))
      BY <2>4, <2>8 DEF HasNet
    <2>10. \A n, o \in Nets : HasNet(d, k, n) /\ HasNet(d, k, o) => n = o
      BY <1>0 DEF OneNet, k
    <2>11. \A n, o \in Nets : HasNet(e, k, n) /\ HasNet(e, k, o) => n = o
      <3> SUFFICES ASSUME NEW n \in Nets, NEW o \in Nets, HasNet(e, k, n), HasNet(e, k, o)
                   PROVE  n = o
        OBVIOUS
      <3> QED
        BY <2>9, <2>10
    <2>12. OneNet(e)
      <3> SUFFICES ASSUME NEW t \in Tags, NEW a \in Nets, NEW b \in Nets,
                          HasNet(e, RouterKey(t), a), HasNet(e, RouterKey(t), b)
                   PROVE  a = b
        BY DEF OneNet
      <3>1. CASE RouterKey(t) = k
        BY <2>11, <3>1
      <3>2. CASE RouterKey(t) # k
        <4>1. e[RouterKey(t)] = d[RouterKey(t)]
          BY <2>3, <3>2, BlocksKnown
        <4> QED
          BY <1>0, <4>1 DEF OneNet, HasNet
      <3> QED
        BY <3>1, <3>2
    <2>13. \A i \in 1..Len(q) : q[i].key = k
      BY <1>2, <2>1 DEF Restates, k
    <2>14. ASSUME NEW i \in 1..Len(q), NEW n \in Nets, q[i].upd[Statement(n)] \notin {Keep, Absent}
           PROVE  /\ n = m
                  /\ \A o \in Nets \ {m} : HasNet(e, k, o) =>
                        \E j \in 1..(i - 1) : q[j].upd[Statement(o)] = Absent
      <3>1. i + 1 \in 1..Len(p) /\ q[i] = p[i + 1]
        BY <2>1
      <3>2. /\ n = m
            /\ \A o \in Nets \ {m} : HasNet(d, k, o) =>
                  \E j \in 1..((i + 1) - 1) : p[j].upd[Statement(o)] = Absent
        BY <1>2, <2>14, <3>1 DEF Restates, k
      <3>3. ASSUME NEW o \in Nets \ {m}, HasNet(e, k, o)
            PROVE  \E j \in 1..(i - 1) : q[j].upd[Statement(o)] = Absent
        <4>1. HasNet(d, k, o)
          BY <2>9, <3>3
        <4>2. PICK j \in 1..((i + 1) - 1) : p[j].upd[Statement(o)] = Absent
          BY <3>2, <4>1
        <4>3. j # 1
          BY <2>1, <2>4, <3>3, <4>2, StoreConstants DEF HasNet
        <4>4. j - 1 \in 1..(i - 1) /\ j - 1 \in 1..Len(q) /\ (j - 1) + 1 = j
          BY <2>1, <4>2, <4>3
        <4>5. q[j - 1] = p[j]
          BY <2>1, <4>4
        <4> QED
          BY <4>2, <4>4, <4>5
      <3> QED
        BY <3>2, <3>3
    <2>15. Restates(e, q, k, m)
      BY <2>6, <2>13, <2>14 DEF Restates
    <2> QED
      BY <2>7, <2>12, <2>15 DEF NetPlan, k, q
  <1> QED
    BY <1>1, <1>2 DEF NetPlan

\* A line of a plan that keeps the configuration sound.
LEMMA PlanStep ==
  ASSUME NEW d, Sound(d), NEW p, p # <<>>, Heads(d, p)
  PROVE  Sound(Issue(d, Head(p))) /\ Heads(Issue(d, Head(p)), Tail(p))
  <1>1. IsSeq(p) /\ ListPlan(d, p) /\ NetPlan(d, p) /\ PeerPlan(d, p) /\ DOMAIN d = Keys
    BY DEF Heads, Sound
  <1>2. DOMAIN Issue(d, Head(p)) = Keys /\ IsSeq(Tail(p))
    BY <1>1, IssueRow, SeqNext
  <1> QED
    BY <1>1, <1>2, ListStep, NetStep, PeerStep DEF Heads, Sound

----------------------------------------------------------------------------
(* The plans of the requests.                                              *)

\* All lines of a plan are about one block.
AllOn(p, k) == IsSeq(p) /\ \A i \in 1..Len(p) : p[i].key = k

\* The line names the block.
LEMMA LineKeys ==
  ASSUME NEW k, NEW w, NEW v, NEW on
  PROVE  /\ Open(k).key = k /\ Set(k, w, v).key = k /\ No(k, w).key = k /\ Del(k).key = k
         /\ Switched(k, w, on).key = k /\ OptionalLine(k, w, v).key = k
  BY DEF Open, Set, No, Del, Switched, OptionalLine, HSetField, HSet, HDel

LEMMA AllOnUnit ==
  ASSUME NEW c
  PROVE  AllOn(<<c>>, c.key)
  <1>1. IsSeq(<<c>>) /\ Len(<<c>>) = 1 /\ <<c>>[1] = c
    BY SeqUnit
  <1> QED
    BY <1>1 DEF AllOn

LEMMA AllOnNone ==
  ASSUME NEW k
  PROVE  AllOn(<<>>, k)
  BY SeqEmpty DEF AllOn

LEMMA AllOnJoin ==
  ASSUME NEW p, NEW q, NEW k, AllOn(p, k), AllOn(q, k)
  PROVE  AllOn(p \o q, k)
  <1>1. /\ IsSeq(p \o q) /\ Len(p) \in Nat /\ Len(q) \in Nat /\ Len(p \o q) = Len(p) + Len(q)
        /\ \A i \in 1..Len(p \o q) :
              (p \o q)[i] = IF i <= Len(p) THEN p[i] ELSE q[i - Len(p)]
    BY SeqJoin DEF AllOn
  <1>2. ASSUME NEW i \in 1..Len(p \o q) PROVE (p \o q)[i].key = k
    <2>1. CASE i <= Len(p)
      BY <1>1, <2>1 DEF AllOn
    <2>2. CASE ~(i <= Len(p))
      <3>1. i - Len(p) \in 1..Len(q)
        BY <1>1, <2>2
      <3> QED
        BY <1>1, <2>2, <3>1 DEF AllOn
    <2> QED
      BY <2>1, <2>2
  <1> QED
    BY <1>1, <1>2 DEF AllOn

\* A plan for one table leaves the others alone.
LEMMA OtherTables ==
  ASSUME NEW p, NEW table, \A i \in 1..Len(p) : p[i].key[1] = table,
         NEW other, other # table
  PROVE  Avoids(p, other)
  BY DEF Avoids

\* A block that has no rival is written or removed.
LEMMA SupplantsNone ==
  ASSUME NEW d, NEW q, NEW k, AllOn(q, k), NEW R, \A r \in R : ~Exists(d, r)
  PROVE  Supplants(d, q, k, R)
  BY DEF Supplants, AllOn

\* A block is written after its old form, or its only rival, was removed.
LEMMA SupplantsOne ==
  ASSUME NEW d, NEW q, NEW k, AllOn(q, k), NEW R, NEW r, r = k \/ r \in R,
         \A s \in R : Exists(d, s) => s = r
  PROVE  /\ IsSeq(<<Del(r)>> \o q)
         /\ Supplants(d, <<Del(r)>> \o q, k, R)
         /\ \A table : k[1] = table /\ r[1] = table =>
               \A i \in 1..Len(<<Del(r)>> \o q) : (<<Del(r)>> \o q)[i].key[1] = table
  <1> DEFINE u == <<Del(r)>>  p == u \o q
  <1>1. IsSeq(u) /\ Len(u) = 1 /\ u[1] = Del(r) /\ Del(r).key = r
    BY SeqUnit, DelRow
  <1> HIDE DEF u
  <1>2. /\ IsSeq(p) /\ Len(q) \in Nat /\ Len(p) = 1 + Len(q)
        /\ \A i \in 1..Len(p) : p[i] = IF i <= 1 THEN u[i] ELSE q[i - 1]
    BY <1>1, SeqJoin DEF AllOn
  <1> HIDE DEF p
  <1>3. p[1] = Del(r) /\ p # <<>>
    BY <1>1, <1>2, SeqLen
  <1>4. ASSUME NEW i \in 1..Len(p), i # 1 PROVE p[i].key = k
    <2>1. i - 1 \in 1..Len(q) /\ ~(i <= 1)
      BY <1>2, <1>4
    <2> QED
      BY <1>2, <2>1 DEF AllOn
  <1>5. ASSUME NEW i \in 1..Len(p)
        PROVE  p[i].key = k \/ (i = 1 /\ \E x \in R : p[1] = Del(x))
    <2>1. CASE i = 1
      BY <1>1, <1>3, <2>1
    <2>2. CASE i # 1
      BY <1>4, <2>2
    <2> QED
      BY <2>1, <2>2
  <1>6. ASSUME NEW s \in R, Exists(d, s) PROVE p # <<>> /\ p[1] = Del(s)
    BY <1>3, <1>6
  <1>7. Supplants(d, p, k, R)
    BY <1>5, <1>6 DEF Supplants
  <1>8. ASSUME NEW table, k[1] = table, r[1] = table, NEW i \in 1..Len(p)
        PROVE  p[i].key[1] = table
    <2>1. CASE i = 1
      BY <1>1, <1>3, <1>8, <2>1
    <2>2. CASE i # 1
      BY <1>4, <1>8, <2>2
    <2> QED
      BY <2>1, <2>2
  <1> QED
    BY <1>2, <1>7, <1>8 DEF p, u

\* The plan of a request on a table no property is about.
LEMMA PlainPlan ==
  ASSUME NEW d, NEW p, NEW k, AllOn(p, k), k[1] \notin {"prefix-list", "router isis", "peer"}
  PROVE  Heads(d, p)
  BY DEF Heads, AllOn, ListPlan, NetPlan, PeerPlan, Avoids

\* No plan at all.
LEMMA EmptyPlan ==
  ASSUME NEW d
  PROVE  Heads(d, <<>>)
  BY SeqEmpty DEF Heads, ListPlan, NetPlan, PeerPlan, Avoids

\* put_prefix_list: the list that is there goes first, whichever family it has.
LEMMA PutListPlan ==
  ASSUME NEW d, Sound(d), NEW n \in ListNames, NEW in \in ListInputs, in.family \in Families,
         NEW cur \in prefix_list(d, n)
  PROVE  Heads(d, ListLines(cur, n, in))
  <1> DEFINE f == in.family  k == ListKey(f, n)  R == ListRivals(f, n)  q == RuleLines(n, in)
             p == ListLines(cur, n, in)
  <1>1. AllOn(q, k)
    <2>1. in.rules \in Seq(Range(in.rules))
      BY PolicyConstants
    <2>2. Len(in.rules) \in Nat /\ DOMAIN in.rules = 1..Len(in.rules)
      BY <2>1, LenProperties
    <2>3. \A i \in 1..Len(in.rules) : q[i].key = k
      BY <2>2 DEF RuleLines, HSetField, HSet
    <2>4. q \in Seq({q[i] : i \in 1..Len(in.rules)}) /\ Len(q) = Len(in.rules)
      <3>1. q \in [1..Len(in.rules) -> {q[i] : i \in 1..Len(in.rules)}]
        BY <2>2 DEF RuleLines
      <3> QED
        BY <2>2, <3>1
    <2> QED
      BY <2>3, <2>4 DEF AllOn, IsSeq
  <1>2. \A r : r \in R <=> \E g \in Families : g # f /\ r = ListKey(g, n)
    BY DEF ListRivals
  <1>3. \A g \in Families : ListKey(g, n)[1] = "prefix-list"
    BY BlocksApart
  <1>4. OneFam(d)
    BY DEF Sound
  <1> HIDE DEF k, R, q
  <1>5. /\ IsSeq(p) /\ Supplants(d, p, k, R)
        /\ \A i \in 1..Len(p) : p[i].key[1] = "prefix-list"
    <2>1. CASE cur = Absent
      <3>1. \A g \in Families : ~Exists(d, ListKey(g, n))
        BY <2>1, PolicyConstants DEF prefix_list
      <3>2. \A r \in R : ~Exists(d, r)
        BY <1>2, <3>1
      <3>3. p = <<>> \o q
        BY <2>1 DEF ListLines, q
      <3>4. AllOn(p, k)
        BY <1>1, <3>3, AllOnJoin, AllOnNone
      <3> QED
        BY <1>3, <3>2, <3>4, SupplantsNone DEF AllOn, k
    <2>2. CASE cur # Absent
      <3>1. cur \in Families /\ Exists(d, ListKey(cur, n))
        BY <2>2 DEF prefix_list
      <3>2. ASSUME NEW r \in R, Exists(d, r) PROVE r = ListKey(cur, n)
        <4>1. PICK g \in Families : r = ListKey(g, n)
          BY <1>2
        <4> QED
          BY <1>4, <3>1, <3>2, <4>1 DEF OneFam
      <3>3. ListKey(cur, n) = k \/ ListKey(cur, n) \in R
        BY <1>2, <3>1 DEF k
      <3>4. p = <<Del(ListKey(cur, n))>> \o q
        BY <2>2 DEF ListLines, q
      <3>5. k[1] = "prefix-list" /\ ListKey(cur, n)[1] = "prefix-list"
        BY <1>3, <3>1 DEF k
      <3> HIDE DEF p
      <3> QED
        BY <1>1, <3>2, <3>3, <3>4, <3>5, SupplantsOne
    <2> QED
      BY <2>1, <2>2
  <1> HIDE DEF p
  <1>6. Avoids(p, "router isis") /\ Avoids(p, "peer")
    BY <1>5 DEF Avoids
  <1> QED
    BY <1>5, <1>6 DEF Heads, ListPlan, NetPlan, PeerPlan, k, R, p

\* delete_prefix_list.
LEMMA DeleteListPlan ==
  ASSUME NEW d, Sound(d), NEW n \in ListNames, NEW cur \in prefix_list(d, n), cur # Absent
  PROVE  Heads(d, <<Del(ListKey(cur, n))>>) /\ Len(<<Del(ListKey(cur, n))>>) = 1
  <1> DEFINE k == ListKey(cur, n)  R == ListRivals(cur, n)  p == <<Del(k)>>
  <1>1. cur \in Families /\ Exists(d, k) /\ OneFam(d)
    BY DEF prefix_list, Sound
  <1>2. \A r \in R : ~Exists(d, r)
    BY <1>1 DEF OneFam, ListRivals
  <1>3. AllOn(p, k) /\ Len(p) = 1
    BY AllOnUnit, SeqUnit, LineKeys
  <1>4. k[1] = "prefix-list"
    BY BlocksApart
  <1> HIDE DEF k, R, p
  <1>5. Supplants(d, p, k, R)
    BY <1>2, <1>3, SupplantsNone
  <1>6. Avoids(p, "router isis") /\ Avoids(p, "peer")
    BY <1>3, <1>4 DEF Avoids, AllOn
  <1> QED
    BY <1>1, <1>3, <1>5, <1>6 DEF Heads, ListPlan, NetPlan, PeerPlan, AllOn, k, R, p

LEMMA SeqOfFcn ==
  ASSUME NEW m \in Nat, NEW T, NEW b \in [1..m -> T]
  PROVE  b \in Seq(T) /\ Len(b) = m
  OBVIOUS

\* put_route_map.
LEMMA MapPlan ==
  ASSUME NEW n \in MapNames, NEW in \in MapInputs
  PROVE  Heads(db, MapLines(n, in))
  <1> DEFINE k == MapKey(n)  S == {c \in UNION {Range(entry_lines(n, in[i])) : i \in DOMAIN in} : c.key = k}
             es == [i \in DOMAIN in |-> entry_lines(n, in[i])]
  <1>1. in \in Seq(Range(in)) /\ Len(in) \in Nat /\ DOMAIN in = 1..Len(in)
    BY PolicyConstants, LenProperties
  <1>2. ASSUME NEW i \in DOMAIN in
        PROVE  entry_lines(n, in[i]) \in Seq(S)
    <2> DEFINE e == in[i]  cl == SetToSeq(DOMAIN e.clauses)
               a == HSetField(k, <<e.seq, "action">>, <<e.action>>)
               b == [j \in DOMAIN cl |-> HSetField(k, <<e.seq, cl[j]>>, <<e.clauses[cl[j]]>>)]
    <2>1. IsFiniteSet(DOMAIN e.clauses)
      BY PolicyConstants
    <2>2. PICK m \in Nat : DOMAIN cl = 1..m
      BY <2>1, SeqOfSet
    <2>3. a.key = k /\ \A j \in 1..m : b[j].key = k
      BY <2>2 DEF HSetField, HSet
    <2>4. b \in [1..m -> {b[j] : j \in 1..m}]
      BY <2>2
    <2>5. b \in Seq({b[j] : j \in 1..m}) /\ Len(b) = m
      <3> DEFINE B == {b[j] : j \in 1..m}
      <3>1. b \in [1..m -> B]
        BY <2>4
      <3> HIDE DEF b, B
      <3>2. b \in Seq(B) /\ Len(b) = m
        BY <3>1, SeqOfFcn
      <3> QED
        BY <3>2 DEF B
    <2>6. AllOn(b, k)
      BY <2>3, <2>5 DEF AllOn, IsSeq
    <2>7. AllOn(<<a>>, k)
      BY <2>3, AllOnUnit
    <2>8. entry_lines(n, e) = <<a>> \o b
      BY DEF entry_lines
    <2> HIDE DEF a, b, e
    <2>9. AllOn(entry_lines(n, e), k)
      BY <2>6, <2>7, <2>8, AllOnJoin
    <2>10. PICK T : entry_lines(n, e) \in Seq(T)
      BY <2>9 DEF AllOn, IsSeq
    <2> DEFINE l == entry_lines(n, e)
    <2>11. Len(l) \in Nat /\ DOMAIN l = 1..Len(l)
      BY <2>10, LenProperties
    <2>12. \A j \in 1..Len(l) : l[j] \in Range(l) /\ l[j].key = k
      BY <2>9, <2>11 DEF AllOn, Range
    <2>13. Range(l) \in {Range(entry_lines(n, in[x])) : x \in DOMAIN in}
      BY DEF e
    <2>14. \A j \in 1..Len(l) : l[j] \in S
      BY <2>12, <2>13
    <2> HIDE DEF S, l
    <2>15. l \in [1..Len(l) -> S]
      <3>1. l = [j \in 1..Len(l) |-> l[j]]
        BY <2>10, LenProperties DEF l
      <3> QED
        BY <2>14, <3>1
    <2> QED
      BY <2>11, <2>15 DEF l, e
  <1> HIDE DEF S
  <1>3. es \in [1..Len(in) -> Seq(S)]
    BY <1>1, <1>2
  <1>4. es \in Seq(Seq(S))
    BY <1>1, <1>3
  <1> HIDE DEF es
  <1>5. FlattenSeq(es) \in Seq(S)
    BY <1>4, FlattenShape
  <1>6. AllOn(FlattenSeq(es), k)
    <2>1. \A i \in 1..Len(FlattenSeq(es)) : FlattenSeq(es)[i] \in S
      BY <1>5
    <2> QED
      BY <1>5, <2>1 DEF AllOn, IsSeq, S
  <1>7. AllOn(IF route_map(db, n) THEN <<Del(k)>> ELSE <<>>, k)
    BY AllOnUnit, AllOnNone, LineKeys
  <1>8. AllOn(MapLines(n, in), k)
    BY <1>6, <1>7, AllOnJoin DEF MapLines, es
  <1> QED
    BY <1>8, PlainPlan, BlocksApart

\* delete_route_map.
LEMMA DeleteMapPlan ==
  ASSUME NEW d, NEW n
  PROVE  Heads(d, <<Del(MapKey(n))>>)
  <1>1. AllOn(<<Del(MapKey(n))>>, MapKey(n))
    BY AllOnUnit, LineKeys
  <1> QED
    BY <1>1, PlainPlan, BlocksApart

\* put_isis_interface.
LEMMA InterfacePlan ==
  ASSUME NEW d, NEW tag, NEW i, NEW in
  PROVE  Heads(d, InterfaceLines(tag, i, in))
  <1> DEFINE k == InterfaceKey(i)  p == InterfaceLines(tag, i, in)
  <1>1. CASE ~in.enabled
    <2> DEFINE a == Open(k)  b == No(k, "ip router isis")
    <2>1. a.key = k /\ b.key = k
      BY LineKeys
    <2>2. p = <<a, b>>
      BY <1>1 DEF InterfaceLines
    <2> HIDE DEF a, b, k, p
    <2>3. <<a, b>> \in Seq({a, b}) /\ Len(<<a, b>>) = 2
      OBVIOUS
    <2>4. IsSeq(p)
      BY <2>2, <2>3 DEF IsSeq
    <2>5. \A j \in 1..Len(p) : p[j].key = k
      BY <2>1, <2>2, <2>3
    <2>6. AllOn(p, k)
      BY <2>4, <2>5 DEF AllOn
    <2> QED
      BY <2>6, PlainPlan, BlocksApart DEF k, p
  <1>2. CASE in.enabled
    <2> DEFINE a == Open(k)
               b == Set(k, "ip router isis", <<tag>>)
               c == OptionalLine(k, "circuit-type",
                      IF in.circuit_type = Absent THEN Absent ELSE <<level_to_frr(in.circuit_type)>>)
               e == OptionalLine(k, "metric",
                      IF in.metric = Absent THEN Absent ELSE <<"metric", in.metric>>)
               f == Switched(k, "passive", in.passive)
               g == Switched(k, "point-to-point", in.point_to_point)
    <2>1. a.key = k /\ b.key = k /\ c.key = k /\ e.key = k /\ f.key = k /\ g.key = k
      <3>1. a.key = k
        BY LineKeys
      <3>2. b.key = k
        BY DEF Set, HSetField, HSet
      <3>3. c.key = k
        BY LineKeys
      <3>4. e.key = k
        BY LineKeys
      <3>5. f.key = k
        BY LineKeys
      <3>6. g.key = k
        BY LineKeys
      <3> HIDE DEF a, b, c, e, f, g, k
      <3> QED
        BY <3>1, <3>2, <3>3, <3>4, <3>5, <3>6
    <2>2. p = <<a, b, c, e, f, g>>
      BY <1>2 DEF InterfaceLines
    <2> HIDE DEF a, b, c, e, f, g, k, p
    <2>3. /\ <<a, b, c, e, f, g>> \in Seq({a, b, c, e, f, g})
          /\ Len(<<a, b, c, e, f, g>>) = 6
      OBVIOUS
    <2>4. IsSeq(p)
      BY <2>2, <2>3 DEF IsSeq
    <2>5. \A j \in 1..Len(p) : p[j].key = k
      BY <2>1, <2>2, <2>3
    <2>6. AllOn(p, k)
      BY <2>4, <2>5 DEF AllOn
    <2> QED
      BY <2>6, PlainPlan, BlocksApart DEF k, p
  <1> QED
    BY <1>1, <1>2

\* The instance the page works on is the only one.
LEMMA TheTag ==
  ASSUME NEW d, Sound(d), NEW tag \in tags(d)
  PROVE  /\ tag_of(tag) \in Tags
         /\ \A t \in Tags : Exists(d, RouterKey(t)) => RouterKey(t) = RouterKey(tag_of(tag))
         /\ tag # Absent => tag \in Tags /\ tag_of(tag) = tag
         /\ tag = Absent => \A t \in Tags : ~Exists(d, RouterKey(t))
  <1>1. OneTag(d) /\ "1" \in Tags /\ Absent \notin Tags
    BY IsisConstants DEF Sound
  <1>2. CASE tag = Absent
    <2>1. \A t \in Tags : ~Exists(d, RouterKey(t))
      BY <1>1, <1>2 DEF tags
    <2> QED
      BY <1>1, <1>2, <2>1 DEF tag_of, OrElse
  <1>3. CASE tag # Absent
    <2>1. tag \in Tags /\ Exists(d, RouterKey(tag))
      BY <1>3 DEF tags
    <2> QED
      BY <1>1, <1>3, <2>1 DEF tag_of, OrElse, OneTag
  <1> QED
    BY <1>2, <1>3

\* put_isis_instance without a NET.
LEMMA DeleteInstancePlan ==
  ASSUME NEW d, Sound(d), NEW tag \in tags(d), tag # Absent
  PROVE  Heads(d, <<Del(RouterKey(tag))>>)
  <1> DEFINE k == RouterKey(tag)  p == <<Del(k)>>
  <1>1. tag \in Tags /\ \A t \in Tags : Exists(d, RouterKey(t)) => RouterKey(t) = k
    BY TheTag
  <1>2. AllOn(p, k) /\ Len(p) = 1 /\ p[1].upd = NoRow
    BY AllOnUnit, SeqUnit, LineKeys, DelRow
  <1>3. k[1] = "router isis"
    BY BlocksApart
  <1> HIDE DEF k, p
  <1>4. \A i \in 1..Len(p), n \in Nets : p[i].upd[Statement(n)] = Absent
    BY <1>2, BlocksKnown DEF NoRow
  <1>5. Restates(d, p, k, Absent)
    BY <1>1, <1>2, <1>4 DEF Restates, AllOn
  <1>6. Avoids(p, "prefix-list") /\ Avoids(p, "peer")
    BY <1>2, <1>3 DEF Avoids, AllOn
  <1> QED
    BY <1>1, <1>2, <1>5, <1>6 DEF Heads, ListPlan, NetPlan, PeerPlan, AllOn, k, p

\* The lines of the instance that state no NET.
LEMMA OtherLines ==
  ASSUME NEW k, NEW n \in Nets, NEW v, NEW on
  PROVE  /\ Open(k).upd[Statement(n)] = Keep
         /\ Set(k, "is-type", v).upd[Statement(n)] = Keep
         /\ Switched(k, "no hostname dynamic", on).upd[Statement(n)] = Keep
         /\ \A o : No(k, o).upd[Statement(n)] \in {Keep, Absent}
         /\ No(k, n).upd[Statement(n)] = Absent
         /\ \A m : m # n => Set(k, m, v).upd[Statement(n)] = Keep
  <1>1. /\ Statement(n) \in Fields
        /\ n # "opened" /\ n # "is-type" /\ n # "no hostname dynamic"
    BY BlocksKnown, IsisConstants
  <1>2. \A m : m # n => Statement(m) # Statement(n)
    BY BlocksApart
  <1>3. ASSUME NEW m, m # n, NEW x
        PROVE  /\ HSetField(k, Statement(m), x).upd[Statement(n)] = Keep
               /\ HDel(k, {Statement(m)}).upd[Statement(n)] = Keep
    <2>1. Statement(n) # Statement(m)
      BY <1>2, <1>3
    <2> QED
      BY <1>1, <2>1 DEF HSetField, HSet, HDel
  <1>4. Open(k).upd[Statement(n)] = Keep
    BY <1>1, <1>3 DEF Open
  <1>5. Switched(k, "no hostname dynamic", on).upd[Statement(n)] = Keep
    BY <1>1, <1>3 DEF Switched, Set, No
  <1>6. Set(k, "is-type", v).upd[Statement(n)] = Keep
    BY <1>1, <1>3 DEF Set
  <1>7. No(k, n).upd[Statement(n)] = Absent
    BY <1>1 DEF No, HDel
  <1>8. \A o : No(k, o).upd[Statement(n)] \in {Keep, Absent}
    BY <1>1 DEF No, HDel
  <1>9. \A m : m # n => Set(k, m, v).upd[Statement(n)] = Keep
    BY <1>3 DEF Set
  <1> QED
    BY <1>4, <1>5, <1>6, <1>7, <1>8, <1>9

LEMMA OtherNet ==
  ASSUME NEW k, NEW n \in Nets, NEW m, m # n, NEW v
  PROVE  Set(k, m, v).upd[Statement(n)] = Keep
  <1>1. Statement(n) \in Fields /\ Statement(n) # Statement(m)
    BY BlocksKnown, BlocksApart
  <1> HIDE DEF Statement
  <1> QED
    BY <1>1 DEF Set, HSetField, HSet

\* put_isis_instance with a NET: the old one is withdrawn before it is stated.
LEMMA InstancePlan ==
  ASSUME NEW d, Sound(d), NEW tag \in tags(d), NEW old \in nets(d, tag), NEW in, in.net \in Nets
  PROVE  Heads(d, InstanceLines(tag_of(tag), old, in))
  <1> DEFINE t == tag_of(tag)  k == RouterKey(t)  m == in.net
             a == Open(k)  b == No(k, old)  c == Set(k, m, <<"yes">>)
             e == Set(k, "is-type", <<level_to_frr(in.level)>>)
             f == Switched(k, "no hostname dynamic", ~in.hostname)
             mid == IF old \in {Absent, m} THEN <<>> ELSE <<b>>
             x == <<a>> \o mid  y == <<c, e, f>>  p == InstanceLines(t, old, in)
  <1>1. /\ t \in Tags
        /\ \A u \in Tags : Exists(d, RouterKey(u)) => RouterKey(u) = k
        /\ tag # Absent => tag \in Tags /\ t = tag
        /\ tag = Absent => ~Exists(d, k)
    BY TheTag
  <1>2. a.key = k /\ b.key = k
    BY LineKeys
  <1>3. c.key = k /\ e.key = k
    BY DEF Set, HSetField, HSet
  <1>4. f.key = k
    BY DEF Switched, Set, No, HSetField, HSet, HDel
  <1>5. \A n \in Nets :
          /\ a.upd[Statement(n)] = Keep /\ e.upd[Statement(n)] = Keep /\ f.upd[Statement(n)] = Keep
          /\ b.upd[Statement(n)] \in {Keep, Absent} /\ (n = old => b.upd[Statement(n)] = Absent)
          /\ n # m => c.upd[Statement(n)] = Keep
    <2> TAKE n \in Nets
    <2>1. a.upd[Statement(n)] = Keep
      BY OtherLines
    <2>2. e.upd[Statement(n)] = Keep
      BY OtherLines
    <2>3. f.upd[Statement(n)] = Keep
      BY OtherLines
    <2>4. b.upd[Statement(n)] \in {Keep, Absent} /\ (n = old => b.upd[Statement(n)] = Absent)
      BY OtherLines
    <2>5. n # m => c.upd[Statement(n)] = Keep
      <3> HIDE DEF k, m
      <3> QED
        BY OtherNet
    <2> HIDE DEF a, b, c, e, f, m
    <2> QED
      BY <2>1, <2>2, <2>3, <2>4, <2>5
  <1>6. p = x \o y
    BY DEF InstanceLines
  <1>7. k[1] = "router isis" /\ k \in Keys
    BY <1>1, BlocksApart, BlocksKnown
  <1>8. ASSUME NEW o \in Nets \ {m}, HasNet(d, k, o)
        PROVE  old = o /\ mid = <<b>>
    <2>1. d[k] # NoRow
      BY <1>8, BlocksKnown DEF HasNet, NoRow
    <2>2. tag # Absent /\ t = tag /\ tag \in Tags
      BY <1>1, <2>1 DEF Exists
    <2>3. o \in {n \in Nets : tag # Absent /\ Held(d, RouterKey(tag), n) # Absent}
      BY <1>8, <2>2 DEF HasNet, Held
    <2>4. old \in Nets /\ HasNet(d, k, old)
      BY <2>2, <2>3 DEF nets, Held, HasNet
    <2>5. old = o
      BY <1>8, <2>2, <2>4 DEF Sound, OneNet
    <2>6. o # Absent
      BY DEF Nets
    <2> QED
      BY <2>5, <2>6
  <1> HIDE DEF k, a, b, c, e, f, m, t, p
  <1>9. y \in Seq({c, e, f}) /\ Len(y) = 3 /\ y[1] = c /\ y[2] = e /\ y[3] = f
    OBVIOUS
  <1> HIDE DEF y
  <1>10. IsSeq(y)
    BY <1>9 DEF IsSeq
  <1>11. IsSeq(<<a>>) /\ Len(<<a>>) = 1 /\ <<a>>[1] = a
    BY SeqUnit
  <1>12. IsSeq(<<b>>) /\ Len(<<b>>) = 1 /\ <<b>>[1] = b
    BY SeqUnit
  <1>13. IsSeq(mid) /\ (mid = <<>> \/ mid = <<b>>) /\ Len(<<>>) = 0
    BY <1>12, SeqEmpty
  <1> HIDE DEF mid
  <1>14. /\ IsSeq(x) /\ Len(x) = 1 + Len(mid) /\ Len(mid) \in Nat
         /\ \A i \in 1..Len(x) : x[i] = IF i <= 1 THEN <<a>>[i] ELSE mid[i - 1]
    BY <1>11, <1>13, SeqJoin
  <1> HIDE DEF x
  <1>15. /\ Len(x) \in {1, 2} /\ x[1] = a
         /\ \A i \in 1..Len(x) : x[i] = a \/ x[i] = b
         /\ mid = <<b>> => Len(x) = 2 /\ x[2] = b
    <2>1. CASE mid = <<>>
      <3>1. Len(x) = 1 /\ mid # <<b>>
        BY <1>12, <1>13, <1>14, <2>1
      <3>2. x[1] = a
        BY <1>11, <1>14, <3>1
      <3> HIDE DEF a, b
      <3> QED
        BY ONLY <3>1, <3>2
    <2>2. CASE mid = <<b>>
      <3>1. Len(x) = 2 /\ x[1] = <<a>>[1] /\ x[2] = mid[1]
        BY <1>12, <1>14, <2>2
      <3> QED
        BY <1>11, <1>12, <2>2, <3>1
    <2> QED
      BY <1>13, <2>1, <2>2
  <1>16. /\ IsSeq(p) /\ Len(p) = Len(x) + 3
         /\ \A i \in 1..Len(p) : p[i] = IF i <= Len(x) THEN x[i] ELSE y[i - Len(x)]
    <2>1. /\ IsSeq(x \o y) /\ Len(x \o y) = Len(x) + Len(y)
          /\ \A i \in 1..Len(x \o y) : (x \o y)[i] = IF i <= Len(x) THEN x[i] ELSE y[i - Len(x)]
      BY <1>10, <1>14, SeqJoin
    <2> QED
      BY <1>6, <1>9, <2>1
  <1>17. ASSUME NEW i \in 1..Len(p)
         PROVE  \/ p[i] \in {a, b, e, f}
                \/ p[i] = c /\ i = Len(x) + 1
    <2>1. CASE i <= Len(x)
      <3>1. i \in 1..Len(x)
        BY <1>15, <2>1
      <3> QED
        BY <1>15, <1>16, <2>1, <3>1
    <2>2. CASE ~(i <= Len(x))
      <3>1. i - Len(x) \in {1, 2, 3} /\ p[i] = y[i - Len(x)]
        BY <1>15, <1>16, <2>2
      <3>2. i - Len(x) = 1 => i = Len(x) + 1
        BY <1>15
      <3> QED
        BY <1>9, <3>1, <3>2
    <2> QED
      BY <2>1, <2>2
  <1>18. AllOn(p, k)
    BY <1>2, <1>3, <1>4, <1>16, <1>17 DEF AllOn
  <1>19. ASSUME NEW i \in 1..Len(p), NEW n \in Nets,
                p[i].upd[Statement(n)] \notin {Keep, Absent}
         PROVE  /\ n = m
                /\ \A o \in Nets \ {m} : HasNet(d, k, o) =>
                      \E j \in 1..(i - 1) : p[j].upd[Statement(o)] = Absent
    <2>1. p[i] = c /\ i = Len(x) + 1
      BY <1>5, <1>17, <1>19
    <2>2. n = m
      BY <1>5, <1>19, <2>1
    <2>3. ASSUME NEW o \in Nets \ {m}, HasNet(d, k, o)
          PROVE  \E j \in 1..(i - 1) : p[j].upd[Statement(o)] = Absent
      <3>1. old = o /\ Len(x) = 2 /\ x[2] = b
        BY <1>8, <1>15, <2>3
      <3>2. 2 \in 1..(i - 1) /\ p[2] = b
        BY <1>16, <2>1, <3>1
      <3> QED
        BY <1>5, <3>1, <3>2
    <2> QED
      BY <2>2, <2>3
  <1>20. Restates(d, p, k, m)
    BY <1>1, <1>18, <1>19 DEF Restates, AllOn
  <1>21. Avoids(p, "prefix-list") /\ Avoids(p, "peer")
    BY <1>7, <1>18 DEF Avoids, AllOn
  <1> QED
    BY <1>1, <1>18, <1>20, <1>21 DEF Heads, ListPlan, NetPlan, PeerPlan, AllOn, k, p, t

\* The lines of a peer are about its own block.
LEMMA PeerBlock ==
  ASSUME NEW in
  PROVE  AllOn(PeerLines(in), identity_of(in)) /\ identity_of(in)[1] = "peer"
  <1> DEFINE k == identity_of(in)
             g1 == GivenLine(k, "receive-interval", in.rx)
             g2 == GivenLine(k, "transmit-interval", in.tx)
             g3 == GivenLine(k, "detect-multiplier", in.mult)
             g4 == IF in.passive THEN <<Set(k, "passive-mode", <<"yes">>)>> ELSE <<>>
             g5 == <<Switched(k, "shutdown", in.shutdown)>>
             g0 == <<Open(k)>>
  <1>0. k[1] = "peer"
    BY DEF identity_of
  <1> HIDE DEF k
  <1>1. \A w, v : AllOn(GivenLine(k, w, v), k)
    <2> TAKE w, v
    <2>1. Set(k, w, <<w, v>>).key = k
      BY DEF Set, HSetField, HSet
    <2>2. AllOn(<<Set(k, w, <<w, v>>)>>, k)
      BY <2>1, AllOnUnit
    <2> QED
      BY <2>2, AllOnNone DEF GivenLine
  <1>2. AllOn(g1, k) /\ AllOn(g2, k) /\ AllOn(g3, k)
    BY <1>1
  <1>3. AllOn(g4, k)
    <2>1. Set(k, "passive-mode", <<"yes">>).key = k
      BY DEF Set, HSetField, HSet
    <2>2. AllOn(<<Set(k, "passive-mode", <<"yes">>)>>, k)
      BY <2>1, AllOnUnit
    <2> QED
      BY <2>2, AllOnNone
  <1>4. AllOn(g0, k) /\ AllOn(g5, k)
    BY AllOnUnit, LineKeys
  <1>5. PeerLines(in) = g0 \o g1 \o g2 \o g3 \o g4 \o g5
    BY DEF PeerLines, k
  <1> HIDE DEF g0, g1, g2, g3, g4, g5
  <1>6. AllOn(g0 \o g1 \o g2, k)
    BY <1>2, <1>4, AllOnJoin
  <1>7. AllOn(g0 \o g1 \o g2 \o g3 \o g4, k)
    BY <1>2, <1>3, <1>6, AllOnJoin
  <1>8. AllOn(g0 \o g1 \o g2 \o g3 \o g4 \o g5, k)
    BY <1>4, <1>7, AllOnJoin
  <1> QED
    BY <1>0, <1>5, <1>8 DEF k

\* Plans that are only about peers.
LEMMA PeerHeads ==
  ASSUME NEW d, NEW p, IsSeq(p), NEW k, k[1] = "peer", Supplants(d, p, k, PeerRivals(k)),
         \A i \in 1..Len(p) : p[i].key[1] = "peer"
  PROVE  Heads(d, p)
  <1>1. Avoids(p, "prefix-list") /\ Avoids(p, "router isis")
    BY DEF Avoids
  <1> QED
    BY <1>1 DEF Heads, ListPlan, NetPlan, PeerPlan

\* put_peer: the block of that identity goes first.
LEMMA PutPeerPlan ==
  ASSUME NEW d, Sound(d), NEW in, NEW cur \in Configured(d, in)
  PROVE  Heads(d, ReplaceLines(cur, in))
  <1> DEFINE k == identity_of(in)  R == PeerRivals(k)  q == PeerLines(in)  p == ReplaceLines(cur, in)
  <1>1. AllOn(q, k) /\ k[1] = "peer"
    BY PeerBlock
  <1>2. /\ k[2] = Addr(in.peer) /\ k[4] = in.ifc /\ k[5] = in.vrf /\ k[6] = in.multihop
    BY DEF identity_of
  <1>3. \A l : same_identity(l, in) <=> SamePeer(k, l)
    BY <1>2 DEF same_identity, SamePeer
  <1>4. \A r : r \in R <=> r \in Keys /\ r[1] = "peer" /\ r # k /\ SamePeer(k, r)
    BY DEF PeerRivals
  <1> HIDE DEF k, R, q
  <1>5. CASE cur = Absent
    <2>1. {l \in PeerRows(d) : same_identity(l, in)} = {}
      BY <1>5, BfdConstants DEF Configured, PeerRows
    <2>2. \A r \in R : ~Exists(d, r)
      BY <1>3, <1>4, <2>1 DEF PeerRows
    <2>3. p = <<>> \o q
      BY <1>5 DEF ReplaceLines, q
    <2> HIDE DEF p
    <2>4. AllOn(p, k)
      BY <1>1, <2>3, AllOnJoin, AllOnNone
    <2>5. Supplants(d, p, k, R)
      BY <2>2, <2>4, SupplantsNone
    <2> QED
      BY <1>1, <2>4, <2>5, PeerHeads DEF AllOn, R, p
  <1>6. CASE cur # Absent
    <2>1. cur \in PeerRows(d) /\ SamePeer(k, cur)
      BY <1>3, <1>6 DEF Configured
    <2>2. cur \in Keys /\ cur[1] = "peer" /\ Exists(d, cur)
      BY <2>1 DEF PeerRows
    <2>3. cur = k \/ cur \in R
      BY <1>4, <2>1, <2>2
    <2>4. ASSUME NEW s \in R, Exists(d, s) PROVE s = cur
      <3>1. s \in PeerRows(d) /\ SamePeer(s, cur)
        BY <1>4, <2>1, <2>4 DEF PeerRows, SamePeer
      <3> QED
        BY <2>1, <3>1 DEF Sound, OnePeer
    <2>5. p = <<Del(cur)>> \o q
      BY <1>6 DEF ReplaceLines, q
    <2> HIDE DEF p
    <2>6. /\ IsSeq(p) /\ Supplants(d, p, k, R)
          /\ \A i \in 1..Len(p) : p[i].key[1] = "peer"
      BY <1>1, <2>2, <2>3, <2>4, <2>5, SupplantsOne
    <2> QED
      BY <1>1, <2>6, PeerHeads DEF R, p
  <1> QED
    BY <1>5, <1>6

\* delete_peer.
LEMMA DeletePeerPlan ==
  ASSUME NEW d, Sound(d), NEW in, NEW cur \in Configured(d, in), cur # Absent
  PROVE  Heads(d, <<Del(cur)>>)
  <1>1. cur \in PeerRows(d)
    BY DEF Configured
  <1>2. cur[1] = "peer"
    BY <1>1 DEF PeerRows
  <1>3. AllOn(<<Del(cur)>>, cur)
    BY AllOnUnit, LineKeys
  <1>4. \A r \in PeerRivals(cur) : ~Exists(d, r)
    BY <1>1 DEF PeerRivals, PeerRows, Sound, OnePeer
  <1>5. Supplants(d, <<Del(cur)>>, cur, PeerRivals(cur))
    BY <1>3, <1>4, SupplantsNone
  <1> QED
    BY <1>2, <1>3, <1>5, PeerHeads DEF AllOn

----------------------------------------------------------------------------
(* The steps.                                                              *)

\* Only the blocks the properties are about, and the maps, matter.
LEMMA UsersLocal ==
  ASSUME NEW d, NEW e, \A m \in MapNames : e[MapKey(m)] = d[MapKey(m)], NEW n
  PROVE  Users(e, n) = Users(d, n)
  <1>1. ASSUME NEW m \in MapNames PROVE DOMAIN Entries(e, m) = DOMAIN Entries(d, m)
    <2>1. e[MapKey(m)] = d[MapKey(m)]
      OBVIOUS
    <2>2. Numbers(e, MapKey(m), "action") = Numbers(d, MapKey(m), "action")
      BY <2>1 DEF Numbers
    <2> QED
      BY <2>2 DEF Entries
  <1>2. \A m : m \in Users(e, n) <=> m \in Users(d, n)
    BY <1>1 DEF Users
  <1> QED
    BY <1>2 DEF Users

LEMMA Local ==
  ASSUME NEW d, Sound(d), NEW e, DOMAIN e = Keys,
         \A k \in Keys : k[1] \in {"prefix-list", "router isis", "peer"} => e[k] = d[k]
  PROVE  Sound(e) /\ \A p : Heads(d, p) => Heads(e, p)
  <1>1. \A f \in Families, n \in ListNames : e[ListKey(f, n)] = d[ListKey(f, n)]
    <2>1. \A f \in Families, n \in ListNames : ListKey(f, n) \in Keys /\ ListKey(f, n)[1] = "prefix-list"
      BY BlocksApart, BlocksKnown
    <2> QED
      BY <2>1
  <1>2. \A t \in Tags : e[RouterKey(t)] = d[RouterKey(t)]
    <2>1. \A t \in Tags : RouterKey(t) \in Keys /\ RouterKey(t)[1] = "router isis"
      BY BlocksApart, BlocksKnown
    <2> QED
      BY <2>1
  <1>3. \A k \in Keys : k[1] = "peer" => e[k] = d[k]
    OBVIOUS
  <1>4. PeerRows(e) = PeerRows(d)
    BY <1>3 DEF PeerRows, Exists
  <1>5. OneFam(d) /\ OneTag(d) /\ OneNet(d) /\ OnePeer(d)
    BY DEF Sound
  <1>6. OneFam(e)
    BY <1>1, <1>5 DEF OneFam, Exists
  <1>7. OneTag(e)
    BY <1>2, <1>5 DEF OneTag, Exists
  <1>8. OneNet(e)
    BY <1>2, <1>5 DEF OneNet, HasNet
  <1>9. OnePeer(e)
    BY <1>4, <1>5 DEF OnePeer
  <1>10. ASSUME NEW p, Heads(d, p) PROVE Heads(e, p)
    <2>1. ListPlan(e, p)
      <3>1. \A f \in Families, n \in ListNames : \A r \in ListRivals(f, n) : Exists(e, r) = Exists(d, r)
        BY <1>1 DEF ListRivals, Exists
      <3> QED
        BY <1>10, <3>1 DEF Heads, ListPlan, Supplants
    <2>2. NetPlan(e, p)
      <3>1. \A t \in Tags : Exists(e, RouterKey(t)) = Exists(d, RouterKey(t))
        BY <1>2 DEF Exists
      <3>2. \A t \in Tags, o \in Nets : HasNet(e, RouterKey(t), o) = HasNet(d, RouterKey(t), o)
        BY <1>2 DEF HasNet
      <3>3. CASE Avoids(p, "router isis")
        BY <3>3 DEF NetPlan
      <3>4. ASSUME NEW t \in Tags, NEW m, Restates(d, p, RouterKey(t), m)
            PROVE  Restates(e, p, RouterKey(t), m)
        BY <3>1, <3>2, <3>4 DEF Restates
      <3> QED
        BY <1>10, <3>3, <3>4 DEF Heads, NetPlan
    <2>3. PeerPlan(e, p)
      <3>1. \A k : \A r \in PeerRivals(k) : Exists(e, r) = Exists(d, r)
        BY <1>3 DEF PeerRivals, Exists
      <3> QED
        BY <1>10, <3>1 DEF Heads, PeerPlan, Supplants
    <2> QED
      BY <1>10, <2>1, <2>2, <2>3 DEF Heads
  <1> QED
    BY <1>6, <1>7, <1>8, <1>9, <1>10 DEF Sound

\* Whatever one handler does under the mutex, the others are not disturbed.
LEMMA Others ==
  ASSUME FrrInv, page' = page, NEW h \in Handlers,
         db' = db \/ lock[page] = h,
         \A g \in Handlers \ {h} :
            /\ pc'[g] = pc[g] /\ todo'[g] = todo[g] /\ req'[g] = req[g]
            /\ lock[page] = g => lock'[page] = g,
         Domains', Sound(db'), Sound(saved'), HandlerOK(h)'
  PROVE  FrrInv'
  <1>1. ASSUME NEW g \in Handlers, g # h PROVE HandlerOK(g)'
    <2>1. /\ pc'[g] = pc[g] /\ todo'[g] = todo[g] /\ req'[g] = req[g]
          /\ lock[page] = g => lock'[page] = g
      BY <1>1
    <2>2. HandlerOK(g)
      BY DEF FrrInv
    <2>3. CASE pc[g] = "plain"
      <3>1. lock[page] = g /\ db' = db
        BY <1>1, <2>2, <2>3 DEF HandlerOK, Working
      <3>2. Working(g)'
        BY <2>1, <2>2, <2>3, <3>1 DEF HandlerOK, Working
      <3>3. Resting(g)' /\ Unbatched(g)'
        BY <2>1, <2>3 DEF Resting, Unbatched
      <3>4. Deleting(g)'
        BY <2>1, <2>2, <3>1 DEF HandlerOK, Deleting
      <3> QED
        BY <3>2, <3>3, <3>4 DEF HandlerOK
    <2>4. CASE pc[g] # "plain"
      <3>1. todo[g] = <<>>
        BY <2>2, <2>4 DEF HandlerOK, Resting
      <3> QED
        BY <2>1, <2>2, <2>4, <3>1 DEF HandlerOK, Working, Resting, Unbatched, Deleting
    <2> QED
      BY <2>3, <2>4
  <1> QED
    BY <1>1 DEF FrrInv

\* A request is admitted with a plan that keeps the configuration sound.
LEMMA AdmitStep ==
  ASSUME FrrInv, page' = page, NEW h \in Handlers, NEW ops, NEW readings, NEW r,
         Take(h, {page}, ops, FALSE, readings, r), Heads(db, ops),
         r.op = "delete list" => Len(ops) = 1 /\ Users(db, r.name) = {}
  PROVE  FrrInv'
  <1> USE DEF Take, Admit
  <1>1. Domains /\ Sound(db) /\ Sound(saved) /\ lock[page] = NoOne
    BY DEF FrrInv
  <1>2. /\ db' = db /\ saved' = saved
        /\ pc'[h] = "plain" /\ todo'[h] = ops /\ req'[h] = r /\ lock'[page] = h
    BY <1>1 DEF Domains
  <1>3. Domains'
    BY <1>1 DEF Domains
  <1>4. \A g \in Handlers \ {h} : pc'[g] = pc[g] /\ todo'[g] = todo[g] /\ req'[g] = req[g]
    BY <1>1 DEF Domains
  <1>5. \A g \in Handlers : lock[page] # g
    BY <1>1, StoreConstants
  <1>6. HandlerOK(h)'
    BY <1>2 DEF HandlerOK, Working, Resting, Unbatched, Deleting
  <1> QED
    BY <1>1, <1>2, <1>3, <1>4, <1>5, <1>6, Others

\* A handler moves on without writing to FRR.
LEMMA CalmStep ==
  ASSUME FrrInv, page' = page, NEW h \in Handlers, db' = db, saved' \in {saved, db},
         NEW x, x \notin {"plain", "batch", "undoDel", "undoSet"},
         pc' = [pc EXCEPT ![h] = x],
         \/ todo' = todo /\ todo[h] = <<>>
         \/ todo' = [todo EXCEPT ![h] = <<>>],
         req' \in {req, [req EXCEPT ![h] = NoRequest]},
         lock' \in {lock, Released(h)}
  PROVE  FrrInv'
  <1>1. Domains /\ Sound(db) /\ Sound(saved)
    BY DEF FrrInv
  <1>2. Domains'
    BY <1>1 DEF Domains, Released
  <1>3. \A g \in Handlers \ {h} : pc'[g] = pc[g] /\ todo'[g] = todo[g] /\ req'[g] = req[g]
    BY <1>1 DEF Domains
  <1>4. \A g \in Handlers \ {h} : lock[page] = g => lock'[page] = g
    BY <1>1 DEF Domains, Released
  <1>5. pc'[h] = x /\ todo'[h] = <<>>
    BY <1>1 DEF Domains
  <1>6. HandlerOK(h)'
    BY <1>5 DEF HandlerOK, Working, Resting, Unbatched, Deleting
  <1>7. Sound(db') /\ Sound(saved')
    BY <1>1
  <1> QED
    BY <1>2, <1>3, <1>4, <1>6, <1>7, Others

\* A line takes effect.
LEMMA WriteStep ==
  ASSUME FrrInv, page' = page, NEW h \in Handlers, pc[h] = "plain", todo[h] # <<>>,
         db' = Issue(db, Head(todo[h])), saved' = saved,
         \/ pc' = pc /\ todo' = [todo EXCEPT ![h] = Tail(todo[h])] /\ lock' = lock
         \/ pc' = [pc EXCEPT ![h] = "done"] /\ todo' = [todo EXCEPT ![h] = <<>>] /\ lock' = Released(h),
         req' \in {req, [req EXCEPT ![h] = NoRequest]}
  PROVE  FrrInv'
  <1>1. Domains /\ Sound(db) /\ Sound(saved) /\ HandlerOK(h)
    BY DEF FrrInv
  <1>2. lock[page] = h /\ Heads(db, todo[h])
    BY <1>1 DEF HandlerOK, Working
  <1>3. Sound(db') /\ Heads(db', Tail(todo[h]))
    BY <1>1, <1>2, PlanStep
  <1>4. Domains'
    BY <1>1 DEF Domains, Released
  <1>5. \A g \in Handlers \ {h} : pc'[g] = pc[g] /\ todo'[g] = todo[g] /\ req'[g] = req[g]
    BY <1>1 DEF Domains
  <1>6. \A g \in Handlers \ {h} : lock[page] = g => lock'[page] = g
    BY <1>1 DEF Domains, Released
  <1>7. HandlerOK(h)'
    <2>1. CASE pc' = pc /\ todo' = [todo EXCEPT ![h] = Tail(todo[h])] /\ lock' = lock
      <3>1. pc'[h] = "plain" /\ todo'[h] = Tail(todo[h]) /\ lock'[page] = h
        BY <1>1, <1>2, <2>1 DEF Domains
      <3>2. Working(h)' /\ Resting(h)' /\ Unbatched(h)'
        BY <1>3, <3>1 DEF Working, Resting, Unbatched
      <3>3. Deleting(h)'
        <4>1. IsSeq(todo[h])
          BY <1>2 DEF Heads
        <4>2. IsSeq(Tail(todo[h])) /\ Len(Tail(todo[h])) = Len(todo[h]) - 1 /\ Len(todo[h]) \in Nat
          BY <4>1, SeqNext
        <4>3. ASSUME req'[h].op = "delete list", Tail(todo[h]) # <<>> PROVE FALSE
          <5>0. req'[h] = req[h] \/ req'[h] = NoRequest
            BY <1>1 DEF Domains
          <5>a. NoRequest.op = "none"
            BY DEF NoRequest
          <5>1. req[h].op = "delete list"
            BY ONLY <4>3, <5>0, <5>a
          <5>2. Len(todo[h]) = 1
            BY <1>1, <5>1 DEF HandlerOK, Deleting
          <5>3. Len(Tail(todo[h])) = 0
            BY <4>2, <5>2
          <5> QED
            BY <4>2, <4>3, <5>3, SeqLen
        <4> QED
          BY <3>1, <4>3 DEF Deleting
      <3> QED
        BY <3>2, <3>3 DEF HandlerOK
    <2>2. CASE pc' = [pc EXCEPT ![h] = "done"] /\ todo' = [todo EXCEPT ![h] = <<>>] /\ lock' = Released(h)
      <3>1. pc'[h] = "done" /\ todo'[h] = <<>>
        BY <1>1, <2>2 DEF Domains
      <3> QED
        BY <3>1 DEF HandlerOK, Working, Resting, Unbatched, Deleting
    <2> QED
      BY <2>1, <2>2
  <1> QED
    BY <1>1, <1>2, <1>3, <1>4, <1>5, <1>6, <1>7, Others

\* Everything that does not depend on the page.
LEMMA FrrStepKeeps ==
  ASSUME FrrInv, page' = page, NEW h \in Handlers, FrrStep(h)
  PROVE  FrrInv'
  <1>0. Domains /\ HandlerOK(h)
    BY DEF FrrInv
  <1>1. pc[h] # "plain" => todo[h] = <<>>
    BY <1>0 DEF HandlerOK, Resting
  <1>2. pc[h] \notin {"batch", "undoDel", "undoSet"}
    BY <1>0 DEF HandlerOK, Unbatched
  <1>4. CASE WriteMemory(h)
    <2>1. /\ db' = db /\ saved' \in {saved, db} /\ pc' = pc /\ todo' = todo /\ req' = req
          /\ lock' = lock /\ pc[h] = "plain" /\ todo[h] = <<>>
      BY <1>4 DEF WriteMemory
    <2>2. Domains' /\ Sound(db') /\ Sound(saved') /\ HandlerOK(h)'
      BY <1>0, <2>1 DEF FrrInv, Domains, HandlerOK, Working, Resting, Unbatched, Deleting
    <2> QED
      BY <2>1, <2>2, Others
  <1>5. CASE Receive(h)
    <2>1. /\ pc[h] = "idle" /\ pc' = [pc EXCEPT ![h] = "queued"]
          /\ db' = db /\ saved' = saved /\ lock' = lock /\ todo' = todo /\ req' = req
      BY <1>5 DEF Receive, Arrive
    <2> QED
      BY <1>1, <2>1, CalmStep
  <1>6. CASE Malformed(h)
    <2>1. /\ pc[h] = "queued" /\ pc' = [pc EXCEPT ![h] = "done"]
          /\ db' = db /\ saved' = saved /\ lock' = lock /\ todo' = todo /\ req' = req
      BY <1>6 DEF Malformed, Answer, Refuse
    <2> QED
      BY <1>1, <2>1, CalmStep
  <1>7. CASE ReadFault(h)
    <2>1. /\ todo[h] = <<>> /\ pc' = [pc EXCEPT ![h] = "done"]
          /\ db' = db /\ saved' = saved /\ lock' = Released(h) /\ todo' = todo
          /\ req' = [req EXCEPT ![h] = NoRequest]
      BY <1>7 DEF ReadFault
    <2> QED
      BY <2>1, CalmStep
  <1>8. CASE Proceed(h, FALSE)
    <2>0. req' \in {req, [req EXCEPT ![h] = NoRequest]} /\ (Run(h) \/ Commit(h, FALSE))
      BY <1>8 DEF Proceed
    <2>1. CASE Execute(h)
      <3>1. /\ pc[h] = "plain" /\ todo[h] # <<>> /\ db' = Issue(db, Head(todo[h]))
            /\ saved' = saved /\ pc' = pc /\ todo' = [todo EXCEPT ![h] = Tail(todo[h])]
            /\ lock' = lock
        BY <1>2, <2>1 DEF Execute
      <3> QED
        BY <2>0, <3>1, WriteStep
    <2>2. CASE ExecuteFault(h)
      <3>1. /\ pc[h] = "plain" /\ todo[h] # <<>>
            /\ (db' = db \/ db' = Issue(db, Head(todo[h])))
            /\ saved' = saved /\ pc' = [pc EXCEPT ![h] = "done"]
            /\ todo' = [todo EXCEPT ![h] = <<>>] /\ lock' = Released(h)
        BY <1>2, <2>2 DEF ExecuteFault
      <3>2. CASE db' = db
        BY <2>0, <3>1, <3>2, CalmStep
      <3>3. CASE db' # db
        BY <2>0, <3>1, <3>3, WriteStep
      <3> QED
        BY <3>2, <3>3
    <2>3. CASE Save(h)
      <3>1. /\ pc[h] = "save" /\ pc' = [pc EXCEPT ![h] = "done"]
            /\ db' = db /\ saved' \in {saved, db} /\ lock' = lock /\ todo' = todo
        BY <2>3 DEF Save
      <3> QED
        BY <1>1, <2>0, <3>1, CalmStep
    <2>4. CASE Respond(h)
      <3>1. /\ pc[h] = "done" /\ pc' = [pc EXCEPT ![h] = "idle"]
            /\ db' = db /\ saved' = saved /\ lock' = lock /\ todo' = todo
        BY <2>4 DEF Respond
      <3> QED
        BY <1>1, <2>0, <3>1, CalmStep
    <2>5. CASE Commit(h, FALSE)
      <3>1. /\ todo[h] = <<>> /\ pc' = [pc EXCEPT ![h] = "done"]
            /\ db' = db /\ saved' = saved /\ lock' = Released(h) /\ todo' = todo
        BY <2>5 DEF Commit
      <3> QED
        BY <2>0, <3>1, CalmStep
    <2> QED
      BY <1>2, <2>0, <2>1, <2>2, <2>3, <2>4, <2>5 DEF Run, Abort, UndoDel, UndoSet
  <1> QED
    BY <1>4, <1>5, <1>6, <1>7, <1>8 DEF FrrStep

\* A request is refused.
LEMMA RefusedStep ==
  ASSUME FrrInv, page' = page, NEW h \in Handlers, NEW status, Refused(h, page, status)
  PROVE  FrrInv'
  <1>1. /\ pc[h] = "queued" /\ pc' = [pc EXCEPT ![h] = "done"]
        /\ db' = db /\ saved' = saved /\ lock' = lock /\ todo' = todo /\ req' = req
    BY DEF Refused, Decline, Answer, Refuse
  <1>2. todo[h] = <<>>
    BY <1>1 DEF FrrInv, HandlerOK, Resting
  <1> QED
    BY <1>1, <1>2, CalmStep

\* The requests of the policy page.
LEMMA PolicyKeeps ==
  ASSUME FrrInv, page' = page, NEW h \in Handlers, page = "policy", PolicyRequest(h)
  PROVE  FrrInv'
  <1>0. Sound(db)
    BY DEF FrrInv
  <1>1. ASSUME NEW n \in ListNames, NEW in \in ListInputs, put_prefix_list(h, n, in)
        PROVE  FrrInv'
    <2>1. CASE Refused(h, "policy", 400)
      BY <2>1, RefusedStep
    <2>2. ASSUME ListOK(in), NEW cur \in prefix_list(db, n),
                 vtysh_config(h, "policy", ListLines(cur, n, in),
                              [op |-> "put list", name |-> n, in |-> in])
          PROVE  FrrInv'
      <3>1. Heads(db, ListLines(cur, n, in))
        BY <1>0, <2>2, PutListPlan DEF ListOK
      <3> QED
        BY <2>2, <3>1, AdmitStep DEF vtysh_config
    <2> QED
      BY <1>1, <2>1, <2>2 DEF put_prefix_list
  <1>2. ASSUME NEW n \in ListNames, delete_prefix_list(h, n)
        PROVE  FrrInv'
    <2>1. CASE \E status : Refused(h, "policy", status)
      BY <2>1, RefusedStep
    <2>2. ASSUME NEW cur \in prefix_list(db, n), cur # Absent, ~ListInUse(n),
                 vtysh_config(h, "policy", <<Del(ListKey(cur, n))>>,
                              [op |-> "delete list", name |-> n])
          PROVE  FrrInv'
      <3> DEFINE ops == <<Del(ListKey(cur, n))>>  r == [op |-> "delete list", name |-> n]
      <3>1. Heads(db, ops) /\ Len(ops) = 1
        BY <1>0, <2>2, DeleteListPlan
      <3>2. Users(db, r.name) = {}
        BY <2>2 DEF ListInUse
      <3>3. Take(h, {page}, ops, FALSE, IF split THEN <<"write memory">> ELSE <<>>, r)
        BY <2>2 DEF vtysh_config
      <3> HIDE DEF ops, r
      <3> QED
        BY <3>1, <3>2, <3>3, AdmitStep
    <2> QED
      BY <1>2, <2>1, <2>2 DEF delete_prefix_list
  <1>3. ASSUME NEW n \in MapNames, NEW in \in MapInputs, put_route_map(h, n, in)
        PROVE  FrrInv'
    <2>1. CASE Refused(h, "policy", 400)
      BY <2>1, RefusedStep
    <2>2. CASE vtysh_config(h, "policy", MapLines(n, in), [op |-> "put map", name |-> n, in |-> in])
      <3>1. Heads(db, MapLines(n, in))
        BY MapPlan
      <3> QED
        BY <2>2, <3>1, AdmitStep DEF vtysh_config
    <2> QED
      BY <1>3, <2>1, <2>2 DEF put_route_map
  <1>4. ASSUME NEW n \in MapNames, delete_route_map(h, n)
        PROVE  FrrInv'
    <2>1. CASE \E status : Refused(h, "policy", status)
      BY <2>1, RefusedStep
    <2>2. CASE vtysh_config(h, "policy", <<Del(MapKey(n))>>, [op |-> "delete map", name |-> n])
      <3>1. Heads(db, <<Del(MapKey(n))>>)
        BY DeleteMapPlan
      <3> QED
        BY <2>2, <3>1, AdmitStep DEF vtysh_config
    <2> QED
      BY <1>4, <2>1, <2>2 DEF delete_route_map
  <1> QED
    BY <1>1, <1>2, <1>3, <1>4 DEF PolicyRequest

\* The requests of the IS-IS page.
LEMMA IsisKeeps ==
  ASSUME FrrInv, page' = page, NEW h \in Handlers, page = "isis", IsisRequest(h)
  PROVE  FrrInv'
  <1>0. Sound(db)
    BY DEF FrrInv
  <1>1. ASSUME NEW in \in InstanceInputs, put_isis_instance(h, in)
        PROVE  FrrInv'
    <2> DEFINE r(tag) == [op |-> "put instance", tag |-> tag_of(tag), in |-> in]
    <2>1. ASSUME NEW tag, Accept(h, "isis", <<>>, FALSE, r(tag))
          PROVE  FrrInv'
      BY <2>1, EmptyPlan, AdmitStep DEF Accept
    <2>2. ASSUME NEW tag \in tags(db), tag # Absent,
                 vtysh_config(h, "isis", <<Del(RouterKey(tag))>>, r(tag))
          PROVE  FrrInv'
      <3>1. Heads(db, <<Del(RouterKey(tag))>>)
        BY <1>0, <2>2, DeleteInstancePlan
      <3> QED
        BY <2>2, <3>1, AdmitStep DEF vtysh_config
    <2>3. CASE Refused(h, "isis", 400)
      BY <2>3, RefusedStep
    <2>4. ASSUME NEW tag \in tags(db), NEW old \in nets(db, tag), in.net \in Nets,
                 vtysh_config(h, "isis", InstanceLines(tag_of(tag), old, in), r(tag))
          PROVE  FrrInv'
      <3>1. Heads(db, InstanceLines(tag_of(tag), old, in))
        BY <1>0, <2>4, InstancePlan
      <3> QED
        BY <2>4, <3>1, AdmitStep DEF vtysh_config
    <2> QED
      BY <1>1, <2>1, <2>2, <2>3, <2>4 DEF put_isis_instance
  <1>2. ASSUME NEW i \in IsisInterfaces, NEW known \in BOOLEAN, NEW in \in IsisInputs,
               put_isis_interface(h, i, known, in)
        PROVE  FrrInv'
    <2>1. CASE \E status : Refused(h, "isis", status)
      BY <2>1, RefusedStep
    <2>2. ASSUME NEW tag, vtysh_config(h, "isis", InterfaceLines(tag, i, in),
                                       [op |-> "put interface", name |-> i, in |-> in])
          PROVE  FrrInv'
      <3>1. Heads(db, InterfaceLines(tag, i, in))
        BY InterfacePlan
      <3> QED
        BY <2>2, <3>1, AdmitStep DEF vtysh_config
    <2> QED
      BY <1>2, <2>1, <2>2 DEF put_isis_interface
  <1> QED
    BY <1>1, <1>2 DEF IsisRequest

\* The requests of the BFD page.
LEMMA BfdKeeps ==
  ASSUME FrrInv, page' = page, NEW h \in Handlers, page = "bfd", BfdRequest(h)
  PROVE  FrrInv'
  <1>0. Sound(db)
    BY DEF FrrInv
  <1>1. ASSUME NEW in \in PeerInputs, put_peer(h, in)
        PROVE  FrrInv'
    <2>1. CASE Refused(h, "bfd", 400)
      BY <2>1, RefusedStep
    <2>2. ASSUME NEW cur \in Configured(db, in),
                 vtysh_config(h, "bfd", ReplaceLines(cur, in), [op |-> "put peer", in |-> in])
          PROVE  FrrInv'
      <3>1. Heads(db, ReplaceLines(cur, in))
        BY <1>0, PutPeerPlan
      <3> QED
        BY <2>2, <3>1, AdmitStep DEF vtysh_config
    <2> QED
      BY <1>1, <2>1, <2>2 DEF put_peer
  <1>2. ASSUME NEW in \in PeerKeys, delete_peer(h, in)
        PROVE  FrrInv'
    <2>1. CASE \E status : Refused(h, "bfd", status)
      BY <2>1, RefusedStep
    <2>2. ASSUME NEW cur \in Configured(db, in), cur # Absent,
                 vtysh_config(h, "bfd", <<Del(cur)>>, [op |-> "delete peer", in |-> in])
          PROVE  FrrInv'
      <3>1. Heads(db, <<Del(cur)>>)
        BY <1>0, <2>2, DeletePeerPlan
      <3> QED
        BY <2>2, <3>1, AdmitStep DEF vtysh_config
    <2> QED
      BY <1>2, <2>1, <2>2 DEF delete_peer
  <1> QED
    BY <1>1, <1>2 DEF BfdRequest

\* A map is applied or detached elsewhere, while a page may be writing.
LEMMA AttachKeeps ==
  ASSUME FrrInv, page' = page, NEW n, Attach(n)
  PROVE  FrrInv'
  <1> DEFINE k == <<"applied", n>>
  <1>1. /\ saved' = saved /\ lock' = lock /\ pc' = pc /\ todo' = todo /\ req' = req
        /\ db' = [db EXCEPT ![k] = IF Exists(db, k) THEN NoRow ELSE Patched(NoRow, Open(k).upd)]
    BY DEF Attach
  <1>2. Sound(db) /\ DOMAIN db = Keys /\ Domains /\ Sound(saved)
    BY DEF FrrInv, Sound
  <1>3. k[1] = "applied"
    OBVIOUS
  <1> HIDE DEF k
  <1>4. DOMAIN db' = Keys /\ \A j \in Keys : j # k => db'[j] = db[j]
    BY <1>1, <1>2
  <1>5. \A j \in Keys : j[1] \in {"prefix-list", "router isis", "peer", "route-map"} => db'[j] = db[j]
    BY <1>3, <1>4
  <1>6. Sound(db') /\ \A p : Heads(db, p) => Heads(db', p)
    BY <1>2, <1>4, <1>5, Local
  <1>7. \A m \in MapNames : db'[MapKey(m)] = db[MapKey(m)]
    BY <1>5, BlocksApart, BlocksKnown
  <1>8. \A x : Users(db', x) = Users(db, x)
    BY <1>7, UsersLocal
  <1>9. ASSUME NEW h \in Handlers PROVE HandlerOK(h)'
    <2>1. HandlerOK(h)
      BY DEF FrrInv
    <2> QED
      BY <1>1, <1>6, <1>8, <2>1 DEF HandlerOK, Working, Resting, Unbatched, Deleting
  <1> QED
    BY <1>1, <1>2, <1>6, <1>9 DEF FrrInv, Domains

\* The agent is killed or the switch reboots.
LEMMA CrashKeeps ==
  ASSUME FrrInv, page' = page, FrrCrash
  PROVE  FrrInv'
  <1>1. /\ db' \in {db, saved} /\ saved' = saved
        /\ lock' = [f \in Features |-> NoOne]
        /\ pc' = [h \in Handlers |-> "idle"]
        /\ todo' = [h \in Handlers |-> <<>>]
        /\ req' = [h \in Handlers |-> NoRequest]
    BY DEF FrrCrash, Crash, Kill, Reboot, Stopped, Forget
  <1>2. Sound(db') /\ Sound(saved') /\ Domains'
    BY <1>1 DEF FrrInv, Domains
  <1>3. \A h \in Handlers : HandlerOK(h)'
    BY <1>1 DEF HandlerOK, Working, Resting, Unbatched, Deleting
  <1> QED
    BY <1>2, <1>3 DEF FrrInv

\* Every step keeps the invariant.
LEMMA FrrNextKeeps ==
  ASSUME FrrInv, [FrrNext]_frrPageVars
  PROVE  FrrInv'
  <1>1. CASE FrrNext
    <2>0. page' = page
      BY <1>1 DEF FrrNext
    <2>1. ASSUME NEW h \in Handlers, FrrStep(h) PROVE FrrInv'
      BY <2>0, <2>1, FrrStepKeeps
    <2>2. ASSUME NEW h \in Handlers, FrrRequest(h) PROVE FrrInv'
      BY <2>0, <2>2, PolicyKeeps, IsisKeeps, BfdKeeps DEF FrrRequest
    <2>3. ASSUME NEW n \in MapNames, Attach(n) PROVE FrrInv'
      BY <2>0, <2>3, AttachKeeps
    <2>4. CASE FrrCrash
      BY <2>0, <2>4, CrashKeeps
    <2> QED
      BY <1>1, <2>1, <2>2, <2>3, <2>4 DEF FrrNext
  <1>2. CASE UNCHANGED frrPageVars
    <2>1. /\ db' = db /\ saved' = saved /\ lock' = lock /\ pc' = pc /\ todo' = todo
          /\ req' = req /\ page' = page
      BY <1>2 DEF frrPageVars, frrVars, vars, storeVars
    <2> QED
      BY <2>1 DEF FrrInv, Domains, HandlerOK, Working, Resting, Unbatched, Deleting
  <1> QED
    BY <1>1, <1>2

\* And it holds at the start.
LEMMA FrrStarts ==
  ASSUME StartsSound, FrrInit
  PROVE  FrrInv
  <1>1. /\ db \in Configs0 /\ saved = db
        /\ lock = [f \in Features |-> NoOne]
        /\ pc = [h \in Handlers |-> "idle"]
        /\ todo = [h \in Handlers |-> <<>>]
        /\ req = [h \in Handlers |-> NoRequest]
        /\ page \in FrrPageNames
    BY DEF FrrInit, Init, StoreInit
  <1>2. Sound(db) /\ Sound(saved)
    BY <1>1 DEF StartsSound
  <1>3. Domains
    BY <1>1, FrrPagesKnown DEF Domains
  <1>4. \A h \in Handlers : HandlerOK(h)
    BY <1>1 DEF HandlerOK, Working, Resting, Unbatched, Deleting
  <1> QED
    BY <1>2, <1>3, <1>4 DEF FrrInv

\* The inductive invariant of the pages that program FRR, which the properties
\* below follow from.
THEOREM FrrInvariance ==
  ASSUME StartsSound
  PROVE  FrrSpec => []FrrInv
  <1>1. FrrInit => FrrInv
    BY FrrStarts
  <1>2. FrrInv /\ [FrrNext]_frrPageVars => FrrInv'
    BY FrrNextKeeps
  <1> QED
    BY <1>1, <1>2, PTL DEF FrrSpec

\* A set in which any two elements are equal has one element at most.
LEMMA AtMostOne ==
  ASSUME NEW S, \A x, y \in S : x = y
  PROVE  Cardinality(S) <= 1 /\ (S # {} => Cardinality(S) = 1)
  <1>1. CASE S = {}
    BY <1>1, FS_EmptySet
  <1>2. CASE S # {}
    <2>1. PICK x : S = {x}
      BY <1>2
    <2> QED
      BY <2>1, FS_Singleton
  <1> QED
    BY <1>1, <1>2

(***************************************************************************)
(* put_prefix_list never leaves a list in both families, whichever line    *)
(* FRR refuses, whenever the agent dies, and whatever the other requests   *)
(* do meanwhile.                                                           *)
(***************************************************************************)
THEOREM ListsInOneFamily ==
  ASSUME StartsSound
  PROVE  FrrSpec => []OneFamily
  <1>1. FrrInv => OneFamily
    <2> SUFFICES ASSUME FrrInv, NEW n \in ListNames
                 PROVE  Cardinality({f \in Families : Exists(db, ListKey(f, n))}) <= 1
      BY DEF OneFamily
    <2>1. OneFam(db)
      BY DEF FrrInv, Sound
    <2> DEFINE S == {f \in Families : Exists(db, ListKey(f, n))}
    <2>2. \A f, g \in S : f = g
      BY <2>1 DEF OneFam
    <2> HIDE DEF S
    <2>3. Cardinality(S) <= 1
      BY <2>2, AtMostOne
    <2> QED
      BY <2>3 DEF S
  <1> QED
    BY <1>1, FrrInvariance, PTL

(***************************************************************************)
(* The check of delete_prefix_list still holds when the list is deleted:   *)
(* no route map has come to match on it since.                             *)
(***************************************************************************)
THEOREM DeletedListsUnused ==
  ASSUME StartsSound
  PROVE  FrrSpec => []DeletesUnusedLists
  <1>1. FrrInv => DeletesUnusedLists
    BY DEF FrrInv, HandlerOK, Deleting, DeletesUnusedLists
  <1> QED
    BY <1>1, FrrInvariance, PTL

(***************************************************************************)
(* There is one IS-IS instance with one NET, and one BFD peer of each      *)
(* identity, at every instant of every request.                            *)
(***************************************************************************)
THEOREM OneOfEachHolds ==
  ASSUME StartsSound
  PROVE  FrrSpec => []OneOfEach
  <1>1. FrrInv => OneInstanceOneNet
    <2> SUFFICES ASSUME FrrInv PROVE OneInstanceOneNet
      OBVIOUS
    <2>1. OneTag(db) /\ OneNet(db) /\ Absent \notin Tags
      BY IsisConstants DEF FrrInv, Sound
    <2>2. tags(db) # {} /\ \A s, t \in tags(db) : s = t
      BY <2>1, BlocksApart DEF tags, OneTag
    <2>3. ASSUME NEW t \in tags(db)
          PROVE  nets(db, t) # {} /\ \A m, n \in nets(db, t) : m = n
      <3>1. t # Absent => t \in Tags
        BY DEF tags
      <3> QED
        BY <2>1, <3>1 DEF nets, OneNet, HasNet, Held
    <2>4. Cardinality(tags(db)) = 1
      BY <2>2, AtMostOne
    <2>5. \A t \in tags(db) : Cardinality(nets(db, t)) = 1
      BY <2>3, AtMostOne
    <2> QED
      BY <2>4, <2>5 DEF OneInstanceOneNet
  <1>2. FrrInv => OnePeerPerIdentity
    BY DEF FrrInv, Sound, OnePeer, SamePeer, OnePeerPerIdentity
  <1>3. FrrInv => OneOfEach
    BY <1>1, <1>2 DEF OneOfEach
  <1> QED
    BY <1>3, FrrInvariance, PTL
=============================================================================
