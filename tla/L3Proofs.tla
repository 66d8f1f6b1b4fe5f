------------------------------ MODULE L3Proofs ------------------------------
(***************************************************************************)
(* Interfaces and VRFs, for any ports, loopbacks, addresses, VRFs, number  *)
(* of handlers and bounds: an attribute row names only VRFs that exist, an *)
(* address row has its attribute row, a VRF changes only on a bare         *)
(* interface, and a PUT that was answered left what it asked for.          *)
(***************************************************************************)
EXTENDS L3, StoreProofs

(***************************************************************************)
(* The first two need a start.  Without it, or after a degraded reading or *)
(* a failed write, they claim nothing.                                     *)
(***************************************************************************)
WellBound(d) ==
    \A n \in Interfaces :
        VrfOf(d, n) # Absent => VrfOf(d, n) \in Vrfs /\ Exists(d, Vrf(VrfOf(d, n)))
Parented(d) ==
    \A n \in Interfaces : AddressesOf(d, n) # {} => Exists(d, Attr(n))
StartsBound == \A d \in Configs0 : WellBound(d)
StartsParented == \A d \in Configs0 : Parented(d)

Sighted == StartsBound /\ blindReads = 0
Faultless == StartsParented /\ faults = 0
Good(d) == (Sighted => WellBound(d)) /\ (Faultless => Parented(d))

\* A step that leaves the VRFs of interfaces with addresses alone.
Rebinds(d, e) ==
    \A n \in Interfaces : VrfOf(d, n) # VrfOf(e, n) => AddressesOf(d, n) = {}

(***************************************************************************)
(* The inductive invariant.  None of the properties is inductive, because  *)
(* a step in the middle of a plan says nothing of the steps to come: the   *)
(* invariant says of the plan still to be executed that every database on  *)
(* its way is good, that each of its commands rebinds only bare            *)
(* interfaces and, in a PUT, that it ends where the request wants it; and  *)
(* of a rollback, that the rows it will put back are bound to VRFs that    *)
(* are there.  The mutex keeps everybody else from interfering.            *)
(***************************************************************************)
InterfaceKeys ==
    {Attr(n) : n \in Interfaces} \cup {Ip(n, a) : n \in Interfaces, a \in Addresses}
Active(h) == pc[h] \in {"batch", "plain", "undoDel", "undoSet"}

OneAtATime(h) == Active(h) => lock["l3"] = h
Course(d, p) ==
    /\ \A i \in 0..Len(p) : Good(After(d, p, i))
    /\ \A i \in 1..Len(p) : Rebinds(After(d, p, i - 1), After(d, p, i))
Ends(d, p, n, vrf, ips) ==
    /\ \A i \in 1..Len(p) : p[i].key \in InterfaceKeys
    /\ VrfOf(After(d, p, Len(p)), n) = vrf
    /\ AddressesOf(After(d, p, Len(p)), n) = ips
Bound(d, k, row) ==
    LET v == row["vrf_name"]
    IN  k \in {Attr(n) : n \in Interfaces} /\ v # Absent => v \in Vrfs /\ Exists(d, Vrf(v))
GoodCourse(h) == pc[h] \in {"batch", "plain"} => Course(db, todo[h])
OnTarget(h) ==
    pc[h] = "batch" => Ends(db, todo[h], req[h].name, req[h].vrf, req[h].ips)
PriorsBound(h) ==
    InBatch(h) => \A i \in 1..Len(snaps[h]) :
        /\ snaps[h][i].key \in InterfaceKeys
        /\ Sighted => Bound(db, snaps[h][i].key, snaps[h][i].prior)
UndoAfterFault(h) == pc[h] \in {"undoDel", "undoSet"} => faults # 0

HandlerGood(h) ==
    OneAtATime(h) /\ GoodCourse(h) /\ OnTarget(h) /\ PriorsBound(h) /\ UndoAfterFault(h)

L3Inv ==
    /\ StoreTypeOK /\ blindReads \in Nat /\ DOMAIN req = Handlers
    /\ Good(db) /\ Good(saved)
    /\ \A h \in Handlers : HandlerGood(h)

----------------------------------------------------------------------------
(* Rows and plans.                                                         *)

\* The three kinds of rows are told apart by their keys.
LEMMA KeysApart ==
  /\ \A n, m : Attr(n) = Attr(m) => n = m
  /\ \A n, m, a, b : Ip(n, a) = Ip(m, b) => n = m /\ a = b
  /\ \A n, m, a, v : Attr(n) # Ip(m, a) /\ Attr(n) # Vrf(v) /\ Vrf(v) # Ip(m, a)
  BY DEF Attr, Ip, Vrf

\* The rows of interfaces and VRFs are rows of CONFIG_DB.
LEMMA KeysKnown ==
  /\ \A n \in Interfaces : Attr(n) \in Keys
  /\ \A n \in Interfaces, a \in Addresses : Ip(n, a) \in Keys
  /\ \A v \in Vrfs : Vrf(v) \in Keys
  BY L3Constants DEF L3Keys

\* The fields and values l3.rs writes.
LEMMA FieldsKnown ==
  /\ "vrf_name" \in Fields /\ "NULL" \in Fields /\ "fallback" \in Fields /\ "vni" \in Fields
  /\ "NULL" \in Values /\ "true" \in Values /\ "false" \in Values
  /\ \A v \in Vrfs : v \in Values /\ v # Absent /\ v # Keep
  /\ \A v \in Vnis : v \in Values
  BY L3Constants, StoreConstants DEF L3Fields, L3Values

\* A request's addresses have finitely many rows.
LEMMA IpRowsFinite ==
  ASSUME NEW n \in Interfaces, NEW ips, ips \subseteq Addresses
  PROVE  IpRows(n, ips) \subseteq Keys /\ IsFiniteSet(IpRows(n, ips))
  <1>1. IsFiniteSet(ips)
    BY L3Constants, FS_Subset
  <1>2. [a \in ips |-> Ip(n, a)] \in Surjection(ips, IpRows(n, ips))
    BY DEF Surjection, IpRows
  <1>3. IsFiniteSet(IpRows(n, ips))
    BY <1>1, <1>2, FS_Surjection
  <1> QED
    BY <1>3, KeysKnown DEF IpRows

(***************************************************************************)
(* The plan of a PUT, a POST or a DELETE: nd deletions of the addresses in *)
(* X, the attribute commands A, a marker for each address in Y.            *)
(***************************************************************************)
PlanShape(p, n, X, A, Y, nd) ==
    /\ p \in Seq(Command) /\ Len(p) \in Nat
    /\ nd \in Nat /\ Len(A) \in {1, 2} /\ nd + Len(A) <= Len(p)
    /\ \A i \in 1..nd : \E a \in X : p[i] = Del(Ip(n, a))
    /\ \A a \in X : \E i \in 1..nd : p[i] = Del(Ip(n, a))
    /\ \A i \in 1..Len(A) : p[nd + i] = A[i]
    /\ \A i \in (nd + Len(A) + 1)..Len(p) : \E a \in Y : p[i] = HSet(Ip(n, a), Marker)
    /\ \A a \in Y : \E i \in (nd + Len(A) + 1)..Len(p) : p[i] = HSet(Ip(n, a), Marker)

\* The attribute commands: the first decides the VRF, the second the marker.
LEMMA AttributeFacts ==
  ASSUME NEW n \in Interfaces, NEW vrf \in Vrfs \cup {Absent}, NEW ips
  PROVE  LET A == attribute(n, vrf, ips)
         IN  /\ A \in Seq(Command) /\ Len(A) \in {1, 2}
             /\ \A i \in 1..Len(A) : A[i].key = Attr(n)
             /\ A[1].upd["vrf_name"] = vrf
             /\ Len(A) = 2 => A[2].upd["vrf_name"] = Keep
             /\ Len(A) = 1 => vrf = Absent /\ ips = {} /\ A[1] = Del(Attr(n))
             /\ vrf = Absent /\ ips # {} =>
                  /\ Len(A) = 2 /\ A[2].upd["NULL"] = "NULL"
                  /\ \A f \in Fields : f # "vrf_name" => A[1].upd[f] = Keep
  <1> DEFINE c1 == HSet(Attr(n), [vrf_name |-> vrf])  c2 == HDel(Attr(n), {"NULL"})
             c3 == HDel(Attr(n), {"vrf_name"})  c4 == HSet(Attr(n), Marker)  c5 == Del(Attr(n))
  <1>1. Attr(n) \in Keys
    BY KeysKnown
  <1>2. /\ vrf # Absent => c1 \in Command
        /\ c1.key = Attr(n) /\ c1.upd["vrf_name"] = vrf
    BY <1>1, FieldsKnown DEF HSet, Command, Update
  <1>3. /\ c2 \in Command /\ c2.key = Attr(n) /\ c2.upd["vrf_name"] = Keep
    BY <1>1, FieldsKnown DEF HDel, Command, Update
  <1>4. /\ c3 \in Command /\ c3.key = Attr(n) /\ c3.upd["vrf_name"] = Absent
        /\ \A f \in Fields : f # "vrf_name" => c3.upd[f] = Keep
    BY <1>1, FieldsKnown DEF HDel, Command, Update
  <1>5. /\ c4 \in Command /\ c4.key = Attr(n) /\ c4.upd["vrf_name"] = Keep
        /\ c4.upd["NULL"] = "NULL"
    BY <1>1, FieldsKnown DEF HSet, Marker, Command, Update
  <1>6. c5 \in Command /\ c5.key = Attr(n) /\ c5.upd["vrf_name"] = Absent
    BY <1>1, FieldsKnown DEF Del, NoRow, Command, Update
  <1> HIDE DEF c1, c2, c3, c4, c5
  <1>7. attribute(n, vrf, ips) = IF vrf # Absent THEN <<c1, c2>>
                                 ELSE IF ips # {} THEN <<c3, c4>> ELSE <<c5>>
    BY DEF attribute, c1, c2, c3, c4, c5
  <1>8. CASE vrf # Absent
    BY <1>2, <1>3, <1>7, <1>8
  <1>9. CASE vrf = Absent /\ ips # {}
    BY <1>4, <1>5, <1>7, <1>9
  <1>10. CASE vrf = Absent /\ ips = {}
    <2>1. attribute(n, vrf, ips) = <<c5>>
      BY <1>7, <1>10
    <2> QED
      BY <1>6, <1>10, <2>1 DEF c5
  <1> QED
    BY <1>8, <1>9, <1>10

\* Three sequences in a row.
LEMMA Concat3 ==
  ASSUME NEW S, NEW d \in Seq(S), NEW a \in Seq(S), NEW m \in Seq(S)
  PROVE  LET p == d \o a \o m
         IN  /\ p \in Seq(S) /\ Len(p) = Len(d) + Len(a) + Len(m)
             /\ \A i \in 1..Len(d) : p[i] = d[i]
             /\ \A i \in 1..Len(a) : p[Len(d) + i] = a[i]
             /\ \A i \in 1..Len(m) : p[Len(d) + Len(a) + i] = m[i]
  <1> DEFINE q == d \o a
  <1>1. Len(d) \in Nat /\ Len(a) \in Nat /\ Len(m) \in Nat
    BY LenProperties
  <1>2. /\ q \in Seq(S) /\ Len(q) = Len(d) + Len(a)
        /\ \A i \in 1..(Len(d) + Len(a)) : q[i] = IF i <= Len(d) THEN d[i] ELSE a[i - Len(d)]
    BY ConcatProperties
  <1> HIDE DEF q
  <1>3. q \in Seq(S)
    BY <1>2
  <1>4. /\ (q \o m) \in Seq(S) /\ Len(q \o m) = Len(q) + Len(m)
        /\ \A i \in 1..(Len(q) + Len(m)) :
              (q \o m)[i] = IF i <= Len(q) THEN q[i] ELSE m[i - Len(q)]
    BY <1>3, ConcatProperties
  <1>5. \A i \in 1..Len(d) : (q \o m)[i] = d[i]
    BY <1>1, <1>2, <1>4
  <1>6. ASSUME NEW i \in 1..Len(a) PROVE (q \o m)[Len(d) + i] = a[i]
    <2>1. /\ Len(d) + i \in 1..(Len(d) + Len(a)) /\ ~(Len(d) + i <= Len(d))
          /\ Len(d) + i \in 1..(Len(q) + Len(m)) /\ Len(d) + i <= Len(q)
          /\ Len(d) + i - Len(d) = i
      BY <1>1, <1>2
    <2> QED
      BY <1>2, <1>4, <2>1
  <1>7. ASSUME NEW i \in 1..Len(m) PROVE (q \o m)[Len(d) + Len(a) + i] = m[i]
    <2>1. /\ Len(q) + i \in 1..(Len(q) + Len(m)) /\ ~(Len(q) + i <= Len(q))
          /\ Len(q) + i - Len(q) = i
      BY <1>1, <1>2
    <2> QED
      BY <1>2, <1>4, <2>1
  <1> QED
    BY <1>1, <1>2, <1>4, <1>5, <1>6, <1>7 DEF q

\* converge has that shape, whatever addresses it drops and adds.
LEMMA ConvergeShape ==
  ASSUME NEW n \in Interfaces, NEW vrf \in Vrfs \cup {Absent}, NEW ips \in SUBSET Addresses
  PROVE  \E nd \in Nat :
            PlanShape(converge(n, vrf, ips), n, stale(n, vrf, ips),
                      attribute(n, vrf, ips), missing(n, vrf, ips), nd)
  <1> DEFINE X == stale(n, vrf, ips)  Y == missing(n, vrf, ips)
             D == Dels(IpRows(n, X))  M == Marks(IpRows(n, Y))
             A == attribute(n, vrf, ips)  p == converge(n, vrf, ips)
  <1>1. X \subseteq Addresses /\ Y \subseteq Addresses
    BY DEF stale, missing, AddressesOf
  <1>2. /\ D \in Seq(Command) /\ Len(D) \in Nat
        /\ \A i \in 1..Len(D) : \E k \in IpRows(n, X) : D[i] = Del(k)
        /\ \A k \in IpRows(n, X) : \E i \in 1..Len(D) : D[i] = Del(k)
    BY <1>1, IpRowsFinite, DelsShape
  <1>3. /\ M \in Seq(Command) /\ Len(M) \in Nat
        /\ \A i \in 1..Len(M) : \E k \in IpRows(n, Y) : M[i] = HSet(k, Marker)
        /\ \A k \in IpRows(n, Y) : \E i \in 1..Len(M) : M[i] = HSet(k, Marker)
    BY <1>1, IpRowsFinite, MarksShape, FieldsKnown
  <1>4. A \in Seq(Command) /\ Len(A) \in {1, 2}
    BY AttributeFacts
  <1>5. p = D \o A \o M
    BY DEF converge
  <1> HIDE DEF X, Y, D, M, A, p
  <1>6. /\ p \in Seq(Command) /\ Len(p) = Len(D) + Len(A) + Len(M)
        /\ \A i \in 1..Len(D) : p[i] = D[i]
        /\ \A i \in 1..Len(A) : p[Len(D) + i] = A[i]
        /\ \A i \in 1..Len(M) : p[Len(D) + Len(A) + i] = M[i]
    BY <1>2, <1>3, <1>4, <1>5, Concat3
  <1>7. /\ \A i \in 1..Len(D) : \E a \in X : p[i] = Del(Ip(n, a))
        /\ \A a \in X : \E i \in 1..Len(D) : p[i] = Del(Ip(n, a))
    <2>1. \A i \in 1..Len(D) : \E a \in X : D[i] = Del(Ip(n, a))
      BY <1>2 DEF IpRows
    <2>2. \A a \in X : \E i \in 1..Len(D) : D[i] = Del(Ip(n, a))
      BY <1>2 DEF IpRows
    <2>3. \A i \in 1..Len(D) : p[i] = D[i]
      BY <1>6
    <2> QED
      BY <2>1, <2>2, <2>3
  <1>8. \A i \in (Len(D) + Len(A) + 1)..Len(p) : \E a \in Y : p[i] = HSet(Ip(n, a), Marker)
    <2> TAKE i \in (Len(D) + Len(A) + 1)..Len(p)
    <2>1. /\ i - (Len(D) + Len(A)) \in 1..Len(M)
          /\ Len(D) + Len(A) + (i - (Len(D) + Len(A))) = i
      BY <1>2, <1>3, <1>4, <1>6
    <2>2. p[i] = M[i - (Len(D) + Len(A))]
      BY <1>6, <2>1
    <2> QED
      BY <1>3, <2>1, <2>2 DEF IpRows
  <1>9. \A a \in Y : \E i \in (Len(D) + Len(A) + 1)..Len(p) : p[i] = HSet(Ip(n, a), Marker)
    <2> TAKE a \in Y
    <2>1. PICK j \in 1..Len(M) : M[j] = HSet(Ip(n, a), Marker)
      BY <1>3 DEF IpRows
    <2>2. Len(D) + Len(A) + j \in (Len(D) + Len(A) + 1)..Len(p)
      BY <1>2, <1>3, <1>4, <1>6
    <2> QED
      BY <1>6, <2>1, <2>2
  <1>10. Len(p) \in Nat /\ Len(D) + Len(A) <= Len(p)
    BY <1>2, <1>3, <1>4, <1>6
  <1>11. PlanShape(p, n, X, A, Y, Len(D))
    BY <1>2, <1>4, <1>6, <1>7, <1>8, <1>9, <1>10 DEF PlanShape
  <1> QED
    BY <1>2, <1>11 DEF X, Y, A, p

\* DELETE of a loopback is the PUT of nothing, without a batch.
LEMMA DeleteShape ==
  ASSUME NEW n \in Interfaces
  PROVE  \E nd \in Nat :
            PlanShape(Append(Dels(IpRows(n, AddressesOf(db, n))), Del(Attr(n))), n,
                      AddressesOf(db, n), attribute(n, Absent, {}), {}, nd)
  <1> DEFINE X == AddressesOf(db, n)  D == Dels(IpRows(n, X))  c == Del(Attr(n))
             p == Append(D, c)
  <1>1. X \subseteq Addresses
    BY DEF AddressesOf
  <1>2. /\ D \in Seq(Command) /\ Len(D) \in Nat
        /\ \A i \in 1..Len(D) : \E k \in IpRows(n, X) : D[i] = Del(k)
        /\ \A k \in IpRows(n, X) : \E i \in 1..Len(D) : D[i] = Del(k)
    BY <1>1, IpRowsFinite, DelsShape
  <1>3. c \in Command
    BY KeysKnown DEF Del, Command, Update, NoRow
  <1>4. attribute(n, Absent, {}) = <<c>>
    BY DEF attribute
  <1> HIDE DEF X, D, c
  <1>5. /\ p \in Seq(Command) /\ Len(p) = Len(D) + 1 /\ p[Len(D) + 1] = c
        /\ \A i \in 1..Len(D) : p[i] = D[i]
    BY <1>2, <1>3, PushLast, AppendProperties
  <1> HIDE DEF p
  <1>6. Len(<<c>>) = 1 /\ <<c>>[1] = c
    OBVIOUS
  <1>7. /\ \A i \in 1..Len(D) : \E a \in X : p[i] = Del(Ip(n, a))
        /\ \A a \in X : \E i \in 1..Len(D) : p[i] = Del(Ip(n, a))
    BY <1>2, <1>5 DEF IpRows
  <1> DEFINE A == <<c>>
  <1>8. /\ Len(A) \in {1, 2} /\ \A i \in 1..Len(A) : p[Len(D) + i] = A[i]
        /\ Len(p) \in Nat /\ Len(D) + Len(A) <= Len(p)
        /\ (Len(D) + Len(A) + 1)..Len(p) = {}
    BY <1>2, <1>5, <1>6
  <1> HIDE DEF A
  <1>9. PlanShape(p, n, X, A, {}, Len(D))
    BY <1>2, <1>5, <1>7, <1>8 DEF PlanShape
  <1> QED
    BY <1>2, <1>4, <1>9 DEF X, D, c, p, A

----------------------------------------------------------------------------
(***************************************************************************)
(* The course of such a plan from a database d: what each row is after i   *)
(* commands.  InterfacePlan collects what the plans of l3.rs have in       *)
(* common.                                                                 *)
(***************************************************************************)
InterfacePlan(p, n, vrf, ips, X, Y, nd) ==
    /\ n \in Interfaces /\ vrf \in Vrfs \cup {Absent}
    /\ X \subseteq Addresses /\ Y \subseteq Addresses
    /\ PlanShape(p, n, X, attribute(n, vrf, ips), Y, nd)

\* Which command stands where.
LEMMA PlanCommands ==
  ASSUME NEW p, NEW n, NEW vrf, NEW ips, NEW X, NEW Y, NEW nd,
         InterfacePlan(p, n, vrf, ips, X, Y, nd)
  PROVE  LET na == Len(attribute(n, vrf, ips))
         IN  /\ nd \in Nat /\ na \in {1, 2} /\ Len(p) \in Nat /\ nd + na <= Len(p)
             /\ p \in Seq(Command)
             /\ \A j \in 1..Len(p) :
                   /\ j <= nd => \E a \in X : p[j] = Del(Ip(n, a))
                   /\ nd < j /\ j <= nd + na => p[j].key = Attr(n)
                   /\ nd + na < j => \E a \in Y : p[j] = HSet(Ip(n, a), Marker)
                   /\ p[j].key = Attr(n) => nd < j /\ j <= nd + na
                   /\ p[j].key \in {Attr(n)} \cup IpRows(n, Addresses)
             /\ p[nd + 1].upd["vrf_name"] = vrf
             /\ \A j \in 1..Len(p) : j = nd + 2 /\ p[j].key = Attr(n) => p[j].upd["vrf_name"] = Keep
             /\ na = 1 => vrf = Absent /\ ips = {}
             /\ vrf = Absent /\ ips # {} =>
                  /\ na = 2 /\ p[nd + 2].upd["NULL"] = "NULL"
                  /\ \A f \in Fields : f # "vrf_name" => p[nd + 1].upd[f] = Keep
  <1> DEFINE A == attribute(n, vrf, ips)  na == Len(A)
  <1>1. /\ A \in Seq(Command) /\ na \in {1, 2}
        /\ \A i \in 1..na : A[i].key = Attr(n)
        /\ A[1].upd["vrf_name"] = vrf
        /\ na = 2 => A[2].upd["vrf_name"] = Keep
        /\ na = 1 => vrf = Absent /\ ips = {} /\ A[1] = Del(Attr(n))
        /\ vrf = Absent /\ ips # {} =>
             /\ na = 2 /\ A[2].upd["NULL"] = "NULL"
             /\ \A f \in Fields : f # "vrf_name" => A[1].upd[f] = Keep
    BY AttributeFacts DEF InterfacePlan
  <1>2. PlanShape(p, n, X, A, Y, nd) /\ X \subseteq Addresses /\ Y \subseteq Addresses
    BY DEF InterfacePlan
  <1> HIDE DEF A
  <1>3. /\ p \in Seq(Command) /\ Len(p) \in Nat /\ nd \in Nat /\ nd + na <= Len(p)
        /\ \A j \in 1..nd : \E a \in X : p[j] = Del(Ip(n, a))
        /\ \A j \in 1..na : p[nd + j] = A[j]
        /\ \A j \in (nd + na + 1)..Len(p) : \E a \in Y : p[j] = HSet(Ip(n, a), Marker)
    BY <1>2 DEF PlanShape
  <1> HIDE DEF na
  <1>4. p[nd + 1] = A[1] /\ (na = 2 => p[nd + 2] = A[2])
    BY <1>1, <1>3
  <1>5. ASSUME NEW j \in 1..Len(p)
        PROVE  /\ j <= nd => \E a \in X : p[j] = Del(Ip(n, a))
               /\ nd < j /\ j <= nd + na => p[j].key = Attr(n)
               /\ nd + na < j => \E a \in Y : p[j] = HSet(Ip(n, a), Marker)
    <2>1. j <= nd => j \in 1..nd
      BY <1>3
    <2>2. nd < j /\ j <= nd + na => j - nd \in 1..na /\ nd + (j - nd) = j
      BY <1>1, <1>3
    <2>3. nd + na < j => j \in (nd + na + 1)..Len(p)
      BY <1>1, <1>3
    <2>4. nd < j /\ j <= nd + na => p[j].key = Attr(n)
      BY <1>1, <1>3, <2>2
    <2> QED
      BY <1>3, <2>1, <2>3, <2>4
  <1>6. ASSUME NEW j \in 1..Len(p)
        PROVE  /\ p[j].key = Attr(n) => nd < j /\ j <= nd + na
               /\ p[j].key \in {Attr(n)} \cup IpRows(n, Addresses)
    <2>1. \A a : Del(Ip(n, a)).key # Attr(n) /\ HSet(Ip(n, a), Marker).key # Attr(n)
      BY KeysApart DEF Del, HSet
    <2>2. \A a \in Addresses : /\ Del(Ip(n, a)).key \in IpRows(n, Addresses)
                              /\ HSet(Ip(n, a), Marker).key \in IpRows(n, Addresses)
      BY DEF Del, HSet, IpRows
    <2>3. j <= nd \/ (nd < j /\ j <= nd + na) \/ nd + na < j
      BY <1>1, <1>3
    <2> QED
      BY <1>2, <1>5, <2>1, <2>2, <2>3
  <1>7. \A j \in 1..Len(p) : j = nd + 2 /\ p[j].key = Attr(n) => p[j].upd["vrf_name"] = Keep
    <2> TAKE j \in 1..Len(p)
    <2> HAVE j = nd + 2 /\ p[j].key = Attr(n)
    <2>1. na = 2
      BY <1>1, <1>3, <1>6
    <2> QED
      BY <1>1, <1>4, <2>1
  <1> QED
    BY <1>1, <1>3, <1>4, <1>5, <1>6, <1>7 DEF A, na

\* Rows of other interfaces and of VRFs stay.
LEMMA OtherRows ==
  ASSUME NEW p, NEW n, NEW vrf, NEW ips, NEW X, NEW Y, NEW nd,
         InterfacePlan(p, n, vrf, ips, X, Y, nd),
         NEW d \in [Keys -> Row], NEW i \in 0..Len(p),
         NEW k \in Keys, k \notin {Attr(n)} \cup IpRows(n, Addresses)
  PROVE  After(d, p, i)[k] = d[k]
  <1>0. /\ Len(p) \in Nat
        /\ \A j \in 1..Len(p) : p[j].key \in {Attr(n)} \cup IpRows(n, Addresses)
    BY PlanCommands
  <1>1. Len(p) \in Nat /\ \A j \in 1..Len(p) : p[j].key # k
    BY <1>0
  <1>2. i \in Nat /\ \A j \in 1..i : p[j].key # k
    BY <1>1
  <1> QED
    BY <1>2, AfterLocal

\* The attribute row: as it was, then bound as the request says.
LEMMA AttributeRow ==
  ASSUME NEW p, NEW n, NEW vrf, NEW ips, NEW X, NEW Y, NEW nd,
         InterfacePlan(p, n, vrf, ips, X, Y, nd),
         NEW d \in [Keys -> Row], NEW i \in 0..Len(p)
  PROVE  /\ i <= nd => After(d, p, i)[Attr(n)] = d[Attr(n)]
         /\ nd < i => VrfOf(After(d, p, i), n) = vrf
         /\ vrf = Absent /\ ips # {} /\ nd + 1 < i => After(d, p, i)[Attr(n)]["NULL"] = "NULL"
         /\ vrf = Absent /\ ips # {} /\ i = nd + 1 /\ VrfOf(d, n) = Absent
              => After(d, p, i)[Attr(n)] = d[Attr(n)]
  <1> DEFINE na == Len(attribute(n, vrf, ips))  e == After(d, p, i)
  <1>1. /\ nd \in Nat /\ na \in {1, 2} /\ Len(p) \in Nat /\ nd + na <= Len(p)
        /\ \A j \in 1..Len(p) : /\ p[j].key = Attr(n) => nd < j /\ j <= nd + na
                                /\ nd < j /\ j <= nd + na => p[j].key = Attr(n)
        /\ p[nd + 1].upd["vrf_name"] = vrf
        /\ \A j \in 1..Len(p) : j = nd + 2 /\ p[j].key = Attr(n) => p[j].upd["vrf_name"] = Keep
        /\ vrf = Absent /\ ips # {} =>
             /\ na = 2 /\ p[nd + 2].upd["NULL"] = "NULL"
             /\ \A f \in Fields : f # "vrf_name" => p[nd + 1].upd[f] = Keep
    BY PlanCommands
  <1> HIDE DEF na
  <1>2. i \in Nat /\ i <= Len(p) /\ \A j \in 1..i : j \in 1..Len(p)
    BY <1>1
  <1>3. Attr(n) \in Keys /\ "vrf_name" \in Fields /\ "NULL" \in Fields
        /\ vrf # Keep /\ "NULL" # Keep
    BY KeysKnown, FieldsKnown, StoreConstants DEF InterfacePlan
  <1>4. i <= nd => e[Attr(n)] = d[Attr(n)]
    <2>1. i <= nd => \A j \in 1..i : p[j].key # Attr(n)
      BY <1>1, <1>2
    <2> QED
      BY <1>2, <1>3, <2>1, AfterLocal
  <1>5. ASSUME nd < i PROVE VrfOf(e, n) = vrf
    <2>1. nd + 1 \in 1..i /\ nd + 1 \in 1..Len(p)
      BY <1>1, <1>2, <1>5
    <2>2. Decides(p[nd + 1], Attr(n), "vrf_name")
      BY <1>1, <1>3, <2>1 DEF Decides
    <2>3. \A j \in 1..i : Decides(p[j], Attr(n), "vrf_name") => j <= nd + 1
      <3> SUFFICES ASSUME NEW j \in 1..i, Decides(p[j], Attr(n), "vrf_name") PROVE j <= nd + 1
        OBVIOUS
      <3>1. p[j].key = Attr(n) /\ p[j].upd["vrf_name"] # Keep
        BY DEF Decides
      <3>2. nd < j /\ j <= nd + na /\ j # nd + 2
        BY <1>1, <1>2, <3>1
      <3> QED
        BY <1>1, <3>2
    <2>4. e[Attr(n)]["vrf_name"] = p[nd + 1].upd["vrf_name"]
      BY <1>2, <1>3, <2>1, <2>2, <2>3, AfterSet
    <2> QED
      BY <1>1, <2>4 DEF VrfOf
  <1>6. ASSUME vrf = Absent, ips # {}, nd + 1 < i PROVE e[Attr(n)]["NULL"] = "NULL"
    <2>1. nd + 2 \in 1..i /\ nd + 2 \in 1..Len(p) /\ na = 2
      BY <1>1, <1>2, <1>6
    <2>2. Decides(p[nd + 2], Attr(n), "NULL")
      BY <1>1, <1>3, <1>6, <2>1 DEF Decides
    <2>3. \A j \in 1..i : Decides(p[j], Attr(n), "NULL") => j <= nd + 2
      BY <1>1, <1>2, <2>1 DEF Decides
    <2>4. e[Attr(n)]["NULL"] = p[nd + 2].upd["NULL"]
      BY <1>2, <1>3, <2>1, <2>2, <2>3, AfterSet
    <2> QED
      BY <1>1, <1>6, <2>4
  <1>7. ASSUME vrf = Absent, ips # {}, i = nd + 1, VrfOf(d, n) = Absent
        PROVE  e[Attr(n)] = d[Attr(n)]
    <2>1. ASSUME NEW f \in Fields PROVE e[Attr(n)][f] = d[Attr(n)][f]
      <3>1. CASE f = "vrf_name"
        BY <1>1, <1>5, <1>7, <3>1 DEF VrfOf
      <3>2. CASE f # "vrf_name"
        <4>1. \A j \in 1..i : ~Decides(p[j], Attr(n), f)
          BY <1>1, <1>2, <1>7, <3>2 DEF Decides
        <4> QED
          BY <1>2, <1>3, <4>1, AfterKept
      <3> QED
        BY <3>1, <3>2
    <2>2. e[Attr(n)] = [f \in Fields |-> e[Attr(n)][f]] /\ d[Attr(n)] = [f \in Fields |-> d[Attr(n)][f]]
      BY <1>3 DEF After, Row
    <2> QED
      BY <2>1, <2>2
  <1> QED
    BY <1>4, <1>5, <1>6, <1>7

\* A row exists when it has a field.
LEMMA HasField ==
  ASSUME NEW d \in [Keys -> Row], NEW k \in Keys, NEW f \in Fields, d[k][f] # Absent
  PROVE  Exists(d, k)
  BY DEF Exists, NoRow, Row

(***************************************************************************)
(* An address row: as it was or gone until the markers are written; once   *)
(* the deletions are done, gone if it was stale and as it was if not,      *)
(* unless it is marked; at the end there if it was to be added.            *)
(***************************************************************************)
LEMMA AddressRow ==
  ASSUME NEW p, NEW n, NEW vrf, NEW ips, NEW X, NEW Y, NEW nd,
         InterfacePlan(p, n, vrf, ips, X, Y, nd),
         NEW d \in [Keys -> Row], NEW i \in 0..Len(p), NEW a \in Addresses
  PROVE  LET na == Len(attribute(n, vrf, ips))  e == After(d, p, i)
         IN  /\ i <= nd + na => e[Ip(n, a)] \in {d[Ip(n, a)], NoRow}
             /\ nd <= i /\ (a \notin Y \/ i <= nd + na) =>
                  e[Ip(n, a)] = IF a \in X THEN NoRow ELSE d[Ip(n, a)]
             /\ i = Len(p) /\ a \in Y => Exists(e, Ip(n, a))
  <1> DEFINE na == Len(attribute(n, vrf, ips))  e == After(d, p, i)  k == Ip(n, a)
             K(j) == p[j].key
  <1>1. /\ nd \in Nat /\ na \in {1, 2} /\ Len(p) \in Nat /\ nd + na <= Len(p)
        /\ p \in Seq(Command)
        /\ \A j \in 1..Len(p) :
              /\ j <= nd => \E b \in X : p[j] = Del(Ip(n, b))
              /\ nd < j /\ j <= nd + na => p[j].key = Attr(n)
              /\ nd + na < j => \E b \in Y : p[j] = HSet(Ip(n, b), Marker)
    BY PlanCommands
  <1>2. /\ \A b \in X : \E j \in 1..nd : p[j] = Del(Ip(n, b))
        /\ \A b \in Y : \E j \in (nd + na + 1)..Len(p) : p[j] = HSet(Ip(n, b), Marker)
        /\ k \in Keys /\ d[k] \in Row
    BY KeysKnown DEF InterfacePlan, PlanShape
  <1> HIDE DEF na, k
  <1>3. /\ \A b : Del(Ip(n, b)).key = k => b = a
        /\ \A b : HSet(Ip(n, b), Marker).key = k => b = a
        /\ Del(Ip(n, a)).key = k /\ HSet(Ip(n, a), Marker).key = k
        /\ Attr(n) # k
    BY KeysApart DEF Del, HSet, k
  <1>4. \A j \in 1..Len(p) : p[j].key = k =>
           \/ j <= nd /\ a \in X /\ p[j] = Del(Ip(n, a))
           \/ nd + na < j /\ a \in Y /\ p[j] = HSet(Ip(n, a), Marker)
    BY <1>1, <1>3
  <1>5. i \in Nat /\ i <= Len(p) /\ \A j \in 1..i : j \in 1..Len(p)
    BY <1>1
  <1>6. \A f \in Fields : Del(Ip(n, a)).upd[f] = Absent /\ Absent # Keep
    BY StoreConstants DEF Del, NoRow
  <1>7. ASSUME a \notin Y \/ i <= nd + na, NEW j \in 1..i, p[j].key = k
        PROVE  e[k] = NoRow
    <2>1. \A m \in 1..i : p[m].key = k => p[m] = Del(Ip(n, a))
      BY <1>1, <1>4, <1>5, <1>7
    <2>2. ASSUME NEW f \in Fields PROVE e[k][f] = Absent
      <3>1. Decides(p[j], k, f)
        BY <1>6, <1>7, <2>1 DEF Decides
      <3>2. PICK m \in 1..i : /\ Decides(p[m], k, f)
                              /\ \A l \in 1..i : Decides(p[l], k, f) => l <= m
        BY <1>5, <3>1, LastDecider
      <3>3. e[k][f] = p[m].upd[f]
        BY <1>2, <1>5, <3>2, AfterSet
      <3> QED
        BY <1>6, <2>1, <3>2, <3>3 DEF Decides
    <2>3. e[k] = [f \in Fields |-> e[k][f]]
      BY <1>2 DEF After
    <2> QED
      BY <2>2, <2>3 DEF NoRow
  <1>8. ASSUME \A j \in 1..i : p[j].key # k PROVE e[k] = d[k]
    BY <1>2, <1>5, <1>8, AfterLocal
  <1>9. i <= nd + na => e[k] \in {d[k], NoRow}
    BY <1>7, <1>8
  <1>10. ASSUME nd <= i, a \notin Y \/ i <= nd + na
         PROVE  e[k] = IF a \in X THEN NoRow ELSE d[k]
    <2>1. CASE a \in X
      <3>1. PICK j \in 1..nd : p[j] = Del(Ip(n, a))
        BY <1>2, <2>1
      <3>2. j \in 1..i /\ p[j].key = k
        BY <1>1, <1>3, <1>5, <1>10, <3>1
      <3> QED
        BY <1>7, <1>10, <2>1, <3>2
    <2>2. CASE a \notin X
      <3>1. \A j \in 1..i : p[j].key # k
        BY <1>1, <1>4, <1>5, <1>10, <2>2
      <3> QED
        BY <1>8, <2>2, <3>1
    <2> QED
      BY <2>1, <2>2
  <1>11. ASSUME i = Len(p), a \in Y PROVE Exists(e, k)
    <2>1. PICK j \in (nd + na + 1)..Len(p) : p[j] = HSet(Ip(n, a), Marker)
      BY <1>2, <1>11
    <2>2. "NULL" \in Fields /\ "NULL" # Keep /\ "NULL" # Absent
          /\ HSet(Ip(n, a), Marker).upd["NULL"] = "NULL"
      BY FieldsKnown, StoreConstants DEF HSet, Marker
    <2>3. j \in 1..i /\ nd + na < j /\ Decides(p[j], k, "NULL")
      BY <1>1, <1>3, <1>11, <2>1, <2>2 DEF Decides
    <2>4. PICK m \in 1..i : /\ Decides(p[m], k, "NULL")
                            /\ \A l \in 1..i : Decides(p[l], k, "NULL") => l <= m
      BY <1>5, <2>3, LastDecider
    <2>5. p[m].key = k /\ j <= m
      BY <2>3, <2>4 DEF Decides
    <2>6. nd < m
      BY <1>1, <1>5, <2>3, <2>5
    <2>7. p[m] = HSet(Ip(n, a), Marker)
      BY <1>1, <1>4, <1>5, <2>5, <2>6
    <2>8. e[k]["NULL"] = "NULL"
      BY <1>2, <1>5, <2>2, <2>4, <2>7, AfterSet
    <2>9. e \in [Keys -> Row]
      BY <1>1, AfterType
    <2> QED
      BY <1>2, <2>2, <2>8, <2>9, HasField
  <1> QED
    BY <1>9, <1>10, <1>11 DEF na, k

----------------------------------------------------------------------------
(***************************************************************************)
(* What a plan of l3.rs asks of the database it was made from: the VRF is  *)
(* there, and the addresses to drop and to add are those of stale and      *)
(* missing.                                                                *)
(***************************************************************************)
Planned(d, p, n, vrf, ips, X, Y, nd) ==
    /\ InterfacePlan(p, n, vrf, ips, X, Y, nd)
    /\ d \in [Keys -> Row] /\ ips \subseteq Addresses
    /\ vrf # Absent => Exists(d, Vrf(vrf))
    /\ VrfOf(d, n) # vrf => X = AddressesOf(d, n) /\ Y = ips
    /\ VrfOf(d, n) = vrf => X = AddressesOf(d, n) \ ips /\ Y = ips \ AddressesOf(d, n)

\* The other interfaces and the VRFs look the same all the way.
LEMMA OthersSame ==
  ASSUME NEW p, NEW n, NEW vrf, NEW ips, NEW X, NEW Y, NEW nd,
         InterfacePlan(p, n, vrf, ips, X, Y, nd),
         NEW d \in [Keys -> Row], NEW i \in 0..Len(p)
  PROVE  LET e == After(d, p, i)
         IN  /\ \A v \in Vrfs : Exists(e, Vrf(v)) <=> Exists(d, Vrf(v))
             /\ \A m \in Interfaces : m # n =>
                  /\ VrfOf(e, m) = VrfOf(d, m)
                  /\ AddressesOf(e, m) = AddressesOf(d, m)
                  /\ Exists(e, Attr(m)) <=> Exists(d, Attr(m))
  <1> DEFINE e == After(d, p, i)
  <1>1. \A k \in Keys : k \notin {Attr(n)} \cup IpRows(n, Addresses) => e[k] = d[k]
    BY OtherRows
  <1> HIDE DEF e
  <1>2. \A v \in Vrfs : e[Vrf(v)] = d[Vrf(v)]
    BY <1>1, KeysApart, KeysKnown DEF IpRows
  <1>3. ASSUME NEW m \in Interfaces, m # n
        PROVE  /\ e[Attr(m)] = d[Attr(m)]
               /\ \A a \in Addresses : e[Ip(m, a)] = d[Ip(m, a)]
    <2>1. Attr(m) \in Keys /\ Attr(m) \notin {Attr(n)} \cup IpRows(n, Addresses)
      BY <1>3, KeysApart, KeysKnown DEF IpRows
    <2>2. \A a \in Addresses : Ip(m, a) \in Keys /\ Ip(m, a) \notin {Attr(n)} \cup IpRows(n, Addresses)
      BY <1>3, KeysApart, KeysKnown DEF IpRows
    <2> QED
      BY <1>1, <2>1, <2>2
  <1>4. /\ \A v \in Vrfs : Exists(e, Vrf(v)) <=> Exists(d, Vrf(v))
        /\ \A m \in Interfaces : m # n =>
             /\ VrfOf(e, m) = VrfOf(d, m)
             /\ AddressesOf(e, m) = AddressesOf(d, m)
             /\ Exists(e, Attr(m)) <=> Exists(d, Attr(m))
    BY <1>2, <1>3 DEF VrfOf, AddressesOf, Exists
  <1> QED
    BY <1>4 DEF e

\* Every binding on the way is to a VRF that exists.
LEMMA CourseBound ==
  ASSUME NEW d, NEW p, NEW n, NEW vrf, NEW ips, NEW X, NEW Y, NEW nd,
         Planned(d, p, n, vrf, ips, X, Y, nd),
         WellBound(d), NEW i \in 0..Len(p)
  PROVE  WellBound(After(d, p, i))
  <1> DEFINE e == After(d, p, i)
  <1>1. /\ InterfacePlan(p, n, vrf, ips, X, Y, nd) /\ d \in [Keys -> Row]
        /\ vrf \in Vrfs \cup {Absent} /\ (vrf # Absent => Exists(d, Vrf(vrf)))
        /\ n \in Interfaces
    BY DEF Planned, InterfacePlan
  <1>2. /\ \A v \in Vrfs : Exists(e, Vrf(v)) <=> Exists(d, Vrf(v))
        /\ \A m \in Interfaces : m # n => VrfOf(e, m) = VrfOf(d, m)
    BY <1>1, OthersSame
  <1>3. nd \in Nat /\ i \in Nat
    BY <1>1, PlanCommands
  <1>4. VrfOf(e, n) \in {VrfOf(d, n), vrf}
    <2>1. CASE i <= nd
      BY <1>1, <2>1, AttributeRow DEF VrfOf
    <2>2. CASE nd < i
      BY <1>1, <2>2, AttributeRow
    <2> QED
      BY <1>3, <2>1, <2>2
  <1> HIDE DEF e
  <1>5. WellBound(e)
    BY <1>1, <1>2, <1>4 DEF WellBound
  <1> QED
    BY <1>5 DEF e

\* Every address on the way has its attribute row.
LEMMA CourseParented ==
  ASSUME NEW d, NEW p, NEW n, NEW vrf, NEW ips, NEW X, NEW Y, NEW nd,
         Planned(d, p, n, vrf, ips, X, Y, nd),
         Parented(d), NEW i \in 0..Len(p)
  PROVE  Parented(After(d, p, i))
  <1> DEFINE e == After(d, p, i)  na == Len(attribute(n, vrf, ips))
  <1>1. /\ InterfacePlan(p, n, vrf, ips, X, Y, nd) /\ d \in [Keys -> Row]
        /\ vrf \in Vrfs \cup {Absent} /\ n \in Interfaces /\ Attr(n) \in Keys
        /\ ips \subseteq Addresses
    BY KeysKnown DEF Planned, InterfacePlan
  <1>2. \A m \in Interfaces : m # n =>
          /\ AddressesOf(e, m) = AddressesOf(d, m)
          /\ Exists(e, Attr(m)) <=> Exists(d, Attr(m))
    BY <1>1, OthersSame
  <1>3. nd \in Nat /\ i \in Nat /\ na \in {1, 2} /\ p \in Seq(Command)
        /\ (vrf = Absent /\ ips # {} => na = 2)
    BY <1>1, PlanCommands
  <1>4. e \in [Keys -> Row] /\ "vrf_name" \in Fields /\ "NULL" \in Fields /\ "NULL" # Absent
    BY <1>1, <1>3, AfterType, FieldsKnown, StoreConstants
  <1>5. /\ i <= nd => e[Attr(n)] = d[Attr(n)]
        /\ nd < i => VrfOf(e, n) = vrf
        /\ vrf = Absent /\ ips # {} /\ nd + 1 < i => e[Attr(n)]["NULL"] = "NULL"
        /\ vrf = Absent /\ ips # {} /\ i = nd + 1 /\ VrfOf(d, n) = Absent
             => e[Attr(n)] = d[Attr(n)]
    BY <1>1, AttributeRow
  <1>6. \A a \in Addresses :
          /\ i <= nd + na => e[Ip(n, a)] \in {d[Ip(n, a)], NoRow}
          /\ nd <= i /\ (a \notin Y \/ i <= nd + na) =>
               e[Ip(n, a)] = IF a \in X THEN NoRow ELSE d[Ip(n, a)]
    BY <1>1, AddressRow
  <1>7. /\ VrfOf(d, n) # vrf => X = AddressesOf(d, n) /\ Y = ips
        /\ VrfOf(d, n) = vrf => X = AddressesOf(d, n) \ ips /\ Y = ips \ AddressesOf(d, n)
    BY DEF Planned
  <1> HIDE DEF e, na
  <1>8. ASSUME i <= nd + na, e[Attr(n)] = d[Attr(n)], AddressesOf(e, n) # {}
        PROVE  Exists(e, Attr(n))
    <2>1. PICK a \in Addresses : Exists(e, Ip(n, a))
      BY <1>8 DEF AddressesOf
    <2>2. Exists(d, Ip(n, a))
      BY <1>6, <1>8, <2>1 DEF Exists
    <2>3. Exists(d, Attr(n))
      BY <1>1, <2>2 DEF Parented, AddressesOf
    <2> QED
      BY <1>8, <2>3 DEF Exists
  <1>9. ASSUME nd <= i, X = AddressesOf(d, n), Y = {} \/ i <= nd + na
        PROVE  AddressesOf(e, n) = {}
    BY <1>6, <1>9 DEF AddressesOf, Exists
  <1>10. ASSUME AddressesOf(e, n) # {} PROVE Exists(e, Attr(n))
    <2>1. CASE i <= nd
      <3>1. i <= nd + na
        BY <1>3, <2>1
      <3> QED
        BY <1>5, <1>8, <1>10, <2>1, <3>1
    <2>2. CASE nd < i /\ vrf # Absent
      BY <1>1, <1>4, <1>5, <2>2, HasField DEF VrfOf
    <2>3. CASE nd < i /\ vrf = Absent /\ ips = {}
      <3>1. X = AddressesOf(d, n) /\ Y = {} /\ nd <= i
        BY <1>3, <1>7, <2>3
      <3> QED
        BY <1>9, <1>10, <3>1
    <2>4. CASE nd + 1 < i /\ vrf = Absent /\ ips # {}
      BY <1>1, <1>4, <1>5, <2>4, HasField
    <2>5. CASE i = nd + 1 /\ vrf = Absent /\ ips # {}
      <3>1. i <= nd + na /\ nd <= i
        BY <1>3, <2>5
      <3>2. CASE VrfOf(d, n) = Absent
        BY <1>5, <1>8, <1>10, <2>5, <3>1, <3>2
      <3>3. CASE VrfOf(d, n) # Absent
        BY <1>7, <1>9, <1>10, <2>5, <3>1, <3>3
      <3> QED
        BY <3>2, <3>3
    <2> QED
      BY <1>3, <2>1, <2>2, <2>3, <2>4, <2>5
  <1>11. Parented(e)
    BY <1>2, <1>10 DEF Parented
  <1> QED
    BY <1>11 DEF e

\* Only a bare interface changes its VRF on the way.
LEMMA CourseRebinds ==
  ASSUME NEW d, NEW p, NEW n, NEW vrf, NEW ips, NEW X, NEW Y, NEW nd,
         Planned(d, p, n, vrf, ips, X, Y, nd), NEW i \in 1..Len(p)
  PROVE  Rebinds(After(d, p, i - 1), After(d, p, i))
  <1> DEFINE c == After(d, p, i - 1)  e == After(d, p, i)
             na == Len(attribute(n, vrf, ips))
  <1>1. /\ InterfacePlan(p, n, vrf, ips, X, Y, nd) /\ d \in [Keys -> Row] /\ n \in Interfaces
        /\ VrfOf(d, n) # vrf => X = AddressesOf(d, n)
    BY DEF Planned, InterfacePlan
  <1>2. nd \in Nat /\ na \in {1, 2} /\ Len(p) \in Nat
    BY <1>1, PlanCommands
  <1>3. i \in 0..Len(p) /\ i - 1 \in 0..Len(p)
    BY <1>2
  <1>4. \A m \in Interfaces : m # n => VrfOf(c, m) = VrfOf(e, m)
    BY <1>1, <1>3, OthersSame
  <1>5. /\ i <= nd => VrfOf(e, n) = VrfOf(d, n)
        /\ nd < i => VrfOf(e, n) = vrf
    BY <1>1, <1>3, AttributeRow DEF VrfOf
  <1>6. /\ i - 1 <= nd => VrfOf(c, n) = VrfOf(d, n)
        /\ nd < i - 1 => VrfOf(c, n) = vrf
    BY <1>1, <1>3, AttributeRow DEF VrfOf
  <1>7. \A a \in Addresses :
          nd <= i - 1 /\ i - 1 <= nd + na =>
               c[Ip(n, a)] = IF a \in X THEN NoRow ELSE d[Ip(n, a)]
    BY <1>1, <1>3, AddressRow
  <1> HIDE DEF c, e, na
  <1>8. ASSUME VrfOf(c, n) # VrfOf(e, n) PROVE AddressesOf(c, n) = {}
    <2>1. i - 1 = nd /\ VrfOf(d, n) # vrf
      BY <1>2, <1>5, <1>6, <1>8
    <2>2. nd <= i - 1 /\ i - 1 <= nd + na
      BY <1>2, <2>1
    <2> QED
      BY <1>1, <1>7, <2>1, <2>2 DEF AddressesOf, Exists
  <1>9. Rebinds(c, e)
    BY <1>4, <1>8 DEF Rebinds
  <1> QED
    BY <1>9 DEF c, e

\* The plan ends with the VRF and the addresses asked for.
LEMMA CourseEnds ==
  ASSUME NEW d, NEW p, NEW n, NEW vrf, NEW ips, NEW X, NEW Y, NEW nd,
         Planned(d, p, n, vrf, ips, X, Y, nd)
  PROVE  LET e == After(d, p, Len(p))
         IN  /\ VrfOf(e, n) = vrf /\ AddressesOf(e, n) = ips
             /\ \A i \in 1..Len(p) : p[i].key \in InterfaceKeys
  <1> DEFINE e == After(d, p, Len(p))  na == Len(attribute(n, vrf, ips))
  <1>1. /\ InterfacePlan(p, n, vrf, ips, X, Y, nd) /\ d \in [Keys -> Row]
        /\ n \in Interfaces /\ ips \subseteq Addresses
    BY DEF Planned, InterfacePlan
  <1>2. /\ nd \in Nat /\ na \in {1, 2} /\ Len(p) \in Nat /\ nd + na <= Len(p)
        /\ \A i \in 1..Len(p) : p[i].key \in {Attr(n)} \cup IpRows(n, Addresses)
    BY <1>1, PlanCommands
  <1> HIDE DEF na
  <1>3. Len(p) \in 0..Len(p) /\ nd < Len(p) /\ nd <= Len(p)
    BY <1>2
  <1>4. VrfOf(e, n) = vrf
    BY <1>1, <1>3, AttributeRow
  <1>5. \A a \in Addresses :
          /\ a \notin Y => e[Ip(n, a)] = IF a \in X THEN NoRow ELSE d[Ip(n, a)]
          /\ a \in Y => Exists(e, Ip(n, a))
    BY <1>1, <1>3, AddressRow
  <1>6. \/ X = AddressesOf(d, n) /\ Y = ips
        \/ X = AddressesOf(d, n) \ ips /\ Y = ips \ AddressesOf(d, n)
    BY DEF Planned
  <1> HIDE DEF e
  <1>7. ASSUME NEW a \in Addresses PROVE Exists(e, Ip(n, a)) <=> a \in ips
    <2>1. a \in AddressesOf(d, n) <=> d[Ip(n, a)] # NoRow
      BY DEF AddressesOf, Exists
    <2>2. CASE a \in Y
      BY <1>5, <1>6, <2>2
    <2>3. CASE a \notin Y
      <3>1. Exists(e, Ip(n, a)) <=> a \notin X /\ a \in AddressesOf(d, n)
        BY <1>5, <2>1, <2>3 DEF Exists
      <3> QED
        BY <1>6, <2>3, <3>1
    <2> QED
      BY <2>2, <2>3
  <1>8. AddressesOf(e, n) = ips
    BY <1>1, <1>7 DEF AddressesOf
  <1>9. \A i \in 1..Len(p) : p[i].key \in InterfaceKeys
    BY <1>1, <1>2 DEF IpRows, InterfaceKeys
  <1> QED
    BY <1>4, <1>8, <1>9 DEF e

----------------------------------------------------------------------------
(* The plans of the VRF endpoints write VRF rows only.                     *)

\* Where the interface rows are the same, so are bindings and addresses.
LEMMA SameInterfaces ==
  ASSUME NEW d, NEW e, \A k \in InterfaceKeys : e[k] = d[k]
  PROVE  /\ \A n \in Interfaces : VrfOf(e, n) = VrfOf(d, n)
         /\ Parented(d) => Parented(e)
         /\ Rebinds(d, e)
  <1>1. \A n \in Interfaces : /\ e[Attr(n)] = d[Attr(n)]
                              /\ \A a \in Addresses : e[Ip(n, a)] = d[Ip(n, a)]
    BY DEF InterfaceKeys
  <1>2. \A n \in Interfaces : VrfOf(e, n) = VrfOf(d, n) /\ AddressesOf(e, n) = AddressesOf(d, n)
    BY <1>1 DEF VrfOf, AddressesOf, Exists
  <1> QED
    BY <1>1, <1>2 DEF Parented, Rebinds, Exists

\* The row of a VRF is no interface's.
LEMMA VrfRowApart ==
  ASSUME NEW v, NEW k \in InterfaceKeys
  PROVE  k # Vrf(v) /\ k \in Keys
  BY KeysApart, KeysKnown DEF InterfaceKeys

\* Commands on the row of one VRF leave the interfaces alone.
LEMMA VrfPlan ==
  ASSUME NEW d \in [Keys -> Row], NEW p \in Seq(Command), NEW v \in Vrfs,
         \A j \in 1..Len(p) : p[j].key = Vrf(v)
  PROVE  /\ \A i \in 0..Len(p) :
              /\ \A n \in Interfaces : VrfOf(After(d, p, i), n) = VrfOf(d, n)
              /\ Parented(d) => Parented(After(d, p, i))
              /\ \A w \in Vrfs : w # v /\ Exists(d, Vrf(w)) => Exists(After(d, p, i), Vrf(w))
         /\ \A i \in 1..Len(p) : Rebinds(After(d, p, i - 1), After(d, p, i))
  <1>1. Len(p) \in Nat
    BY LenProperties
  <1>2. ASSUME NEW i \in 0..Len(p), NEW k \in Keys, k # Vrf(v)
        PROVE  After(d, p, i)[k] = d[k]
    <2>1. i \in Nat /\ \A j \in 1..i : p[j].key # k
      BY <1>1, <1>2
    <2> QED
      BY <2>1, AfterLocal
  <1>3. \A i \in 0..Len(p), k \in InterfaceKeys : After(d, p, i)[k] = d[k]
    BY <1>2, VrfRowApart
  <1>4. \A i \in 0..Len(p) : \A w \in Vrfs :
           w # v /\ Exists(d, Vrf(w)) => Exists(After(d, p, i), Vrf(w))
    <2> SUFFICES ASSUME NEW i \in 0..Len(p), NEW w \in Vrfs, w # v
                 PROVE  After(d, p, i)[Vrf(w)] = d[Vrf(w)]
      BY DEF Exists
    <2>1. Vrf(w) \in Keys /\ Vrf(w) # Vrf(v)
      BY KeysKnown DEF Vrf
    <2> QED
      BY <1>2, <2>1
  <1>5. ASSUME NEW i \in 0..Len(p)
        PROVE  /\ \A n \in Interfaces : VrfOf(After(d, p, i), n) = VrfOf(d, n)
               /\ Parented(d) => Parented(After(d, p, i))
    BY <1>3, SameInterfaces
  <1>6. ASSUME NEW i \in 1..Len(p) PROVE Rebinds(After(d, p, i - 1), After(d, p, i))
    <2>1. i \in 0..Len(p) /\ i - 1 \in 0..Len(p)
      BY <1>1
    <2>2. \A k \in InterfaceKeys : After(d, p, i)[k] = After(d, p, i - 1)[k]
      BY <1>3, <2>1
    <2> QED
      BY <2>2, SameInterfaces
  <1> QED
    BY <1>4, <1>5, <1>6

\* Creating or updating a VRF leaves it there.
LEMMA VrfWritten ==
  ASSUME NEW d \in [Keys -> Row], NEW v \in Vrfs,
         NEW fallback \in {"true", "false"}, NEW vni \in Vnis \cup {Absent}
  PROVE  LET p == write_vrf_fields(v, fallback, vni)
         IN  /\ p \in Seq(Command)
             /\ \A i \in 0..Len(p) :
                  /\ WellBound(d) => WellBound(After(d, p, i))
                  /\ Parented(d) => Parented(After(d, p, i))
             /\ \A i \in 1..Len(p) : Rebinds(After(d, p, i - 1), After(d, p, i))
  <1> DEFINE c1 == HSet(Vrf(v), [fallback |-> fallback])
             c2 == IF vni = Absent THEN HDel(Vrf(v), {"vni"}) ELSE HSet(Vrf(v), [vni |-> vni])
             p == <<c1, c2>>
  <1>1. Vrf(v) \in Keys /\ "fallback" \in Fields
        /\ fallback \in Values /\ fallback # Absent /\ fallback # Keep
    BY KeysKnown, FieldsKnown, StoreConstants
  <1>2. c1 \in Command /\ c1.key = Vrf(v) /\ c1.upd["fallback"] = fallback
    BY <1>1 DEF HSet, Command, Update
  <1>3. c2 \in Command /\ c2.key = Vrf(v) /\ c2.upd["fallback"] = Keep
    <2>1. CASE vni = Absent
      BY <1>1, <2>1 DEF HDel, Command, Update
    <2>2. CASE vni # Absent
      <3>1. vni \in Values /\ c2 = HSet(Vrf(v), [vni |-> vni])
        BY <2>2, FieldsKnown
      <3> QED
        BY <1>1, <3>1 DEF HSet, Command, Update
    <2> QED
      BY <2>1, <2>2
  <1> HIDE DEF c1, c2
  <1>4. p \in Seq(Command) /\ Len(p) = 2 /\ p[1] = c1 /\ p[2] = c2
    BY <1>2, <1>3
  <1> HIDE DEF p
  <1>5. \A j \in 1..Len(p) : p[j].key = Vrf(v)
    BY <1>2, <1>3, <1>4
  <1>6. /\ \A i \in 0..Len(p) :
             /\ \A n \in Interfaces : VrfOf(After(d, p, i), n) = VrfOf(d, n)
             /\ Parented(d) => Parented(After(d, p, i))
             /\ \A w \in Vrfs : w # v /\ Exists(d, Vrf(w)) => Exists(After(d, p, i), Vrf(w))
        /\ \A i \in 1..Len(p) : Rebinds(After(d, p, i - 1), After(d, p, i))
    BY <1>4, <1>5, VrfPlan
  <1>7. ASSUME NEW i \in 0..Len(p), Exists(d, Vrf(v)) PROVE Exists(After(d, p, i), Vrf(v))
    <2>1. CASE i = 0
      BY <1>7, <2>1, AfterNone
    <2>2. CASE i # 0
      <3>1. i \in Nat /\ 1 \in 1..i /\ \A j \in 1..i : j \in {1, 2}
        BY <1>4, <2>2
      <3>2. Decides(p[1], Vrf(v), "fallback") /\ ~Decides(p[2], Vrf(v), "fallback")
        BY <1>1, <1>2, <1>3, <1>4 DEF Decides
      <3>3. After(d, p, i)[Vrf(v)]["fallback"] = p[1].upd["fallback"]
        BY <1>1, <3>1, <3>2, AfterSet
      <3>4. After(d, p, i) \in [Keys -> Row]
        BY <1>4, AfterType
      <3> QED
        BY <1>1, <1>2, <1>4, <3>3, <3>4, HasField
    <2> QED
      BY <2>1, <2>2
  <1>8. ASSUME NEW i \in 0..Len(p), WellBound(d) PROVE WellBound(After(d, p, i))
    BY <1>6, <1>7, <1>8 DEF WellBound
  <1>9. write_vrf_fields(v, fallback, vni) = p
    BY DEF write_vrf_fields, p, c1, c2
  <1> QED
    BY <1>4, <1>6, <1>8, <1>9

\* Deleting a VRF nobody is bound to leaves every binding valid.
LEMMA VrfDeleted ==
  ASSUME NEW d \in [Keys -> Row], NEW v \in Vrfs
  PROVE  LET p == <<Del(Vrf(v))>>
         IN  /\ p \in Seq(Command)
             /\ \A i \in 0..Len(p) :
                  /\ WellBound(d) /\ BoundTo(d, v) = {} => WellBound(After(d, p, i))
                  /\ Parented(d) => Parented(After(d, p, i))
             /\ \A i \in 1..Len(p) : Rebinds(After(d, p, i - 1), After(d, p, i))
  <1> DEFINE c == Del(Vrf(v))  p == <<c>>
  <1>1. c \in Command /\ c.key = Vrf(v)
    BY KeysKnown DEF Del, Command, Update, NoRow
  <1> HIDE DEF c
  <1>2. p \in Seq(Command) /\ Len(p) = 1 /\ p[1] = c
    BY <1>1
  <1> HIDE DEF p
  <1>3. \A j \in 1..Len(p) : p[j].key = Vrf(v)
    BY <1>1, <1>2
  <1>4. /\ \A i \in 0..Len(p) :
             /\ \A n \in Interfaces : VrfOf(After(d, p, i), n) = VrfOf(d, n)
             /\ Parented(d) => Parented(After(d, p, i))
             /\ \A w \in Vrfs : w # v /\ Exists(d, Vrf(w)) => Exists(After(d, p, i), Vrf(w))
        /\ \A i \in 1..Len(p) : Rebinds(After(d, p, i - 1), After(d, p, i))
    BY <1>2, <1>3, VrfPlan
  <1>5. ASSUME NEW i \in 0..Len(p), WellBound(d), BoundTo(d, v) = {}
        PROVE  WellBound(After(d, p, i))
    BY <1>4, <1>5 DEF WellBound, BoundTo
  <1> QED
    BY <1>2, <1>4, <1>5 DEF p, c

----------------------------------------------------------------------------
(* The invariant, one lemma per group of actions.                          *)

(***************************************************************************)
(* What was claimed of a database is still claimed, if anything is: faults *)
(* and degraded readings only accumulate.                                  *)
(***************************************************************************)
Accumulates == (Sighted' => Sighted) /\ (Faultless' => Faultless)

\* A handler that is neither writing nor undoing has nothing to keep.
LEMMA IdleGood ==
  ASSUME NEW g \in Handlers, ~Active(g)'
  PROVE  HandlerGood(g)'
  BY DEF HandlerGood, Active, OneAtATime, GoodCourse, OnTarget, PriorsBound,
         UndoAfterFault, InBatch

\* A handler that a step leaves alone, with the database.
LEMMA UntouchedGood ==
  ASSUME NEW g \in Handlers, HandlerGood(g), Accumulates,
         db' = db, pc'[g] = pc[g], todo'[g] = todo[g], snaps'[g] = snaps[g], req'[g] = req[g],
         lock["l3"] = g => lock'["l3"] = g, faults # 0 => faults' # 0
  PROVE  HandlerGood(g)'
  <1> USE DEF HandlerGood
  <1>1. OneAtATime(g)' /\ UndoAfterFault(g)'
    BY DEF OneAtATime, Active, UndoAfterFault
  <1>2. GoodCourse(g)'
    BY DEF GoodCourse, Course, Good, Accumulates
  <1>3. OnTarget(g)'
    BY DEF OnTarget, Ends
  <1>4. PriorsBound(g)'
    BY DEF PriorsBound, InBatch, Bound, Accumulates
  <1> QED
    BY <1>1, <1>2, <1>3, <1>4

(***************************************************************************)
(* Steps that write nothing to redis: the handlers they end or have not    *)
(* begun are idle after them, the others are as they were.                 *)
(***************************************************************************)
Untouched(g) ==
    /\ pc'[g] = pc[g] /\ todo'[g] = todo[g] /\ snaps'[g] = snaps[g] /\ req'[g] = req[g]
    /\ lock["l3"] = g => lock'["l3"] = g

LEMMA QuietKeeps ==
  ASSUME L3Inv, StoreTypeOK', blindReads' \in Nat, DOMAIN req' = Handlers, Accumulates, faults # 0 => faults' # 0,
         db' = db, saved' \in {saved, db},
         \A g \in Handlers : ~Active(g)' \/ Untouched(g)
  PROVE  L3Inv'
  <1>1. Good(db)' /\ Good(saved)'
    BY DEF L3Inv, Good, Accumulates
  <1>2. ASSUME NEW g \in Handlers PROVE HandlerGood(g)'
    <2>1. CASE ~Active(g)'
      BY <2>1, IdleGood
    <2>2. CASE Untouched(g)
      BY <2>2, UntouchedGood DEF L3Inv, Untouched
    <2> QED
      BY <2>1, <2>2
  <1> QED
    BY <1>1, <1>2 DEF L3Inv

\* The steps of one handler, other than its commands, that only end things.
LEMMA PassiveKeeps ==
  ASSUME L3Inv, NEW h \in Handlers,
         \/ Receive(h) \/ Malformed(h)
         \/ \E status \in Statuses : Decline(h, "l3", status)
         \/ Proceed(h, TRUE) /\ (Commit(h, TRUE) \/ Abort(h) \/ Save(h) \/ Respond(h)),
         blindReads' \in Nat, Sighted' => Sighted
  PROVE  L3Inv'
  <1>0. StoreTypeOK
    BY DEF L3Inv
  <1>1. StoreTypeOK'
    <2>1. CASE Receive(h)
      BY <1>0, <2>1, ArriveType DEF Receive
    <2>2. CASE Malformed(h)
      BY <1>0, <2>2, RefuseType DEF Malformed, Answer, Statuses
    <2>3. CASE \E status \in Statuses : Decline(h, "l3", status)
      BY <1>0, <2>3, RefuseType DEF Decline, Answer
    <2>4. CASE Commit(h, TRUE)
      BY <1>0, <2>4, CommitType
    <2>5. CASE Abort(h) \/ Save(h) \/ Respond(h)
      BY <1>0, <2>5, RunType DEF Run
    <2> QED
      BY <2>1, <2>2, <2>3, <2>4, <2>5
  <1>2. /\ db' = db /\ saved' \in {saved, db} /\ faults' = faults
        /\ pc' = [pc EXCEPT ![h] = pc'[h]] /\ pc'[h] \in {"queued", "done", "save", "idle"}
        /\ \A g \in Handlers \ {h} : todo'[g] = todo[g] /\ snaps'[g] = snaps[g]
        /\ lock' = lock \/ lock' = Released(h)
    <2> USE DEF StoreTypeOK
    <2>1. CASE Receive(h)
      BY <1>0, <2>1 DEF Receive, Arrive
    <2>2. CASE Malformed(h) \/ \E status \in Statuses : Decline(h, "l3", status)
      BY <1>0, <2>2 DEF Malformed, Decline, Answer, Refuse
    <2>3. CASE Commit(h, TRUE)
      BY <1>0, <2>3 DEF Commit
    <2>4. CASE Abort(h)
      BY <1>0, <2>4 DEF Abort
    <2>5. CASE Save(h)
      BY <1>0, <2>5 DEF Save
    <2>6. CASE Respond(h)
      BY <1>0, <2>6 DEF Respond
    <2> QED
      BY <2>1, <2>2, <2>3, <2>4, <2>5, <2>6
  <1>3. DOMAIN req' = Handlers /\ \A g \in Handlers \ {h} : req'[g] = req[g]
    BY DEF L3Inv, Receive, Malformed, Decline, Answer, Proceed
  <1>4. ASSUME NEW g \in Handlers \ {h} PROVE Untouched(g)
    <2>1. pc'[g] = pc[g]
      BY <1>0, <1>2 DEF StoreTypeOK
    <2>2. lock["l3"] = g => lock'["l3"] = g
      BY <1>2, ReleasedFrame, L3Constants
    <2> QED
      BY <1>2, <1>3, <2>1, <2>2 DEF Untouched
  <1>5. ~Active(h)'
    BY <1>2 DEF Active
  <1>6. Accumulates /\ (faults # 0 => faults' # 0)
    BY <1>2 DEF Accumulates, Faultless
  <1> QED
    BY <1>1, <1>2, <1>3, <1>4, <1>5, <1>6, QuietKeeps

\* The process ends: no handler is left, redis stays or is loaded again.
LEMMA CrashKeeps ==
  ASSUME L3Inv, Crash
  PROVE  L3Inv'
  <1>1. StoreTypeOK' /\ blindReads' = blindReads /\ DOMAIN req' = Handlers
    BY StopType DEF Crash, Forget, L3Inv
  <1>2. /\ db' \in {db, saved} /\ saved' = saved /\ faults' = faults
        /\ \A g \in Handlers : ~Active(g)'
    BY DEF Crash, Kill, Reboot, Stopped, Active
  <1>3. \A g \in Handlers : HandlerGood(g)'
    BY <1>2, IdleGood
  <1>4. Good(db)' /\ Good(saved)'
    BY <1>1, <1>2 DEF L3Inv, Good, Sighted, Faultless
  <1> QED
    BY <1>1, <1>3, <1>4 DEF L3Inv

\* A request is accepted with a plan whose course is good.
LEMMA AcceptKeeps ==
  ASSUME L3Inv, NEW h \in Handlers, NEW ops \in Seq(Command), NEW batched \in BOOLEAN, NEW r,
         Accept(h, "l3", ops, batched, r), blindReads' \in Nat, Sighted' => Sighted,
         \A i \in 0..Len(ops) : /\ Sighted' => WellBound(After(db, ops, i))
                                /\ Faultless => Parented(After(db, ops, i)),
         \A i \in 1..Len(ops) : Rebinds(After(db, ops, i - 1), After(db, ops, i)),
         batched => Ends(db, ops, r.name, r.vrf, r.ips)
  PROVE  L3Inv'
  <1>0. StoreTypeOK /\ Admit(h, {"l3"}, ops, batched)
    BY DEF L3Inv, Accept, Take
  <1>1. StoreTypeOK'
    BY <1>0, AdmitType
  <1>2. /\ db' = db /\ saved' = saved /\ faults' = faults
        /\ pc' = [pc EXCEPT ![h] = IF batched THEN "batch" ELSE "plain"]
        /\ todo' = [todo EXCEPT ![h] = ops] /\ snaps' = [snaps EXCEPT ![h] = <<>>]
        /\ req' = [req EXCEPT ![h] = r]
        /\ lock["l3"] = NoOne /\ lock' = [f \in Features |-> IF f \in {"l3"} THEN h ELSE lock[f]]
    BY DEF Accept, Take, Admit
  <1>3. pc \in [Handlers -> Phases] /\ todo \in [Handlers -> Seq(Command)]
        /\ snaps \in [Handlers -> Seq(Snapshot)] /\ "l3" \in Features /\ NoOne \notin Handlers
    BY <1>0, L3Constants, StoreConstants DEF StoreTypeOK
  <1>4. Good(db)' /\ Good(saved)' /\ Accumulates
    BY <1>2 DEF L3Inv, Good, Faultless, Accumulates
  <1>5. ASSUME NEW g \in Handlers \ {h} PROVE HandlerGood(g)'
    <2>1. ~Active(g)
      BY <1>2, <1>3 DEF L3Inv, HandlerGood, OneAtATime
    <2>2. ~Active(g)'
      BY <1>2, <1>3, <2>1 DEF Active
    <2> QED
      BY <2>2, IdleGood
  <1>6. /\ pc'[h] = (IF batched THEN "batch" ELSE "plain")
        /\ todo'[h] = ops /\ snaps'[h] = <<>> /\ lock'["l3"] = h
        /\ DOMAIN req' = Handlers /\ req'[h] = r
    BY <1>2, <1>3 DEF L3Inv
  <1>7. Course(db, ops)'
    BY <1>2, <1>4 DEF Course, Good, Accumulates
  <1>8. GoodCourse(h)'
    BY <1>6, <1>7 DEF GoodCourse, Course
  <1>9. OnTarget(h)'
    BY <1>2, <1>6 DEF OnTarget, Ends
  <1>10. PriorsBound(h)' /\ OneAtATime(h)' /\ UndoAfterFault(h)'
    BY <1>6 DEF PriorsBound, OneAtATime, UndoAfterFault
  <1>11. HandlerGood(h)'
    BY <1>8, <1>9, <1>10 DEF HandlerGood
  <1> QED
    BY <1>1, <1>4, <1>5, <1>6, <1>11 DEF L3Inv

----------------------------------------------------------------------------
(* Commands.                                                               *)

\* While a handler writes or undoes, the mutex keeps the others idle.
LEMMA Alone ==
  ASSUME L3Inv, NEW h \in Handlers, Active(h), NEW g \in Handlers \ {h}
  PROVE  ~Active(g)
  BY DEF L3Inv, HandlerGood, OneAtATime

\* A command on an interface's row leaves the VRFs where they are.
LEMMA VrfRowsStay ==
  ASSUME NEW d \in [Keys -> Row], NEW c \in Command, c.key \in InterfaceKeys, NEW v \in Vrfs
  PROVE  Exists(Issue(d, c), Vrf(v)) <=> Exists(d, Vrf(v))
  <1>1. Vrf(v) \in Keys /\ c.key # Vrf(v)
    BY KeysKnown, VrfRowApart
  <1>2. Issue(d, c)[Vrf(v)] = d[Vrf(v)]
    BY <1>1, IssueFrame
  <1> QED
    BY <1>2 DEF Exists

\* The first database on the way of a plan.
LEMMA FirstStep ==
  ASSUME NEW d \in [Keys -> Row], NEW p \in Seq(Command), p # <<>>
  PROVE  /\ 1 \in 1..Len(p) /\ 1 \in 0..Len(p) /\ 0 \in 0..Len(p)
         /\ After(d, p, 0) = d /\ After(d, p, 1) = Issue(d, Head(p))
         /\ Head(p) = p[1] /\ Head(p) \in Command
  <1>1. Len(p) \in Nat \ {0} /\ Head(p) = p[1] /\ Head(p) \in Command
    BY HeadTailProperties, EmptySeq, LenProperties
  <1>2. 0 + 1 \in 1..Len(p)
    BY <1>1
  <1>3. After(d, p, 0 + 1) = Issue(After(d, p, 0), p[0 + 1])
    BY <1>2, AfterNext
  <1>4. After(d, p, 0) = d
    BY AfterNone
  <1>5. 0 + 1 = 1 /\ 1 \in 1..Len(p) /\ 1 \in 0..Len(p) /\ 0 \in 0..Len(p)
    BY <1>1
  <1> QED
    BY <1>1, <1>3, <1>4, <1>5

\* The rest of a good course is good, and ends where the whole does.
LEMMA CourseShift ==
  ASSUME NEW d \in [Keys -> Row], NEW p \in Seq(Command), p # <<>>, Course(d, p)
  PROVE  /\ Course(Issue(d, Head(p)), Tail(p))
         /\ \A n, vrf, ips : Ends(d, p, n, vrf, ips)
              => Ends(Issue(d, Head(p)), Tail(p), n, vrf, ips)
  <1> DEFINE e == Issue(d, Head(p))  t == Tail(p)
  <1>1. /\ t \in Seq(Command) /\ Len(p) \in Nat /\ Len(t) \in Nat /\ Len(p) = Len(t) + 1
        /\ \A i \in 1..Len(t) : t[i] = p[i + 1]
    BY HeadTailProperties, EmptySeq, LenProperties
  <1>2. \A i \in 0..Len(t) : After(e, t, i) = After(d, p, i + 1)
    BY AfterShift
  <1> HIDE DEF e, t
  <1>3. \A i \in 0..Len(t) : Good(After(e, t, i))
    <2> TAKE i \in 0..Len(t)
    <2>1. i + 1 \in 0..Len(p)
      BY <1>1
    <2>2. Good(After(d, p, i + 1))
      BY <2>1 DEF Course
    <2>3. After(e, t, i) = After(d, p, i + 1)
      BY <1>2
    <2> QED
      BY <2>2, <2>3
  <1>4. \A i \in 1..Len(t) : Rebinds(After(e, t, i - 1), After(e, t, i))
    <2> TAKE i \in 1..Len(t)
    <2>1. /\ i + 1 \in 1..Len(p) /\ i \in 0..Len(t) /\ i - 1 \in 0..Len(t)
          /\ (i + 1) - 1 = i /\ (i - 1) + 1 = i
      BY <1>1
    <2>2. Rebinds(After(d, p, (i + 1) - 1), After(d, p, i + 1))
      BY <2>1 DEF Course
    <2>3. After(e, t, i - 1) = After(d, p, (i - 1) + 1) /\ After(e, t, i) = After(d, p, i + 1)
      BY <1>2, <2>1
    <2> QED
      BY <2>1, <2>2, <2>3
  <1>5. ASSUME NEW n, NEW vrf, NEW ips, Ends(d, p, n, vrf, ips)
        PROVE  Ends(e, t, n, vrf, ips)
    <2>1. After(e, t, Len(t)) = After(d, p, Len(p))
      BY <1>1, <1>2
    <2>2. \A i \in 1..Len(t) : i + 1 \in 1..Len(p)
      BY <1>1
    <2>3. \A i \in 1..Len(t) : t[i].key \in InterfaceKeys
      BY <1>1, <1>5, <2>2 DEF Ends
    <2> QED
      BY <1>5, <2>1, <2>3 DEF Ends
  <1> QED
    BY <1>3, <1>4, <1>5 DEF Course, e, t

\* What a batch has snapshotted when it writes to one more row.
LEMMA SnapshotBound ==
  ASSUME StoreTypeOK, NEW h \in Handlers, NEW c \in Command, c.key \in InterfaceKeys,
         Good(db), PriorsBound(h), InBatch(h),
         NEW d, d \in {db, Issue(db, c)},
         NEW s, s \in {snaps[h], WithSnapshot(h, c.key)}
  PROVE  \A i \in 1..Len(s) : /\ s[i].key \in InterfaceKeys
                              /\ Sighted => Bound(d, s[i].key, s[i].prior)
  <1>1. db \in [Keys -> Row] /\ snaps[h] \in Seq(Snapshot) /\ c.key \in Keys
    BY DEF StoreTypeOK, Command
  <1>2. \A v \in Vrfs : Exists(db, Vrf(v)) => Exists(d, Vrf(v))
    BY <1>1, VrfRowsStay
  <1>3. \A i \in 1..Len(snaps[h]) :
          /\ snaps[h][i].key \in InterfaceKeys
          /\ Sighted => Bound(d, snaps[h][i].key, snaps[h][i].prior)
    BY <1>2 DEF PriorsBound, Bound
  <1> DEFINE new == [key |-> c.key, prior |-> db[c.key]]
  <1>4. new \in Snapshot /\ new.key = c.key /\ new.prior = db[c.key]
    BY <1>1 DEF Snapshot
  <1>5. Sighted => Bound(d, c.key, db[c.key])
    BY <1>2 DEF Bound, Good, WellBound, VrfOf
  <1>6. CASE s = snaps[h]
    BY <1>3, <1>6
  <1>7. CASE s = Append(snaps[h], new)
    <2>1. /\ Len(snaps[h]) \in Nat /\ Len(s) = Len(snaps[h]) + 1
          /\ s[Len(snaps[h]) + 1] = new
          /\ \A i \in 1..Len(snaps[h]) : s[i] = snaps[h][i]
      BY <1>1, <1>4, <1>7, PushLast, LenProperties
    <2> HIDE DEF new
    <2> SUFFICES ASSUME NEW i \in 1..Len(s)
                 PROVE  s[i].key \in InterfaceKeys /\ (Sighted => Bound(d, s[i].key, s[i].prior))
      OBVIOUS
    <2>2. i \in 1..Len(snaps[h]) \/ i = Len(snaps[h]) + 1
      BY <2>1
    <2> QED
      BY <1>3, <1>4, <1>5, <2>1, <2>2
  <1> QED
    BY <1>6, <1>7 DEF WithSnapshot

\* A command is issued and answered.
LEMMA ExecuteKeeps ==
  ASSUME L3Inv, NEW h \in Handlers, Execute(h), UNCHANGED <<req, blindReads>>
  PROVE  L3Inv'
  <1> DEFINE c == Head(todo[h])
  <1>1. /\ StoreTypeOK /\ HandlerGood(h) /\ Good(db) /\ Good(saved) /\ blindReads \in Nat
        /\ DOMAIN req = Handlers /\ db \in [Keys -> Row] /\ todo \in [Handlers -> Seq(Command)]
        /\ todo[h] \in Seq(Command) /\ snaps \in [Handlers -> Seq(Snapshot)]
    BY DEF L3Inv, StoreTypeOK
  <1>2. /\ db' = Issue(db, c) /\ todo' = [todo EXCEPT ![h] = Tail(todo[h])]
        /\ pc' = pc /\ saved' = saved /\ lock' = lock /\ faults' = faults
        /\ pc[h] \in {"batch", "plain"} /\ todo[h] # <<>>
        /\ pc[h] = "batch" => snaps' = [snaps EXCEPT ![h] = WithSnapshot(h, c.key)]
    BY DEF Execute
  <1>3. StoreTypeOK'
    BY <1>1, ExecuteType
  <1>4. todo'[h] = Tail(todo[h]) /\ (pc[h] = "batch" => snaps'[h] = WithSnapshot(h, c.key))
    BY <1>1, <1>2
  <1>5. Course(db, todo[h])
    BY <1>1, <1>2 DEF HandlerGood, GoodCourse
  <1>6. /\ Course(Issue(db, c), Tail(todo[h]))
        /\ \A n, vrf, ips : Ends(db, todo[h], n, vrf, ips)
             => Ends(Issue(db, c), Tail(todo[h]), n, vrf, ips)
    BY <1>1, <1>2, <1>5, CourseShift
  <1>7. Good(Issue(db, c)) /\ c \in Command /\ c = todo[h][1] /\ 1 \in 1..Len(todo[h])
    <2>1. db \in [Keys -> Row] /\ todo[h] \in Seq(Command) /\ todo[h] # <<>>
      BY <1>1, <1>2
    <2>2. /\ c \in Command /\ c = todo[h][1] /\ 1 \in 1..Len(todo[h]) /\ 1 \in 0..Len(todo[h])
          /\ After(db, todo[h], 1) = Issue(db, c)
      BY <2>1, FirstStep
    <2>3. Good(After(db, todo[h], 1))
      BY <1>5, <2>2 DEF Course
    <2> QED
      BY <2>2, <2>3
  <1> HIDE DEF c
  <1>8. Good(db)' /\ Good(saved)'
    BY <1>1, <1>2, <1>7 DEF Good, Sighted, Faultless
  <1>9. ASSUME NEW g \in Handlers \ {h} PROVE HandlerGood(g)'
    <2>1. ~Active(g)
      BY <1>2, Alone DEF Active
    <2> QED
      BY <1>2, <2>1, IdleGood DEF Active
  <1>10. OneAtATime(h)' /\ UndoAfterFault(h)'
    BY <1>1, <1>2 DEF HandlerGood, OneAtATime, UndoAfterFault, Active
  <1>11. GoodCourse(h)'
    BY <1>2, <1>4, <1>6 DEF GoodCourse, Course, Good, Sighted, Faultless
  <1>12. OnTarget(h)'
    BY <1>1, <1>2, <1>4, <1>6 DEF HandlerGood, OnTarget, Ends
  <1>13. PriorsBound(h)'
    <2> SUFFICES ASSUME pc[h] = "batch"
                 PROVE  \A i \in 1..Len(snaps'[h]) :
                          /\ snaps'[h][i].key \in InterfaceKeys
                          /\ Sighted => Bound(db', snaps'[h][i].key, snaps'[h][i].prior)
      BY <1>2 DEF PriorsBound, InBatch, Sighted, Bound
    <2>1. c.key \in InterfaceKeys
      BY <1>1, <1>7 DEF HandlerGood, OnTarget, Ends
    <2> QED
      BY <1>1, <1>2, <1>4, <1>7, <2>1, SnapshotBound DEF HandlerGood, InBatch
  <1>14. HandlerGood(h)'
    BY <1>10, <1>11, <1>12, <1>13 DEF HandlerGood
  <1> QED
    BY <1>1, <1>3, <1>8, <1>9, <1>14 DEF L3Inv

\* A command fails, having taken effect or not.
LEMMA ExecuteFaultKeeps ==
  ASSUME L3Inv, NEW h \in Handlers, ExecuteFault(h),
         blindReads' = blindReads, DOMAIN req' = Handlers
  PROVE  L3Inv'
  <1> DEFINE c == Head(todo[h])
  <1>1. /\ StoreTypeOK /\ HandlerGood(h) /\ Good(db) /\ Good(saved) /\ blindReads \in Nat
        /\ db \in [Keys -> Row] /\ todo[h] \in Seq(Command) /\ pc \in [Handlers -> Phases]
        /\ snaps \in [Handlers -> Seq(Snapshot)] /\ faults \in Nat
    BY StoreConstants DEF L3Inv, StoreTypeOK
  <1>2. /\ db' \in {db, Issue(db, c)} /\ saved' = saved /\ faults' = faults + 1
        /\ pc[h] \in {"batch", "plain"} /\ todo[h] # <<>>
        /\ pc' = [pc EXCEPT ![h] = IF pc[h] = "batch" THEN "undoDel" ELSE "done"]
        /\ pc[h] = "batch" =>
             lock' = lock /\ snaps' \in {snaps, [snaps EXCEPT ![h] = WithSnapshot(h, c.key)]}
    BY DEF ExecuteFault
  <1>3. StoreTypeOK'
    BY <1>1, ExecuteFaultType
  <1>4. /\ pc'[h] = (IF pc[h] = "batch" THEN "undoDel" ELSE "done")
        /\ \A g \in Handlers \ {h} : pc'[g] = pc[g]
        /\ pc[h] = "batch" => snaps'[h] \in {snaps[h], WithSnapshot(h, c.key)}
        /\ faults' # 0
    BY <1>1, <1>2
  <1>5. Course(db, todo[h])
    BY <1>1, <1>2 DEF HandlerGood, GoodCourse
  <1>6. Good(Issue(db, c)) /\ c \in Command /\ c = todo[h][1] /\ 1 \in 1..Len(todo[h])
    <2>1. db \in [Keys -> Row] /\ todo[h] \in Seq(Command) /\ todo[h] # <<>>
      BY <1>1, <1>2
    <2>2. /\ c \in Command /\ c = todo[h][1] /\ 1 \in 1..Len(todo[h]) /\ 1 \in 0..Len(todo[h])
          /\ After(db, todo[h], 1) = Issue(db, c)
      BY <2>1, FirstStep
    <2>3. Good(After(db, todo[h], 1))
      BY <1>5, <2>2 DEF Course
    <2> QED
      BY <2>2, <2>3
  <1> HIDE DEF c
  <1>7. Good(db)' /\ Good(saved)'
    BY <1>1, <1>2, <1>4, <1>6 DEF Good, Sighted, Faultless
  <1>8. ASSUME NEW g \in Handlers \ {h} PROVE HandlerGood(g)'
    <2>1. ~Active(g)
      BY <1>2, Alone DEF Active
    <2> QED
      BY <1>4, <2>1, IdleGood DEF Active
  <1>9. CASE pc[h] = "plain"
    <2>1. HandlerGood(h)'
      BY <1>4, <1>9, IdleGood DEF Active
    <2> QED
      BY <1>1, <1>3, <1>7, <1>8, <2>1 DEF L3Inv
  <1>10. CASE pc[h] = "batch"
    <2>1. OneAtATime(h)' /\ UndoAfterFault(h)' /\ GoodCourse(h)' /\ OnTarget(h)'
      BY <1>1, <1>2, <1>4, <1>10
      DEF HandlerGood, OneAtATime, UndoAfterFault, Active, GoodCourse, OnTarget
    <2>2. c.key \in InterfaceKeys
      BY <1>1, <1>6, <1>10 DEF HandlerGood, OnTarget, Ends
    <2>3. \A i \in 1..Len(snaps'[h]) :
            /\ snaps'[h][i].key \in InterfaceKeys
            /\ Sighted => Bound(db', snaps'[h][i].key, snaps'[h][i].prior)
      <3>1. PriorsBound(h) /\ InBatch(h)
        BY <1>1, <1>10 DEF HandlerGood, InBatch
      <3>2. db' \in {db, Issue(db, c)} /\ snaps'[h] \in {snaps[h], WithSnapshot(h, c.key)}
        BY <1>2, <1>4, <1>10
      <3>3. StoreTypeOK /\ Good(db) /\ c \in Command
        BY <1>1, <1>6
      <3> QED
        BY <2>2, <3>1, <3>2, <3>3, SnapshotBound
    <2>4. PriorsBound(h)'
      BY <2>3 DEF PriorsBound, Sighted, Bound
    <2>5. HandlerGood(h)'
      BY <2>1, <2>4 DEF HandlerGood
    <2> QED
      BY <1>1, <1>3, <1>7, <1>8, <2>5 DEF L3Inv
  <1> QED
    BY <1>2, <1>9, <1>10

(***************************************************************************)
(* One command of a rollback: the row it deletes is bound to nothing, the  *)
(* row it puts back to a VRF that is still there, since nobody could take  *)
(* the mutex to delete it.                                                 *)
(***************************************************************************)
LEMMA UndoKeeps ==
  ASSUME L3Inv, NEW h \in Handlers, NEW ok \in BOOLEAN, UndoDel(h, ok) \/ UndoSet(h, ok),
         UNCHANGED <<req, blindReads>>
  PROVE  L3Inv'
  <1> DEFINE sn == LastSnap(h)  k == sn.key  prior == sn.prior
             c1 == Del(k)  c2 == HSet(k, [f \in Present(prior) |-> prior[f]])
  <1>1. /\ StoreTypeOK /\ HandlerGood(h) /\ Good(db) /\ Good(saved) /\ blindReads \in Nat
        /\ db \in [Keys -> Row] /\ pc \in [Handlers -> Phases] /\ DOMAIN req = Handlers
        /\ snaps \in [Handlers -> Seq(Snapshot)] /\ faults \in Nat
    BY StoreConstants DEF L3Inv, StoreTypeOK
  <1>2. /\ pc[h] \in {"undoDel", "undoSet"} /\ snaps[h] # <<>>
        /\ saved' = saved /\ lock' = lock /\ faults' \in {faults, faults + 1}
        /\ db' \in {db, Issue(db, c1), Issue(db, c2)}
        /\ snaps' \in {snaps, Popped(h)}
        /\ pc' \in {pc, [pc EXCEPT ![h] = "undoSet"], [pc EXCEPT ![h] = "undoDel"]}
    BY DEF UndoDel, UndoSet, UndoOutcome
  <1>3. StoreTypeOK'
    BY <1>1, UndoType
  <1>4. faults # 0 /\ faults' # 0 /\ Active(h) /\ InBatch(h)
    BY <1>1, <1>2 DEF HandlerGood, UndoAfterFault, Active, InBatch
  <1>5. pc'[h] \in {"undoDel", "undoSet"} /\ \A g \in Handlers \ {h} : pc'[g] = pc[g]
    BY <1>1, <1>2
  <1>6. /\ k \in Keys /\ prior \in Row /\ Len(snaps[h]) \in 1..Len(snaps[h])
    BY <1>1, <1>2, LastSnapshot
  <1>7. k \in InterfaceKeys /\ (Sighted => Bound(db, k, prior))
    BY <1>1, <1>4, <1>6 DEF HandlerGood, PriorsBound, LastSnap
  <1> HIDE DEF sn, k, prior
  <1>8. /\ c1 \in Command /\ c1.key = k /\ c1.upd["vrf_name"] = Absent
    BY <1>6, DelClears, FieldsKnown DEF Del, NoRow
  <1>9. /\ c2 \in Command /\ c2.key = k /\ c2.upd["vrf_name"] \in {prior["vrf_name"], Keep}
    BY <1>6, SetRestores, FieldsKnown DEF HSet, Present
  <1> HIDE DEF c1, c2
  <1>10. ASSUME NEW c \in {c1, c2}, Sighted
         PROVE  /\ \A v \in Vrfs : Exists(Issue(db, c), Vrf(v)) <=> Exists(db, Vrf(v))
                /\ WellBound(Issue(db, c))
    <2> DEFINE e == Issue(db, c)
    <2>1. /\ e[k] = Patched(db[k], c.upd) /\ \A m \in Keys : m # k => e[m] = db[m]
          /\ c \in Command /\ c.key = k
      BY <1>1, <1>8, <1>9, IssueFrame
    <2>2. \A v \in Vrfs : Exists(e, Vrf(v)) <=> Exists(db, Vrf(v))
      BY <1>1, <1>7, <2>1, VrfRowsStay
    <2>3. e[k]["vrf_name"] \in {db[k]["vrf_name"], Absent, prior["vrf_name"]}
      BY <1>8, <1>9, <2>1, FieldsKnown DEF Patched
    <2> HIDE DEF e
    <2>4. WellBound(db)
      BY <1>1, <1>10 DEF Good
    <2>5. ASSUME NEW n \in Interfaces, VrfOf(e, n) # Absent
          PROVE  VrfOf(e, n) \in Vrfs /\ Exists(e, Vrf(VrfOf(e, n)))
      <3>1. CASE VrfOf(e, n) = VrfOf(db, n)
        BY <2>2, <2>4, <2>5, <3>1 DEF WellBound
      <3>2. CASE VrfOf(e, n) # VrfOf(db, n)
        <4>1. Attr(n) = k
          BY <2>1, <3>2, KeysKnown DEF VrfOf
        <4>2. VrfOf(e, n) = prior["vrf_name"]
          BY <2>3, <2>5, <3>2, <4>1 DEF VrfOf
        <4> QED
          BY <1>7, <1>10, <2>2, <2>5, <4>1, <4>2 DEF Bound
      <3> QED
        BY <3>1, <3>2
    <2>6. WellBound(e)
      BY <2>5 DEF WellBound
    <2> QED
      BY <2>2, <2>6 DEF e
  <1>11. Sighted => /\ WellBound(db')
                    /\ \A v \in Vrfs : Exists(db, Vrf(v)) => Exists(db', Vrf(v))
    BY <1>1, <1>2, <1>10 DEF Good
  <1>12. Good(db)' /\ Good(saved)'
    BY <1>1, <1>2, <1>4, <1>11 DEF Good, Sighted, Faultless
  <1>13. ASSUME NEW g \in Handlers \ {h} PROVE HandlerGood(g)'
    <2>1. ~Active(g)
      BY <1>4, Alone
    <2> QED
      BY <1>5, <2>1, IdleGood DEF Active
  <1>14. OneAtATime(h)' /\ UndoAfterFault(h)' /\ GoodCourse(h)' /\ OnTarget(h)'
    BY <1>1, <1>2, <1>4, <1>5
    DEF HandlerGood, OneAtATime, UndoAfterFault, Active, GoodCourse, OnTarget
  <1>15. PriorsBound(h)'
    <2>1. /\ Len(snaps'[h]) \in Nat /\ Len(snaps[h]) \in Nat
          /\ \A i \in 1..Len(snaps'[h]) : i \in 1..Len(snaps[h]) /\ snaps'[h][i] = snaps[h][i]
      <3>1. CASE snaps' = snaps
        BY <1>1, <3>1, LenProperties
      <3>2. CASE snaps' = Popped(h)
        <4> DEFINE t == SubSeq(snaps[h], 1, Len(snaps[h]) - 1)
        <4>1. snaps'[h] = t
          BY <1>1, <3>2 DEF Popped
        <4>2. /\ Len(t) = Len(snaps[h]) - 1 /\ t \in Seq(Snapshot)
              /\ \A i \in 1..Len(t) : t[i] = snaps[h][i]
          BY <1>1, <1>2, PopLast
        <4>3. Len(t) \in Nat /\ Len(snaps[h]) \in Nat
          BY <1>1, <4>2, LenProperties
        <4> HIDE DEF t
        <4> QED
          BY <4>1, <4>2, <4>3
      <3> QED
        BY <1>2, <3>1, <3>2
    <2>2. \A i \in 1..Len(snaps[h]) :
            /\ snaps[h][i].key \in InterfaceKeys
            /\ Sighted => Bound(db', snaps[h][i].key, snaps[h][i].prior)
      BY <1>1, <1>4, <1>11 DEF HandlerGood, PriorsBound, Bound
    <2>3. \A i \in 1..Len(snaps'[h]) :
            /\ snaps'[h][i].key \in InterfaceKeys
            /\ Sighted => Bound(db', snaps'[h][i].key, snaps'[h][i].prior)
      BY <2>1, <2>2
    <2> QED
      BY <2>3 DEF PriorsBound, Sighted, Bound
  <1>16. HandlerGood(h)'
    BY <1>14, <1>15 DEF HandlerGood
  <1> QED
    BY <1>1, <1>3, <1>12, <1>13, <1>16 DEF L3Inv

\* Everything a handler does once admitted.
LEMMA FinishKeeps ==
  ASSUME L3Inv, NEW h \in Handlers, Finish(h)
  PROVE  L3Inv'
  <1>1. blindReads' = blindReads /\ Proceed(h, TRUE) /\ pc \in [Handlers -> Phases]
    BY DEF Finish, Proceed, L3Inv, StoreTypeOK
  <1>2. DOMAIN req' = Handlers
    BY DEF Finish, Proceed, L3Inv
  <1>3. CASE Execute(h)
    <2>1. req' = req
      BY <1>3 DEF Execute, Finish, Proceed
    <2> QED
      BY <1>1, <1>3, <2>1, ExecuteKeeps
  <1>4. CASE ExecuteFault(h)
    BY <1>1, <1>2, <1>4, ExecuteFaultKeeps
  <1>5. CASE \E ok \in BOOLEAN : UndoDel(h, ok) \/ UndoSet(h, ok)
    <2>1. pc'[h] \in {"undoDel", "undoSet"}
      BY <1>1, <1>5 DEF UndoDel, UndoSet
    <2>2. req' = req
      BY <1>1, <2>1 DEF Proceed
    <2> QED
      BY <1>1, <1>5, <2>2, UndoKeeps
  <1>6. CASE Commit(h, TRUE) \/ Abort(h) \/ Save(h) \/ Respond(h)
    <2>1. blindReads' \in Nat /\ (Sighted' => Sighted)
      BY <1>1 DEF L3Inv, Sighted
    <2> QED
      BY <1>1, <1>6, <2>1, PassiveKeeps
  <1> QED
    BY <1>3, <1>4, <1>5, <1>6 DEF Finish, Proceed, Run

----------------------------------------------------------------------------
(* Requests.                                                               *)

\* A plan for an interface, accepted.
LEMMA PlannedKeeps ==
  ASSUME L3Inv, NEW h \in Handlers, NEW batched \in BOOLEAN, NEW r,
         NEW p, NEW n, NEW vrf, NEW ips, NEW X, NEW Y, NEW nd,
         Planned(db, p, n, vrf, ips, X, Y, nd),
         Accept(h, "l3", p, batched, r), blindReads' \in Nat, Sighted' => Sighted,
         batched => r.name = n /\ r.vrf = vrf /\ r.ips = ips
  PROVE  L3Inv'
  <1>1. p \in Seq(Command)
    BY PlanCommands DEF Planned
  <1>2. ASSUME NEW i \in 0..Len(p)
        PROVE  /\ Sighted' => WellBound(After(db, p, i))
               /\ Faultless => Parented(After(db, p, i))
    BY CourseBound, CourseParented DEF L3Inv, Good
  <1>3. \A i \in 1..Len(p) : Rebinds(After(db, p, i - 1), After(db, p, i))
    BY CourseRebinds
  <1>4. Ends(db, p, n, vrf, ips)
    BY CourseEnds DEF Ends
  <1>5. batched => Ends(db, p, r.name, r.vrf, r.ips)
    BY <1>4
  <1> QED
    BY <1>1, <1>2, <1>3, <1>5, AcceptKeeps

\* A degraded reading is counted.
LEMMA Counted ==
  ASSUME blindReads \in Nat, NEW blind \in BOOLEAN, Blindly(blind)
  PROVE  blindReads' \in Nat /\ (Sighted' => Sighted /\ ~blind)
  BY DEF Blindly, Sighted

\* PUT of an interface and POST of a loopback.
LEMMA ConvergeKeeps ==
  ASSUME L3Inv, NEW h \in Handlers, NEW n \in Interfaces, NEW vrf \in Vrfs \cup {Absent},
         NEW ips \in SUBSET Addresses, check_input(vrf), NEW op,
         Accept(h, "l3", converge(n, vrf, ips), TRUE,
                [op |-> op, name |-> n, vrf |-> vrf, ips |-> ips]),
         blindReads' \in Nat, Sighted' => Sighted
  PROVE  L3Inv'
  <1> DEFINE X == stale(n, vrf, ips)  Y == missing(n, vrf, ips)
             r == [op |-> op, name |-> n, vrf |-> vrf, ips |-> ips]
  <1>1. PICK nd \in Nat :
          PlanShape(converge(n, vrf, ips), n, X, attribute(n, vrf, ips), Y, nd)
    BY ConvergeShape
  <1>2. X \subseteq Addresses /\ Y \subseteq Addresses
    BY DEF stale, missing, AddressesOf
  <1>3. /\ VrfOf(db, n) # vrf => X = AddressesOf(db, n) /\ Y = ips
        /\ VrfOf(db, n) = vrf => X = AddressesOf(db, n) \ ips /\ Y = ips \ AddressesOf(db, n)
    BY DEF stale, missing, vrf_changed
  <1> HIDE DEF X, Y
  <1>4. db \in [Keys -> Row] /\ (vrf # Absent => Exists(db, Vrf(vrf)))
    BY DEF L3Inv, StoreTypeOK, check_input
  <1>5. Planned(db, converge(n, vrf, ips), n, vrf, ips, X, Y, nd)
    BY <1>1, <1>2, <1>3, <1>4 DEF Planned, InterfacePlan
  <1>6. r.name = n /\ r.vrf = vrf /\ r.ips = ips
    OBVIOUS
  <1> HIDE DEF r
  <1>7. Accept(h, "l3", converge(n, vrf, ips), TRUE, r)
    BY DEF r
  <1> QED
    BY <1>5, <1>6, <1>7, PlannedKeeps

\* DELETE of a loopback.
LEMMA DeleteKeeps ==
  ASSUME L3Inv, NEW h \in Handlers, NEW n \in Interfaces, NEW r,
         Accept(h, "l3", Append(Dels(IpRows(n, AddressesOf(db, n))), Del(Attr(n))), FALSE, r),
         blindReads' \in Nat, Sighted' => Sighted
  PROVE  L3Inv'
  <1> DEFINE X == AddressesOf(db, n)  p == Append(Dels(IpRows(n, X)), Del(Attr(n)))
  <1>1. PICK nd \in Nat : PlanShape(p, n, X, attribute(n, Absent, {}), {}, nd)
    BY DeleteShape
  <1>2. X \subseteq Addresses /\ db \in [Keys -> Row]
    BY DEF AddressesOf, L3Inv, StoreTypeOK
  <1>3. Accept(h, "l3", p, FALSE, r)
    OBVIOUS
  <1> HIDE DEF p
  <1>4. Planned(db, p, n, Absent, {}, X, {}, nd)
    BY <1>1, <1>2 DEF Planned, InterfacePlan
  <1> QED
    BY <1>3, <1>4, PlannedKeeps

\* The interface endpoints.
LEMMA InterfaceKeeps ==
  ASSUME L3Inv, NEW h \in Handlers, InterfaceRequest(h)
  PROVE  L3Inv'
  <1>1. PICK n \in Interfaces, blind \in BOOLEAN :
          \/ \E vrf \in Vrfs \cup {Absent}, ips \in SUBSET Addresses :
                put_interface(h, n, vrf, ips, blind) \/ create_loopback(h, n, vrf, ips, blind)
          \/ delete_interface(h, n, blind)
    BY DEF InterfaceRequest
  <1>2. Blindly(blind)
    BY <1>1 DEF put_interface, create_loopback, delete_interface
  <1>3. blindReads' \in Nat /\ (Sighted' => Sighted)
    BY <1>2, Counted DEF L3Inv
  <1>4. CASE \E status \in Statuses : Decline(h, "l3", status)
    BY <1>3, <1>4, PassiveKeeps
  <1>5. ASSUME NEW vrf \in Vrfs \cup {Absent}, NEW ips \in SUBSET Addresses,
               put_interface(h, n, vrf, ips, blind) \/ create_loopback(h, n, vrf, ips, blind)
        PROVE  L3Inv'
    <2> DEFINE A(op) == Accept(h, "l3", converge(n, vrf, ips), TRUE,
                               [op |-> op, name |-> n, vrf |-> vrf, ips |-> ips])
    <2>1. 400 \in Statuses /\ 404 \in Statuses
      BY DEF Statuses
    <2>2. put_interface(h, n, vrf, ips, blind) =>
            \/ \E status \in Statuses : Decline(h, "l3", status)
            \/ check_input(vrf) /\ A("put")
      BY <2>1, Zenon DEF put_interface
    <2>3. create_loopback(h, n, vrf, ips, blind) =>
            \/ \E status \in Statuses : Decline(h, "l3", status)
            \/ check_input(vrf) /\ A("create")
      BY <2>1, Zenon DEF create_loopback
    <2>4. ASSUME NEW op, check_input(vrf), A(op) PROVE L3Inv'
      BY <1>3, <2>4, ConvergeKeeps
    <2> HIDE DEF A
    <2> QED
      BY <1>4, <1>5, <2>2, <2>3, <2>4
  <1>6. ASSUME delete_interface(h, n, blind) PROVE L3Inv'
    <2>0. 400 \in Statuses /\ 404 \in Statuses
      BY DEF Statuses
    <2>1. \/ \E status \in Statuses : Decline(h, "l3", status)
          \/ Accept(h, "l3", Append(Dels(IpRows(n, AddressesOf(db, n))), Del(Attr(n))), FALSE,
                    [op |-> "delete", name |-> n])
      BY <1>6, <2>0, Zenon DEF delete_interface
    <2> QED
      BY <1>3, <1>4, <2>1, DeleteKeeps
  <1> QED
    BY <1>1, <1>5, <1>6

\* A plan for a VRF, accepted.
LEMMA VrfPlanKeeps ==
  ASSUME L3Inv, NEW h \in Handlers, NEW p \in Seq(Command), NEW r,
         Accept(h, "l3", p, FALSE, r), blindReads' \in Nat, Sighted' => Sighted,
         \A i \in 0..Len(p) : /\ Sighted' /\ WellBound(db) => WellBound(After(db, p, i))
                              /\ Parented(db) => Parented(After(db, p, i)),
         \A i \in 1..Len(p) : Rebinds(After(db, p, i - 1), After(db, p, i))
  PROVE  L3Inv'
  <1>1. \A i \in 0..Len(p) : /\ Sighted' => WellBound(After(db, p, i))
                             /\ Faultless => Parented(After(db, p, i))
    BY DEF L3Inv, Good
  <1> QED
    BY <1>1, AcceptKeeps

\* The VRF endpoints.
LEMMA VrfKeeps ==
  ASSUME L3Inv, NEW h \in Handlers, VrfRequest(h)
  PROVE  L3Inv'
  <1>1. PICK v \in Vrfs :
          \/ delete_vrf(h, v)
          \/ \E fallback \in {"true", "false"}, vni \in Vnis \cup {Absent} :
                create_vrf(h, v, fallback, vni) \/ update_vrf(h, v, fallback, vni)
    BY DEF VrfRequest
  <1>2. blindReads \in Nat /\ db \in [Keys -> Row]
    BY DEF L3Inv, StoreTypeOK
  <1>3. ASSUME NEW fallback \in {"true", "false"}, NEW vni \in Vnis \cup {Absent},
               create_vrf(h, v, fallback, vni) \/ update_vrf(h, v, fallback, vni)
        PROVE  L3Inv'
    <2>1. blindReads' \in Nat /\ (Sighted' => Sighted)
      BY <1>2, <1>3 DEF create_vrf, update_vrf, Sighted
    <2>2. \/ \E status \in Statuses : Decline(h, "l3", status)
          \/ Accept(h, "l3", write_vrf_fields(v, fallback, vni), FALSE, [op |-> "vrf"])
      <3>1. 400 \in Statuses /\ 404 \in Statuses
        BY DEF Statuses
      <3> QED
        BY <1>3, <3>1, Zenon DEF create_vrf, update_vrf
    <2> DEFINE p == write_vrf_fields(v, fallback, vni)
    <2>3. /\ p \in Seq(Command)
          /\ \A i \in 0..Len(p) : /\ WellBound(db) => WellBound(After(db, p, i))
                                  /\ Parented(db) => Parented(After(db, p, i))
          /\ \A i \in 1..Len(p) : Rebinds(After(db, p, i - 1), After(db, p, i))
      BY <1>2, VrfWritten
    <2> HIDE DEF p
    <2>4. \/ \E status \in Statuses : Decline(h, "l3", status)
          \/ Accept(h, "l3", p, FALSE, [op |-> "vrf"])
      BY <2>2 DEF p
    <2> QED
      BY <2>1, <2>3, <2>4, PassiveKeeps, VrfPlanKeeps
  <1>4. ASSUME delete_vrf(h, v) PROVE L3Inv'
    <2> DEFINE p == <<Del(Vrf(v))>>
    <2>1. /\ p \in Seq(Command)
          /\ \A i \in 0..Len(p) :
               /\ WellBound(db) /\ BoundTo(db, v) = {} => WellBound(After(db, p, i))
               /\ Parented(db) => Parented(After(db, p, i))
          /\ \A i \in 1..Len(p) : Rebinds(After(db, p, i - 1), After(db, p, i))
      BY <1>2, VrfDeleted
    <2>2. CASE Decline(h, "l3", 404) /\ UNCHANGED blindReads
      <3>1. blindReads' \in Nat /\ (Sighted' => Sighted) /\ 404 \in Statuses
        BY <1>2, <2>2 DEF Sighted, Statuses
      <3> QED
        BY <2>2, <3>1, PassiveKeeps
    <2>3. ASSUME NEW unread \in SUBSET BoundTo(db, v), Blindly(unread # {}),
                 Decline(h, "l3", 409)
          PROVE  L3Inv'
      <3>1. blindReads' \in Nat /\ (Sighted' => Sighted)
        BY <1>2, <2>3, Counted
      <3>2. 409 \in Statuses
        BY DEF Statuses
      <3> QED
        BY <2>3, <3>1, <3>2, PassiveKeeps
    <2>4. ASSUME NEW unread \in SUBSET BoundTo(db, v), Blindly(unread # {}),
                 BoundTo(db, v) \ unread = {}, Accept(h, "l3", p, FALSE, [op |-> "vrf"])
          PROVE  L3Inv'
      <3>1. blindReads' \in Nat /\ (Sighted' => Sighted /\ ~(unread # {}))
        BY <1>2, <2>4, Counted
      <3>2. Sighted' => BoundTo(db, v) = {}
        BY <2>4, <3>1
      <3> HIDE DEF p
      <3> QED
        BY <2>1, <2>4, <3>1, <3>2, VrfPlanKeeps
    <2> QED
      BY <1>4, <2>2, <2>3, <2>4 DEF delete_vrf
  <1> QED
    BY <1>1, <1>3, <1>4

----------------------------------------------------------------------------
(* The theorems.                                                           *)

\* The agent starts on a database that is as good as claimed.
LEMMA L3Starts == Init => L3Inv
  <1> SUFFICES ASSUME Init PROVE L3Inv
    OBVIOUS
  <1>1. PICK d \in Configs0 : StoreInit(d)
    BY DEF Init
  <1>2. d \in [Keys -> Row] /\ Good(d)
    BY L3Constants DEF Good, Sighted, Faultless, StartsBound, StartsParented
  <1>3. StoreTypeOK
    BY <1>1, <1>2, StoreInitType
  <1>4. db = d /\ saved = d /\ \A h \in Handlers : pc[h] = "idle"
    BY <1>1 DEF StoreInit
  <1>5. \A h \in Handlers : HandlerGood(h)
    BY <1>4 DEF HandlerGood, Active, OneAtATime, GoodCourse, OnTarget, PriorsBound,
                UndoAfterFault, InBatch
  <1>6. blindReads \in Nat /\ DOMAIN req = Handlers
    BY DEF Init
  <1> QED
    BY <1>2, <1>3, <1>4, <1>5, <1>6 DEF L3Inv

\* Every step keeps the invariant.
LEMMA L3Step == L3Inv /\ [Next]_vars => L3Inv'
  <1> SUFFICES ASSUME L3Inv, [Next]_vars PROVE L3Inv'
    OBVIOUS
  <1>1. ASSUME NEW h \in Handlers, Receive(h) \/ Malformed(h) PROVE L3Inv'
    <2>1. blindReads' \in Nat /\ (Sighted' => Sighted)
      BY <1>1 DEF Receive, Malformed, L3Inv, Sighted
    <2> QED
      BY <1>1, <2>1, PassiveKeeps
  <1>2. CASE UNCHANGED vars
    <2>1. /\ db' = db /\ saved' = saved /\ lock' = lock /\ pc' = pc /\ todo' = todo
          /\ snaps' = snaps /\ code' = code /\ pre' = pre /\ torn' = torn
          /\ faults' = faults /\ stops' = stops /\ req' = req /\ blindReads' = blindReads
      BY <1>2 DEF vars, storeVars
    <2>2. StoreTypeOK' /\ blindReads' \in Nat /\ DOMAIN req' = Handlers /\ Accumulates
      BY <2>1 DEF L3Inv, StoreTypeOK, Accumulates, Sighted, Faultless
    <2>3. \A g \in Handlers : Untouched(g)
      BY <2>1 DEF Untouched
    <2> QED
      BY <2>1, <2>2, <2>3, QuietKeeps
  <1> QED
    BY <1>1, <1>2, FinishKeeps, InterfaceKeeps, VrfKeeps, CrashKeeps DEF Next

(***************************************************************************)
(* The inductive invariant holds of every run, whatever the agent starts   *)
(* on.                                                                     *)
(***************************************************************************)
THEOREM L3Invariance == Spec => []L3Inv
  BY L3Starts, L3Step, PTL DEF Spec

(***************************************************************************)
(* Started on a configuration whose bindings are valid, the agent never    *)
(* binds an interface to a VRF that is not there, nor deletes a VRF under  *)
(* an interface, nor saves such a configuration, unless the reading of a   *)
(* row degraded to an empty one.                                           *)
(***************************************************************************)
THEOREM BindingsSafe ==
  ASSUME StartsBound
  PROVE  Spec => []BoundVrfExists
  <1>1. L3Inv => BoundVrfExists
    BY DEF L3Inv, Good, Sighted, WellBound, BoundVrfExists, BindingsValid
  <1> QED
    BY <1>1, L3Invariance, PTL

(***************************************************************************)
(* Started on a configuration in which every address has its attribute     *)
(* row, no write before a first failure leaves an address without one,     *)
(* wherever the agent is killed.                                           *)
(***************************************************************************)
THEOREM ParentsSafe ==
  ASSUME StartsParented
  PROVE  Spec => []AddressesHaveParent
  <1>1. L3Inv => AddressesHaveParent
    BY DEF L3Inv, Good, Faultless, Parented, AddressesHaveParent
  <1> QED
    BY <1>1, L3Invariance, PTL

(***************************************************************************)
(* A PUT whose last write was answered left exactly the VRF and the        *)
(* addresses it asked for, from whatever rows it started.                  *)
(***************************************************************************)
THEOREM PutConverges == Spec => []Converged
  <1>1. L3Inv => Converged
    <2> SUFFICES ASSUME L3Inv, NEW h \in Handlers, pc[h] = "batch", todo[h] = <<>>
                 PROVE  /\ VrfOf(db, req[h].name) = req[h].vrf
                        /\ AddressesOf(db, req[h].name) = req[h].ips
      BY DEF Converged
    <2>1. Ends(db, <<>>, req[h].name, req[h].vrf, req[h].ips) /\ db \in [Keys -> Row]
      BY DEF L3Inv, HandlerGood, OnTarget, StoreTypeOK
    <2>2. Len(<<>>) = 0
      OBVIOUS
    <2>3. After(db, <<>>, Len(<<>>)) = db
      BY <2>1, <2>2, AfterNone
    <2> QED
      BY <2>1, <2>3 DEF Ends
  <1> QED
    BY <1>1, L3Invariance, PTL

\* A step that is neither an undo nor a reboot rebinds only bare interfaces.
LEMMA RebindStep ==
  ASSUME L3Inv, [Next]_vars, stops' = stops,
         \A h \in Handlers : pc[h] \notin {"undoDel", "undoSet"}
  PROVE  Rebinds(db, db')
  <1>1. CASE db' = db
    BY <1>1 DEF Rebinds
  <1>2. ASSUME NEW h \in Handlers, Execute(h) \/ ExecuteFault(h) PROVE Rebinds(db, db')
    <2>1. /\ db' \in {db, Issue(db, Head(todo[h]))}
          /\ pc[h] \in {"batch", "plain"} /\ todo[h] # <<>>
      BY <1>2 DEF Execute, ExecuteFault
    <2>2. db \in [Keys -> Row] /\ todo[h] \in Seq(Command) /\ Course(db, todo[h])
      BY <2>1 DEF L3Inv, StoreTypeOK, HandlerGood, GoodCourse
    <2>3. /\ 1 \in 1..Len(todo[h]) /\ After(db, todo[h], 0) = db
          /\ After(db, todo[h], 1) = Issue(db, Head(todo[h]))
      BY <2>1, <2>2, FirstStep
    <2>4. Rebinds(After(db, todo[h], 1 - 1), After(db, todo[h], 1))
      BY <2>2, <2>3 DEF Course
    <2>5. 1 - 1 = 0
      OBVIOUS
    <2>6. Rebinds(db, Issue(db, Head(todo[h])))
      BY <2>3, <2>4, <2>5
    <2> QED
      BY <1>1, <2>1, <2>6
  <1>3. ASSUME NEW h \in Handlers, Finish(h) PROVE Rebinds(db, db')
    <2>1. \/ Execute(h) \/ ExecuteFault(h)
          \/ Abort(h) \/ Save(h) \/ Respond(h) \/ Commit(h, TRUE)
      BY <1>3 DEF Finish, Proceed, Run, UndoDel, UndoSet
    <2>2. Abort(h) \/ Save(h) \/ Respond(h) \/ Commit(h, TRUE) => db' = db
      BY DEF Abort, Save, Respond, Commit
    <2> QED
      BY <1>1, <1>2, <2>1, <2>2
  <1>4. ASSUME NEW h \in Handlers,
               Receive(h) \/ Malformed(h) \/ InterfaceRequest(h) \/ VrfRequest(h)
        PROVE  db' = db
    <2>1. CASE Receive(h) \/ Malformed(h)
      BY <2>1 DEF Receive, Arrive, Malformed, Answer, Refuse
    <2>2. \A ops, batched, r : Accept(h, "l3", ops, batched, r) => db' = db
      BY DEF Accept, Take, Admit
    <2>3. \A status : Decline(h, "l3", status) => db' = db
      BY DEF Decline, Answer, Refuse
    <2>4. CASE InterfaceRequest(h)
      <3>1. PICK n \in Interfaces, blind \in BOOLEAN :
              \/ \E vrf \in Vrfs \cup {Absent}, ips \in SUBSET Addresses :
                    put_interface(h, n, vrf, ips, blind) \/ create_loopback(h, n, vrf, ips, blind)
              \/ delete_interface(h, n, blind)
        BY <2>4 DEF InterfaceRequest
      <3>2. ASSUME NEW vrf, NEW ips,
                   put_interface(h, n, vrf, ips, blind) \/ create_loopback(h, n, vrf, ips, blind)
            PROVE  db' = db
        BY <2>2, <2>3, <3>2, Zenon DEF put_interface, create_loopback
      <3>3. ASSUME delete_interface(h, n, blind) PROVE db' = db
        BY <2>2, <2>3, <3>3, Zenon DEF delete_interface
      <3> QED
        BY <3>1, <3>2, <3>3
    <2>5. CASE VrfRequest(h)
      <3>1. PICK v \in Vrfs :
              \/ delete_vrf(h, v)
              \/ \E fallback \in {"true", "false"}, vni \in Vnis \cup {Absent} :
                    create_vrf(h, v, fallback, vni) \/ update_vrf(h, v, fallback, vni)
        BY <2>5 DEF VrfRequest
      <3>2. ASSUME NEW fallback, NEW vni,
                   create_vrf(h, v, fallback, vni) \/ update_vrf(h, v, fallback, vni)
            PROVE  db' = db
        BY <2>2, <2>3, <3>2, Zenon DEF create_vrf, update_vrf
      <3>3. ASSUME delete_vrf(h, v) PROVE db' = db
        BY <2>2, <2>3, <3>3, Zenon DEF delete_vrf
      <3> QED
        BY <3>1, <3>2, <3>3
    <2> QED
      BY <1>4, <2>1, <2>4, <2>5
  <1>5. ~Crash
    BY StoreConstants DEF Crash, Kill, Reboot, Stopped, L3Inv, StoreTypeOK
  <1>6. CASE UNCHANGED vars
    BY <1>1, <1>6 DEF vars, storeVars
  <1> QED
    BY <1>1, <1>3, <1>4, <1>5, <1>6 DEF Next

(***************************************************************************)
(* No command of converge, delete_interface or the VRF endpoints changes   *)
(* the VRF of an interface that still has addresses, on whatever rows      *)
(* earlier failures left.                                                  *)
(***************************************************************************)
THEOREM RebindsBare == Spec => RebindOnlyWhenBare
  <1>1. L3Inv /\ [Next]_vars =>
          [stops' = stops /\ (\A h \in Handlers : pc[h] \notin {"undoDel", "undoSet"}) =>
             \A n \in Interfaces :
                VrfOf(db, n) # VrfOf(db', n) => AddressesOf(db, n) = {}]_vars
    BY RebindStep DEF Rebinds
  <1> QED
    BY <1>1, L3Invariance, PTL DEF Spec, RebindOnlyWhenBare
=============================================================================
