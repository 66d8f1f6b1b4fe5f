------------------------------- MODULE Policy -------------------------------
(***************************************************************************)
(* Prefix lists and route maps (src/src/sonic/policy.rs).  A prefix list   *)
(* is one block per family and name whose statements are its numbered      *)
(* rules; a route map is one block whose statements are the action and the *)
(* clauses of its numbered entries.                                        *)
(***************************************************************************)
EXTENDS Frr

CONSTANTS
    ListNames,   \* prefix lists
    MapNames,    \* route maps
    ListInputs,  \* PrefixListInput bodies: [family, rules]
    MapInputs,   \* RouteMapInput bodies: sequences of entries
    Clauses      \* the match and set clauses the entries use

Families == {"ipv4", "ipv6"}
ListKey(family, n) == <<"prefix-list", family, n>>
MapKey(n) == <<"route-map", n>>

ASSUME PolicyConstants ==
    /\ {ListKey(family, n) : family \in Families, n \in ListNames} \subseteq Keys
    /\ {MapKey(n) : n \in MapNames} \subseteq Keys
    /\ Absent \notin Families
    /\ \A in \in ListInputs : in.rules \in Seq(Range(in.rules))
    /\ \A in \in MapInputs :
          in \in Seq(Range(in)) /\ \A i \in DOMAIN in : IsFiniteSet(DOMAIN in[i].clauses)

(***************************************************************************)
(* parse_running_config.  What is read is what FRR prints: the rules of a  *)
(* list by number, the entries of a map by number, and the maps some line  *)
(* outside a route-map block mentions ("applied" stands for such a line).  *)
(***************************************************************************)
Numbers(d, k, word) == {s \in {f[1] : f \in Fields} : <<s, word>> \in Fields /\ d[k][<<s, word>>] # Absent}
PrefixRules(d, family, n) ==
    LET k == ListKey(family, n)
    IN  [s \in Numbers(d, k, "rule") |-> d[k][<<s, "rule">>]]
Entries(d, n) ==
    [s \in Numbers(d, MapKey(n), "action") |->
        [action |-> d[MapKey(n)][<<s, "action">>],
         clauses |-> Given([c \in Clauses |-> d[MapKey(n)][<<s, c>>]])]]
route_map_refs(d) == {n \in MapNames : Exists(d, <<"applied", n>>)}

\* PolicyRunning::prefix_list: the first list of that name, of either family.
prefix_list(d, n) ==
    LET families == {f \in Families : Exists(d, ListKey(f, n))}
    IN  IF families = {} THEN {Absent} ELSE families
route_map(d, n) == Exists(d, MapKey(n))

\* The maps that match on a list, whatever the family they match it in.
ListClauses == {"ip_prefix_list", "ipv6_prefix_list"} \cap Clauses
Users(d, n) ==
    {m \in MapNames : \E s \in DOMAIN Entries(d, m), c \in ListClauses :
        d[MapKey(m)][<<s, c>>] = <<n>>}
----------------------------------------------------------------------------
check_action(a) == a \in {"permit", "deny"}
MaxLen(family) == IF family = "ipv4" THEN 32 ELSE 128
\* A rule's prefix is its family and its length.
check_prefix_rule(family, r) ==
    /\ r.seq > 0
    /\ check_action(r.action)
    /\ r.af = family /\ r.len <= MaxLen(family)
    /\ \A v \in {r.ge, r.le} \ {Absent} : v \in r.len..MaxLen(family)
    /\ r.ge # Absent /\ r.le # Absent => r.ge <= r.le
NoDuplicateSeq(items) ==
    \A i, j \in DOMAIN items : items[i].seq = items[j].seq => i = j
ListOK(in) ==
    /\ in.family \in Families
    /\ in.rules # <<>>
    /\ \A i \in DOMAIN in.rules : check_prefix_rule(in.family, in.rules[i])
    /\ NoDuplicateSeq(in.rules)

RuleValue(r) == <<r.action, r.len, r.ge, r.le>>
RuleLines(n, in) ==
    [i \in DOMAIN in.rules |->
        HSetField(ListKey(in.family, n), <<in.rules[i].seq, "rule">>, RuleValue(in.rules[i]))]

\* Mutant of ListLines: only a list of the requested family is removed.
ListLinesOwnFamily(cur, n, in) ==
    (IF cur # in.family THEN <<>> ELSE <<Del(ListKey(cur, n))>>) \o RuleLines(n, in)

\* The list that is there goes first, whichever family it has.
ListLines(cur, n, in) ==
    (IF cur = Absent THEN <<>> ELSE <<Del(ListKey(cur, n))>>) \o RuleLines(n, in)

put_prefix_list(h, n, in) ==
    \/ ~ListOK(in) /\ Refused(h, "policy", 400)
    \/ /\ ListOK(in)
       /\ \E cur \in prefix_list(db, n) :
             vtysh_config(h, "policy", ListLines(cur, n, in),
                          [op |-> "put list", name |-> n, in |-> in])

\* Mutant of ListInUse: the route maps are not asked.
ListNeverInUse(n) == FALSE

ListInUse(n) == Users(db, n) # {}

delete_prefix_list(h, n) ==
    \E cur \in prefix_list(db, n) :
       \/ cur = Absent /\ Refused(h, "policy", 404)
       \/ cur # Absent /\ ListInUse(n) /\ Refused(h, "policy", 409)
       \/ /\ cur # Absent /\ ~ListInUse(n)
          /\ vtysh_config(h, "policy", <<Del(ListKey(cur, n))>>,
                          [op |-> "delete list", name |-> n])
----------------------------------------------------------------------------
\* A clause value no vtysh line may carry is "bad" here.
check_entry(e) ==
    /\ e.seq \in 1..65535
    /\ check_action(e.action)
    /\ \A c \in DOMAIN e.clauses : e.clauses[c] # "bad"
MapOK(in) ==
    /\ in # <<>>
    /\ \A i \in DOMAIN in : check_entry(in[i])
    /\ NoDuplicateSeq(in)

\* One line opens the entry, then one for each clause, then `exit`.
entry_lines(n, e) ==
    LET clauses == SetToSeq(DOMAIN e.clauses)
    IN  <<HSetField(MapKey(n), <<e.seq, "action">>, <<e.action>>)>> \o
        [i \in DOMAIN clauses |->
            HSetField(MapKey(n), <<e.seq, clauses[i]>>, <<e.clauses[clauses[i]]>>)]

MapLines(n, in) ==
    (IF route_map(db, n) THEN <<Del(MapKey(n))>> ELSE <<>>) \o
    FlattenSeq([i \in DOMAIN in |-> entry_lines(n, in[i])])

put_route_map(h, n, in) ==
    \/ ~MapOK(in) /\ Refused(h, "policy", 400)
    \/ /\ MapOK(in)
       /\ vtysh_config(h, "policy", MapLines(n, in), [op |-> "put map", name |-> n, in |-> in])

delete_route_map(h, n) ==
    \/ ~route_map(db, n) /\ Refused(h, "policy", 404)
    \/ /\ route_map(db, n) /\ n \in route_map_refs(db)
       /\ Refused(h, "policy", 409)
    \/ /\ route_map(db, n) /\ n \notin route_map_refs(db)
       /\ vtysh_config(h, "policy", <<Del(MapKey(n))>>, [op |-> "delete map", name |-> n])

PolicyRequest(h) ==
    \/ \E n \in ListNames : delete_prefix_list(h, n) \/ \E in \in ListInputs : put_prefix_list(h, n, in)
    \/ \E n \in MapNames : delete_route_map(h, n) \/ \E in \in MapInputs : put_route_map(h, n, in)
----------------------------------------------------------------------------
(***************************************************************************)
(* A list exists in one family at most, at every moment, a half-done       *)
(* replacement or a failed line included: put_prefix_list removes the old  *)
(* family's list first ("a family change must not leave the old-family     *)
(* list behind") and no other request creates one.                         *)
(***************************************************************************)
OneFamily ==
    \A n \in ListNames : Cardinality({f \in Families : Exists(db, ListKey(f, n))}) <= 1

(***************************************************************************)
(* delete_prefix_list checks that no route map matches on the list and     *)
(* removes it later, by another vtysh call: because put_route_map takes    *)
(* the same mutex, no map has come to match on it in the meantime.         *)
(***************************************************************************)
DeletesUnusedLists ==
    \A h \in Handlers : req[h].op = "delete list" /\ todo[h] # <<>> => Users(db, req[h].name) = {}

\* The bodies as GET shows them.
ListDoc(in) ==
    [s \in {in.rules[i].seq : i \in DOMAIN in.rules} |->
        RuleValue(in.rules[CHOOSE i \in DOMAIN in.rules : in.rules[i].seq = s])]
MapDoc(in) ==
    [s \in {in[i].seq : i \in DOMAIN in} |->
        LET e == in[CHOOSE i \in DOMAIN in : in[i].seq = s]
        IN  [action |-> <<e.action>>, clauses |-> [c \in DOMAIN e.clauses |-> <<e.clauses[c]>>]]]

(***************************************************************************)
(* A write that every line of took effect leaves exactly the object of its *)
(* body: no rule, entry or clause of the previous one, in either family.   *)
(***************************************************************************)
PolicyReadBack ==
    \A h \in Handlers : Answered(h) =>
        CASE req[h].op = "put list" ->
                 \A f \in Families : PrefixRules(db, f, req[h].name) =
                     IF f = req[h].in.family THEN ListDoc(req[h].in) ELSE <<>>
          [] req[h].op = "put map" -> Entries(db, req[h].name) = MapDoc(req[h].in)
          [] req[h].op = "delete list" -> prefix_list(db, req[h].name) = {Absent}
          [] req[h].op = "delete map" -> ~route_map(db, req[h].name)
          [] OTHER -> TRUE
=============================================================================
