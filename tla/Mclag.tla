------------------------------- MODULE Mclag -------------------------------
(***************************************************************************)
(* The switch's MCLAG domain and its member port channels                  *)
(* (src/src/sonic/mclag.rs).  Writes hold the "mclag" mutex, none uses a   *)
(* batch.  d is what the handler's reads return.                           *)
(***************************************************************************)
EXTENDS Service

CONSTANTS
    DomainIds,  \* domain ids, in their order
    LagNames,   \* port channel names
    SessionIps, \* values accepted for source_ip and peer_ip
    DomainInputs \* bodies; the other optional settings stand with the keepalive interval

Ids == Range(DomainIds)
PortChannel(l) == <<"PORTCHANNEL", l>>
Domain(i) == <<"MCLAG_DOMAIN", i>>
Member(i, l) == <<"MCLAG_INTERFACE", i, l>>
MclagRows == {Member(i, l) : i \in Ids, l \in LagNames}

MclagKeys == {PortChannel(l) : l \in LagNames} \cup {Domain(i) : i \in Ids} \cup MclagRows
MclagFields == {"source_ip", "peer_ip", "peer_link", "keepalive_interval", "if_type"}
MclagValues == SessionIps \cup LagNames \cup {"set", "PortChannel"}
MclagScans == {"MCLAG_DOMAIN", "MCLAG_INTERFACE"}

ASSUME MclagConstants ==
    /\ MclagKeys \subseteq Keys /\ MclagFields \subseteq Fields
    /\ MclagValues \subseteq Values
    /\ DomainInputs \subseteq
          [domain_id : Ids, source_ip : SessionIps, peer_ip : SessionIps,
           peer_link : LagNames \cup {Absent}, keepalive : Option, members : SUBSET LagNames]

DomainsOf(d) == {i \in Ids : Exists(d, Domain(i))}
MemberRowsOf(d) == {k \in MclagRows : Exists(d, k)}

\* GET /api/ha/mclag: the domain with the smallest id and its members.
NoDomain == [domain_id |-> Absent]
get_mclag(d) ==
    IF DomainsOf(d) = {} THEN NoDomain
    ELSE LET i == DomainIds[Min({j \in DOMAIN DomainIds : DomainIds[j] \in DomainsOf(d)})]
             row == d[Domain(i)]
         IN  [domain_id |-> i, source_ip |-> row["source_ip"], peer_ip |-> row["peer_ip"],
              peer_link |-> row["peer_link"], keepalive |-> row["keepalive_interval"],
              members |-> {l \in LagNames : Member(i, l) \in MemberRowsOf(d)}]

DomainOK(in) == in.source_ip # in.peer_ip /\ in.peer_link \notin in.members
LagsExist(d, in) ==
    \A l \in in.members \cup ({in.peer_link} \ {Absent}) : Exists(d, PortChannel(l))

\* Member rows of another domain, or not in the desired set.
StaleMembers(d, in) ==
    {k \in MemberRowsOf(d) : k[2] # in.domain_id \/ k[3] \notin in.members}
OtherDomains(d, in) == {Domain(i) : i \in DomainsOf(d) \ {in.domain_id}}

DomainRow(in) ==
    Given([source_ip |-> in.source_ip, peer_ip |-> in.peer_ip, peer_link |-> in.peer_link,
           keepalive_interval |-> in.keepalive])
MemberWrites(in) ==
    LET order == SetToSeq(in.members)
    IN  [j \in DOMAIN order |-> HSet(Member(in.domain_id, order[j]), [if_type |-> "PortChannel"])]

\* Mutant of DomainWrites: the new domain is written before the old one goes.
DomainWritesFirst(d, in) ==
    <<Del(Domain(in.domain_id)), HSet(Domain(in.domain_id), DomainRow(in))>>
    \o Dels(OtherDomains(d, in)) \o Dels(StaleMembers(d, in)) \o MemberWrites(in)
\* "Replace the whole row so cleared optionals never linger."
DomainWrites(d, in) ==
    Dels(OtherDomains(d, in)) \o Dels(StaleMembers(d, in))
    \o <<Del(Domain(in.domain_id)), HSet(Domain(in.domain_id), DomainRow(in))>>
    \o MemberWrites(in)

put_mclag(h, d, in) ==
    IF DomainOK(in) /\ LagsExist(d, in)
    THEN Accept(h, "mclag", DomainWrites(d, in), FALSE, [op |-> "put mclag", doc |-> in])
    ELSE Decline(h, "mclag", 400)

delete_mclag(h, d) ==
    IF DomainsOf(d) # {}
    THEN Accept(h, "mclag", Dels(MemberRowsOf(d)) \o Dels({Domain(i) : i \in DomainsOf(d)}),
                FALSE, [op |-> "put mclag", doc |-> NoDomain])
    ELSE Decline(h, "mclag", 404)

MclagRequest(h, d) == delete_mclag(h, d) \/ \E in \in DomainInputs : put_mclag(h, d, in)
----------------------------------------------------------------------------
(***************************************************************************)
(* "One domain per switch": an upsert under a new id never leaves two      *)
(* domains, whatever failed or was killed half way or came back with a     *)
(* reboot, as long as no scan degraded.                                    *)
(***************************************************************************)
OneDomain ==
    blindReads = 0 => \A d \in {db, saved} : \A i, j \in DomainsOf(d) : i = j

(***************************************************************************)
(* What an accepted PUT or DELETE leaves is what GET then shows, on        *)
(* whatever rows earlier failures left: the settings and the members of    *)
(* the body, and no member row of any other domain, which would name a     *)
(* domain that is not there.                                               *)
(***************************************************************************)
MclagReadBack ==
    \A h \in Handlers : Answered(h) /\ req[h].op = "put mclag" /\ blindReads = 0 =>
        /\ get_mclag(db) = req[h].doc
        /\ \A k \in MemberRowsOf(db) : Exists(db, Domain(k[2]))
=============================================================================
