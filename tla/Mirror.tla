------------------------------- MODULE Mirror -------------------------------
(***************************************************************************)
(* Port mirroring sessions (src/src/sonic/mirror.rs), behind the "mirror"  *)
(* mutex, without batches.  An ACL rule may name a session.  spanOk is     *)
(* Probe::span_mirror_supported; d is what the degrading reads return.     *)
(***************************************************************************)
EXTENDS Acl

CONSTANTS Sessions, SessionInputs

MirrorSession(s) == <<"MIRROR_SESSION", s>>
MirrorKeys == {MirrorSession(s) : s \in Sessions}
MirrorFields == {"src_port", "direction", "type", "dst_port", "src_ip", "gre_type"}
MirrorValues == {"SPAN", "ERSPAN", "RX", "TX", "BOTH", "set"} \cup Members \cup Sessions

ASSUME MirrorConstants ==
    /\ MirrorKeys \subseteq Keys /\ MirrorFields \subseteq Fields /\ MirrorValues \subseteq Values
    /\ SessionInputs \subseteq
          [type : {"span", "erspan"}, source : Members, direction : {"rx", "tx", "both"},
           dst_port : Ports \cup {Absent}, src_ip : Option, gre_type : Option]

\* GET: legacy rows have no type and are ERSPAN; no direction is both.
session_doc(d, s) ==
    LET row == d[MirrorSession(s)]
        span == row["type"] = "SPAN"
    IN  [type |-> IF span THEN "span" ELSE "erspan",
         source |-> row["src_port"],
         direction |-> CASE row["direction"] = "RX" -> "rx" [] row["direction"] = "TX" -> "tx"
                         [] OTHER -> "both",
         dst_port |-> IF span THEN row["dst_port"] ELSE Absent,
         src_ip |-> IF span THEN Absent ELSE row["src_ip"],
         gre_type |-> IF span THEN Absent ELSE row["gre_type"]]

\* The parameters that go with each type of session.
session_shape(in) ==
    /\ in.type = "span" => in.dst_port # Absent /\ {in.src_ip, in.gre_type} = {Absent}
    /\ in.type = "erspan" => in.dst_port = Absent /\ in.src_ip # Absent

\* The source is there, and no port is copied to itself.
session_ports(in) ==
    /\ in.source \in Lags => Exists(db, Lag(in.source))
    /\ in.dst_port # in.source

as_config(direction) ==
    CASE direction = "rx" -> "RX" [] direction = "tx" -> "TX" [] direction = "both" -> "BOTH"

session_fields(in, spanOk) ==
    Given([src_port |-> in.source, direction |-> as_config(in.direction),
           type |-> CASE in.type = "span" -> "SPAN" [] spanOk -> "ERSPAN" [] OTHER -> Absent,
           dst_port |-> in.dst_port, src_ip |-> in.src_ip, gre_type |-> in.gre_type])

\* Mutant of session_writes: fields of the previous type linger.
SessionMerge(s, in, spanOk) == <<HSet(MirrorSession(s), session_fields(in, spanOk))>>
session_writes(s, in, spanOk) ==
    <<Del(MirrorSession(s)), HSet(MirrorSession(s), session_fields(in, spanOk))>>

put_session(h, s, in, spanOk) ==
    \/ /\ session_shape(in) /\ (in.type = "span" => spanOk) /\ session_ports(in)
       /\ Accept(h, "mirror", session_writes(s, in, spanOk), FALSE,
                 [op |-> "session", name |-> s, doc |-> in])
    \/ ~session_shape(in) /\ Decline(h, "mirror", 400)
    \/ session_shape(in) /\ in.type = "span" /\ ~spanOk /\ Decline(h, "mirror", 409)
    \/ /\ session_shape(in) /\ (in.type = "span" => spanOk) /\ ~session_ports(in)
       /\ Decline(h, "mirror", 400)

\* Mutant of referenced: the directional actions are forgotten.
ReferencedPlain(d, s) == \E k \in Keys : k[1] = "ACL_RULE" /\ d[k]["MIRROR_ACTION"] = s
referenced(d, s) ==
    \E k \in Keys :
        k[1] = "ACL_RULE" /\ s \in {d[k]["MIRROR_ACTION"], d[k]["MIRROR_INGRESS_ACTION"]}

delete_session(h, d, s) ==
    \/ Exists(db, MirrorSession(s)) /\ ~referenced(d, s)
       /\ Accept(h, "mirror", <<Del(MirrorSession(s))>>, FALSE, [op |-> "drop"])
    \/ ~Exists(db, MirrorSession(s)) /\ Decline(h, "mirror", 404)
    \/ Exists(db, MirrorSession(s)) /\ referenced(d, s) /\ Decline(h, "mirror", 409)

MirrorRequest(h, d) ==
    \E s \in Sessions :
        \/ delete_session(h, d, s)
        \/ \E in \in SessionInputs, spanOk \in BOOLEAN : put_session(h, s, in, spanOk)
----------------------------------------------------------------------------
(***************************************************************************)
(* delete_session: "deleting a session out from under one would strand the *)
(* rule": as long as no read degraded, no write failed and nothing was     *)
(* killed, a session an ACL rule names is there whenever the mutex is      *)
(* free.  (put_session deletes the row before it writes it.)               *)
(***************************************************************************)
SessionsBackRules ==
    lock["mirror"] = NoOne /\ faults = 0 /\ stops = 0 /\ blindReads = 0 =>
        \A k \in Keys, f \in {"MIRROR_ACTION", "MIRROR_INGRESS_ACTION"} :
            k[1] = "ACL_RULE" /\ db[k][f] # Absent => Exists(db, MirrorSession(db[k][f]))

(***************************************************************************)
(* put_session: "so stale fields from a previous type never linger": when  *)
(* its last write is answered, GET shows the session as it was requested,  *)
(* whatever was there before and whether or not the image has the type     *)
(* field.                                                                  *)
(***************************************************************************)
MirrorReadBack ==
    \A h \in Handlers :
        Answered(h) /\ req[h].op = "session" => session_doc(db, req[h].name) = req[h].doc
=============================================================================
