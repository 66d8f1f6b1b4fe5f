-------------------------------- MODULE Aaa --------------------------------
(***************************************************************************)
(* Login order, TACACS+ and RADIUS (src/src/sonic/aaa.rs), behind the      *)
(* "aaa" mutex, without batches.  Both protocols have the same operations  *)
(* on rows of their own: one stands for either.  A server's "priority"     *)
(* stands for its three optional numbers.                                  *)
(***************************************************************************)
EXTENDS Service

CONSTANT Servers  \* addresses accepted by check_address

AaaAuth == <<"AAA", "authentication">>
AaaGlobal == <<"TACPLUS", "global">>
AaaServer(a) == <<"TACPLUS_SERVER", a>>
AaaKeys == {AaaAuth, AaaGlobal} \cup {AaaServer(a) : a \in Servers}
AaaFields == {"login", "failthrough", "auth_type", "timeout", "passkey", "priority", "NULL"}
LoginOrders == {"local", "local,tacacs+", "tacacs+,local", "tacacs+"}
AaaValues == LoginOrders \cup {"True", "False", "pap", "chap", "set", "NULL"}

ASSUME AaaConstants ==
    AaaKeys \subseteq Keys /\ AaaFields \subseteq Fields /\ AaaValues \subseteq Values

\* GET /api/security/aaa: secrets are only reported as set or not.
proto_doc(d) ==
    [auth_type |-> OrElse(d[AaaGlobal]["auth_type"], "pap"),
     timeout |-> d[AaaGlobal]["timeout"],
     global_key_set |-> d[AaaGlobal]["passkey"] # Absent,
     servers |-> [a \in {b \in Servers : Exists(d, AaaServer(b))} |->
                    [priority |-> d[AaaServer(a)]["priority"],
                     key_set |-> d[AaaServer(a)]["passkey"] # Absent]]]
login_order(d) == OrElse(d[AaaAuth]["login"], "local")

\* The lockout guard.
put_authentication(h, order, failthrough) ==
    \/ order # "tacacs+"
       /\ Accept(h, "aaa", <<HSet(AaaAuth, [login |-> order, failthrough |-> failthrough])>>,
                 FALSE, [op |-> "login", order |-> order])
    \/ order = "tacacs+" /\ Decline(h, "aaa", 400)

\* null leaves the secret (Keep), "" clears it.
apply_key(k, key) ==
    CASE key = Keep -> <<>>
      [] key = "" -> <<HDel(k, {"passkey"})>>
      [] OTHER -> <<HSet(k, [passkey |-> key])>>

put_aaa_global(h, auth, timeout, key) ==
    Accept(h, "aaa",
           <<HSet(AaaGlobal, [auth_type |-> auth]), Optional(AaaGlobal, "timeout", timeout)>>
           \o apply_key(AaaGlobal, key), FALSE,
           [op |-> "global", auth |-> auth, timeout |-> timeout, key |-> key,
            was |-> proto_doc(db).global_key_set])

(***************************************************************************)
(* write_server_fields reads the row back after the optional fields, marks *)
(* it if it is empty, and then applies the key.                            *)
(***************************************************************************)
write_server_fields(h, a, priority, key) ==
    Take(h, {"aaa"}, <<Optional(AaaServer(a), "priority", priority)>>, FALSE, <<"register">>,
         [op |-> "server", address |-> a, priority |-> priority, key |-> key,
          was |-> db[AaaServer(a)]["passkey"] # Absent])

Register(h) ==
    /\ rest[h] = <<"register">>
    /\ LET k == AaaServer(req[h].address)
       IN  Extend(h, (IF Exists(db, k) THEN <<>> ELSE <<HSet(k, Marker)>>)
                     \o apply_key(k, req[h].key))
    /\ rest' = [rest EXCEPT ![h] = <<>>]
    /\ UNCHANGED <<req, served, blindReads>>

create_server(h, a, priority, key) ==
    \/ ~Exists(db, AaaServer(a)) /\ write_server_fields(h, a, priority, key)
    \/ Exists(db, AaaServer(a)) /\ Decline(h, "aaa", 409)

update_server(h, a, priority, key) ==
    \/ Exists(db, AaaServer(a)) /\ write_server_fields(h, a, priority, key)
    \/ ~Exists(db, AaaServer(a)) /\ Decline(h, "aaa", 404)

delete_server(h, a) ==
    \/ Exists(db, AaaServer(a)) /\ Accept(h, "aaa", <<Del(AaaServer(a))>>, FALSE, [op |-> "drop"])
    \/ ~Exists(db, AaaServer(a)) /\ Decline(h, "aaa", 404)

AaaRequest(h) ==
    \/ \E order \in LoginOrders, failthrough \in {"True", "False"} :
          put_authentication(h, order, failthrough)
    \/ \E key \in {"set", "", Keep} :
          \/ \E auth \in {"pap", "chap"}, timeout \in {"set", Absent} :
                put_aaa_global(h, auth, timeout, key)
          \/ \E a \in Servers, priority \in {"set", Absent} :
                create_server(h, a, priority, key) \/ update_server(h, a, priority, key)
    \/ \E a \in Servers : delete_server(h, a)
----------------------------------------------------------------------------
\* What the write-only key convention makes of the secret that was there.
KeyAfter(key, was) == CASE key = Keep -> was [] key = "" -> FALSE [] OTHER -> TRUE

(***************************************************************************)
(* The AAA page reads back what it wrote, secrets by the convention "key:  *)
(* null means unchanged and "" clears", on whatever rows failed requests   *)
(* left.  (Clearing the key of a server that has nothing else empties its  *)
(* row, and the server is gone.)                                           *)
(***************************************************************************)
AaaReadBack ==
    \A h \in Handlers :
        Answered(h) =>
            LET doc == proto_doc(db)
            IN  CASE req[h].op = "login" -> login_order(db) = req[h].order
                  [] req[h].op = "global" ->
                        /\ doc.auth_type = req[h].auth /\ doc.timeout = req[h].timeout
                        /\ doc.global_key_set = KeyAfter(req[h].key, req[h].was)
                  [] req[h].op = "server" /\ req[h].key # "" ->
                        /\ req[h].address \in DOMAIN doc.servers
                        /\ doc.servers[req[h].address] =
                              [priority |-> req[h].priority,
                               key_set |-> KeyAfter(req[h].key, req[h].was)]
                  [] OTHER -> TRUE
=============================================================================
