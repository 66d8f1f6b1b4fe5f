------------------------------ MODULE Service ------------------------------
(***************************************************************************)
(* What every write endpoint of the management API has in common           *)
(* (src/src/sonic/mgmtapi.rs, Api::call): a request arrives on a thread of *)
(* its own, is refused or turned into a plan, and the plan runs on the     *)
(* write path of Store.  Feature modules EXTEND this one and add only the  *)
(* operations of their pages, so that several can be composed.             *)
(***************************************************************************)
EXTENDS Store

CONSTANTS
    Configs0,     \* CONFIG_DB contents the agent may start on
    MaxRequests,  \* bound on requests received
    MaxBlindReads \* bound on readings in which rows degrade to "empty"

VARIABLES
    req,       \* the request each handler serves
    rest,      \* the readings it still has to make
    served,    \* requests received so far
    blindReads \* degraded readings so far

vars == <<storeVars, req, rest, served, blindReads>>

NoRequest == [op |-> "none"]

\* The writes of a handler that makes further readings later on.
Take(h, fs, ops, batched, readings, r) ==
    /\ Admit(h, fs, ops, batched)
    /\ req' = [req EXCEPT ![h] = r]
    /\ rest' = [rest EXCEPT ![h] = readings]
    /\ UNCHANGED served
Answer(h, fs, status) == Refuse(h, fs, status) /\ UNCHANGED <<req, rest, served>>

\* A feature that takes its mutex, reads, and writes.
Accept(h, f, ops, batched, r) == Take(h, {f}, ops, batched, <<>>, r)
Decline(h, f, status) == Answer(h, {f}, status)

(***************************************************************************)
(* store::keys and store::row turn a failed read into "nothing": what a    *)
(* handler sees when the scans of some tables (T) fail that way.           *)
(***************************************************************************)
Blinded(T) == [k \in Keys |-> IF k[1] \in T THEN NoRow ELSE db[k]]
Blindness(T) ==
    /\ T # {} => blindReads < MaxBlindReads
    /\ blindReads' = IF T = {} THEN blindReads ELSE blindReads + 1

Receive(h) ==
    /\ served < MaxRequests
    /\ served' = served + 1
    /\ Arrive(h)
    /\ UNCHANGED <<req, rest, blindReads>>

(***************************************************************************)
(* A body that does not parse, a value out of range, a feature or a value  *)
(* the image does not have, or an unreachable redis: nothing is written.   *)
(* (The answer is 400, 409, 422 or 500; nothing here depends on which.)    *)
(***************************************************************************)
Malformed(h) == Answer(h, {}, 400) /\ UNCHANGED blindReads

\* A later reading that fails ends the request; what was written stays.
ReadFault(h) ==
    /\ rest[h] # <<>>
    /\ pc[h] = "plain" /\ todo[h] = <<>>
    /\ faults < MaxFaults
    /\ faults' = faults + 1
    /\ pc' = [pc EXCEPT ![h] = "done"]
    /\ code' = [code EXCEPT ![h] = 500]
    /\ req' = [req EXCEPT ![h] = NoRequest]
    /\ rest' = [rest EXCEPT ![h] = <<>>]
    /\ lock' = Released(h)
    /\ UNCHANGED <<db, saved, todo, snaps, pre, torn, stops, served, blindReads>>

\* Commands, the trailing config save where the route asks for it, the answer.
Proceed(h, persist) ==
    /\ Run(h) \/ (rest[h] = <<>> /\ Commit(h, persist))
    /\ IF pc'[h] \in {"save", "done", "idle"}
       THEN /\ req' = [req EXCEPT ![h] = NoRequest]
            /\ rest' = [rest EXCEPT ![h] = <<>>]
       ELSE UNCHANGED <<req, rest>>
    /\ UNCHANGED <<served, blindReads>>
Finish(h) == Proceed(h, TRUE)

\* The threads are gone with the process.
Forget ==
    /\ req' = [h \in Handlers |-> NoRequest]
    /\ rest' = [h \in Handlers |-> <<>>]
    /\ UNCHANGED <<served, blindReads>>
Crash == (Kill \/ Reboot) /\ Forget

Init ==
    /\ \E d \in Configs0 : StoreInit(d)
    /\ req = [h \in Handlers |-> NoRequest]
    /\ rest = [h \in Handlers |-> <<>>]
    /\ served = 0
    /\ blindReads = 0

ServiceTypeOK ==
    /\ StoreTypeOK
    /\ served \in 0..MaxRequests
    /\ blindReads \in 0..MaxBlindReads
    /\ \A h \in Handlers : rest[h] # <<>> => pc[h] = "plain" /\ req[h] # NoRequest

\* A handler whose last write has been answered and whose mutex it still holds.
Answered(h) == pc[h] \in {"batch", "plain"} /\ todo[h] = <<>> /\ rest[h] = <<>>
=============================================================================
