----------------------------- MODULE FrrPages ------------------------------
(***************************************************************************)
(* The three pages that program FRR through vtysh.  Each has a mutex of    *)
(* its own; a behaviour exercises one of them, with requests that overlap. *)
(***************************************************************************)
EXTENDS Policy, Isis, Bfd

CONSTANT FrrPageNames
ASSUME FrrPagesKnown ==
    /\ FrrPageNames \subseteq {"policy", "isis", "bfd"} \cap Features
    /\ Configs0 \subseteq [Keys -> Row]

VARIABLE page  \* the page this behaviour exercises
frrPageVars == <<frrVars, page>>

\* bgpd and ospfd are configured elsewhere: a route map is applied or detached.
Attach(n) ==
    LET k == <<"applied", n>>
    IN  /\ page = "policy"
        /\ db' = [db EXCEPT ![k] = IF Exists(db, k) THEN NoRow ELSE Patched(NoRow, Open(k).upd)]
        /\ UNCHANGED <<saved, lock, pc, todo, snaps, code, pre, torn, faults, stops>>
        /\ UNCHANGED <<req, rest, served, blindReads, split>>

FrrRequest(h) ==
    \/ page = "policy" /\ PolicyRequest(h)
    \/ page = "isis" /\ IsisRequest(h)
    \/ page = "bfd" /\ BfdRequest(h)

FrrNext ==
    /\ \/ \E h \in Handlers : FrrStep(h) \/ (pc[h] = "queued" /\ FrrRequest(h))
       \/ \E n \in MapNames : Attach(n)
       \/ FrrCrash
    /\ UNCHANGED page

FrrInit == Init /\ split \in BOOLEAN /\ page \in FrrPageNames
FrrSpec == FrrInit /\ [][FrrNext]_frrPageVars
----------------------------------------------------------------------------
\* One IS-IS instance with one NET, one BFD peer per identity, at every instant.
OneOfEach == OneInstanceOneNet /\ OnePeerPerIdentity

\* What the pages acknowledge is what GET then shows.
FrrReadBack == PolicyReadBack /\ IsisReadBack /\ BfdReadBack
=============================================================================
