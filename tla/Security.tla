------------------------------ MODULE Security ------------------------------
(***************************************************************************)
(* The security and the system pages: ACLs with the mirror sessions their  *)
(* rules name, AAA, local users, and the system settings.  ACL and mirror  *)
(* requests hold different mutexes and overlap; the others share no row    *)
(* with them, so each behaviour exercises one group.                       *)
(***************************************************************************)
EXTENDS Mirror, Aaa, System

VARIABLE page  \* the pages this behaviour exercises

CONSTANT Pages
ASSUME PagesKnown ==
    /\ Pages \subseteq {"acl", "aaa", "users", "system"}
    /\ {"acl", "mirror", "aaa", "system"} \subseteq Features

SecurityPage(h) ==
    \/ page = "acl" /\ AclRequest(h) /\ UNCHANGED blindReads
    \/ /\ page = "acl"
       /\ \E T \in SUBSET {"ACL_RULE"} : Blindness(T) /\ MirrorRequest(h, Blinded(T))
    \/ page = "aaa" /\ AaaRequest(h) /\ UNCHANGED blindReads
    \/ /\ page = "users"
       /\ \E T \in SUBSET {"group", "admin_groups"} : Blindness(T) /\ UserRequest(h, T)
    \/ page = "system" /\ (SystemRequest(h) \/ (MaintenanceRequest(h) /\ UNCHANGED blindReads))

SystemPages == {"users", "system"}
SecurityNext ==
    /\ \/ \E h \in Handlers :
             \/ Receive(h) \/ Malformed(h) \/ Register(h) \/ ReadFault(h)
             \/ page \in SystemPages /\ SystemStep(h)
             \/ page \notin SystemPages /\ Finish(h)
             \/ pc[h] = "queued" /\ SecurityPage(h)
       \/ page \in SystemPages /\ SystemCrash
       \/ page \notin SystemPages /\ Crash
    /\ UNCHANGED page

SecuritySpec == Init /\ page \in Pages /\ [][SecurityNext]_<<vars, page>>
----------------------------------------------------------------------------
\* What the pages acknowledge is what GET, or the account files, then show.
SecurityReadBack ==
    AclReadBack /\ MirrorReadBack /\ AaaReadBack /\ UserReadBack /\ SystemReadBack
=============================================================================
