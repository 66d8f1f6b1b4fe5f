----------------------------- MODULE PortPages -----------------------------
(***************************************************************************)
(* The pages whose rows refer to ports: DSCP trust, storm control, sFlow,  *)
(* spanning tree.  Each has its own mutex and rows no other page writes,   *)
(* so each behaviour exercises one of them with overlapping requests.      *)
(***************************************************************************)
EXTENDS PortPolicies, Stp

VARIABLE page  \* the page this behaviour exercises

CONSTANT Pages
ASSUME PagesKnown == Pages \subseteq {"qos", "storm", "sflow", "stp"}

PortPageRequest(h) ==
    \/ /\ page = "qos"
       /\ \E T \in SUBSET {"PORT_QOS_MAP"} : Blindness(T) /\ QosRequest(h, Blinded(T))
    \/ page = "storm" /\ StormRequest(h) /\ UNCHANGED blindReads
    \/ page = "sflow" /\ SflowRequest(h) /\ UNCHANGED blindReads
    \/ page = "stp" /\ StpRequest(h)

PortPagesNext ==
    /\ \/ \E h \in Handlers :
             \/ Receive(h) \/ Malformed(h) \/ Finish(h)
             \/ pc[h] = "queued" /\ PortPageRequest(h)
       \/ Crash
    /\ UNCHANGED page

PortPagesSpec == Init /\ page \in Pages /\ [][PortPagesNext]_<<vars, page>>
----------------------------------------------------------------------------
\* Never more collectors or spanning-tree instances than the platform takes.
PlatformLimits == CollectorCap /\ InstancesWithinLimit

\* What the pages acknowledge is what GET then shows.
PortPagesReadBack == PortReadBack /\ StpReadBack
=============================================================================
