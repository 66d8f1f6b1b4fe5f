-------------------------------- MODULE Lldp --------------------------------
(***************************************************************************)
(* The LLDP page (src/src/sonic/lldp.rs) and the capability probe it       *)
(* decides on (src/src/sonic/probe.rs): one cached answer to "what does    *)
(* this image run", shared by all pages, at most 15 s old, and dropped by  *)
(* the requests that change what runs.                                     *)
(*                                                                         *)
(* A probe says here what LLDP needs of it: the state in the FEATURE row,  *)
(* whether the container runs, whether the image is an enterprise one.     *)
(***************************************************************************)
EXTENDS Service

CONSTANT LldpInputs  \* bodies of PUT /api/switching/lldp/config

VARIABLES
    cache,   \* probe::CACHE; an entry past its time counts as NoProbe
    prober,  \* who holds its mutex while it gathers
    unseen   \* ghost: the feature changed, or was misread, and the cache was not told

lldpVars == <<cache, prober, unseen>>

Feature == <<"FEATURE", "lldp">>
LldpGlobal == <<"LLDP", "GLOBAL">>
Image == <<"sonic_version", "yml">>
LldpKeys == {Feature, LldpGlobal, Image}
LldpFields == {"state", "hello_time", "multiplier", "system_name", "enterprise"}
LldpValues == {"enabled", "disabled", "set"}
NoProbe == [state |-> "none"]

ASSUME LldpConstants ==
    LldpKeys \subseteq Keys /\ LldpFields \subseteq Fields /\ LldpValues \subseteq Values

LldpInit == cache = NoProbe /\ prober = NoOne /\ unseen = FALSE
----------------------------------------------------------------------------
(***************************************************************************)
(* gather: each source that cannot be read (T) passes for an empty one.    *)
(***************************************************************************)
gather(T) ==
    [state |-> Blinded(T)[Feature]["state"],
     docker |-> "docker" \notin T /\ db[Feature]["state"] = "enabled",
     enterprise |-> Blinded(T)[Image]["enterprise"] = "set"]
lldp_supported(p) == p.state # Absent \/ p.docker
feature_enabled(p) == p.state = "enabled"

\* Requests: a PUT holds the "lldp" mutex; every other page only asks for the probe.
put_config(h, in) ==
    Take(h, {"lldp"}, <<>>, FALSE, <<"current", "toggle", "timers">>,
         [op |-> "lldp", in |-> in, probe |-> NoProbe])
other_page(h) == Take(h, {}, <<>>, FALSE, <<"current">>, [op |-> "page", probe |-> NoProbe])

At(h, step) == pc[h] = "plain" /\ todo[h] = <<>> /\ rest[h] # <<>> /\ Head(rest[h]) = step
Onward(h) == rest' = [rest EXCEPT ![h] = Tail(rest[h])]
Holding(h, p) == req' = [req EXCEPT ![h].probe = p]

(***************************************************************************)
(* probe::current: under the cache's mutex, which is held while gathering. *)
(***************************************************************************)
Cached(h) ==
    /\ At(h, "current") /\ prober = NoOne /\ cache # NoProbe
    /\ Holding(h, cache) /\ Onward(h)
    /\ UNCHANGED <<storeVars, served, blindReads, lldpVars>>
Gather(h) ==
    /\ At(h, "current") /\ prober = NoOne /\ cache = NoProbe
    /\ prober' = h
    /\ \E T \in SUBSET {"FEATURE", "docker", "sonic_version"} :
          /\ Blindness(T)
          /\ Holding(h, gather(T))
          /\ unseen' = (unseen \/ T # {})
    /\ UNCHANGED <<storeVars, rest, served, cache>>
Gathered(h) ==
    /\ prober = h
    /\ cache' = req[h].probe
    /\ prober' = NoOne
    /\ Onward(h)
    /\ UNCHANGED <<storeVars, req, served, blindReads, unseen>>
current(h) == Cached(h) \/ Gather(h) \/ Gathered(h)

\* Mutant of invalidate: it does not wait for a probe that is being gathered.
InvalidateNow(h) ==
    /\ At(h, "invalidate")
    /\ cache' = NoProbe
    /\ Onward(h)
    /\ UNCHANGED <<storeVars, req, served, blindReads, prober, unseen>>
invalidate(h) ==
    /\ At(h, "invalidate") /\ prober = NoOne
    /\ cache' = NoProbe
    /\ Onward(h)
    /\ UNCHANGED <<storeVars, req, served, blindReads, prober, unseen>>

\* An image without LLDP, or timers on one that has none of them.
LldpRefused(h) ==
    LET in == req[h].in
    IN  \/ ~lldp_supported(req[h].probe)
        \/ /\ ~req[h].probe.enterprise
           /\ \E f \in {"hello_time", "multiplier", "system_name"} : in[f] # Absent
Withdraw(h) ==
    /\ At(h, "toggle") /\ LldpRefused(h)
    /\ pc' = [pc EXCEPT ![h] = "done"]
    /\ code' = [code EXCEPT ![h] = IF lldp_supported(req[h].probe) THEN 422 ELSE 409]
    /\ lock' = Released(h)
    /\ req' = [req EXCEPT ![h] = NoRequest]
    /\ rest' = [rest EXCEPT ![h] = <<>>]
    /\ UNCHANGED <<db, saved, todo, snaps, pre, torn, faults, stops>>
    /\ UNCHANGED <<served, blindReads, lldpVars>>

\* `config feature state lldp` when the state is not the one asked for, by the probe.
toggle(h) ==
    /\ At(h, "toggle") /\ ~LldpRefused(h)
    /\ IF req[h].in.enabled # feature_enabled(req[h].probe)
       THEN /\ Extend(h, <<HSet(Feature, [state |-> IF req[h].in.enabled THEN "enabled" ELSE "disabled"])>>)
            /\ rest' = [rest EXCEPT ![h] = <<"invalidate", "timers">>]
       ELSE UNCHANGED storeVars /\ Onward(h)
    /\ UNCHANGED <<req, served, blindReads, lldpVars>>

timers(h) ==
    /\ At(h, "timers")
    /\ Extend(h, IF req[h].probe.enterprise
                 THEN << Optional(LldpGlobal, "hello_time", req[h].in.hello_time),
                         Optional(LldpGlobal, "multiplier", req[h].in.multiplier),
                         Optional(LldpGlobal, "system_name", req[h].in.system_name) >>
                 ELSE <<>>)
    /\ Onward(h)
    /\ UNCHANGED <<req, served, blindReads, lldpVars>>

\* The commands; one that toggles the feature and fails leaves the cache as it is.
Issued(h) ==
    /\ Proceed(h, req[h].op = "lldp")
    /\ unseen' = (unseen \/ (faults' # faults /\ rest[h] # <<>> /\ Head(rest[h]) = "invalidate"))
    /\ UNCHANGED <<cache, prober>>

\* CACHE_TTL has passed.
Expire ==
    /\ prober = NoOne
    /\ cache' = NoProbe
    /\ unseen' = (unseen /\ lock["lldp"] # NoOne)
    /\ UNCHANGED <<vars, prober>>

\* Somebody else enables or disables the feature, on the switch itself.
Outside ==
    /\ \E s \in {"enabled", "disabled"} : db' = [db EXCEPT ![Feature]["state"] = s]
    /\ unseen' = TRUE
    /\ UNCHANGED <<saved, lock, pc, todo, snaps, code, pre, torn, faults, stops>>
    /\ UNCHANGED <<req, rest, served, blindReads, cache, prober>>

LldpCrash == Crash /\ cache' = NoProbe /\ prober' = NoOne /\ unseen' = FALSE

LldpNext ==
    \/ \E h \in Handlers :
          \/ (Receive(h) \/ Malformed(h)) /\ UNCHANGED lldpVars
          \/ /\ other_page(h) \/ \E in \in LldpInputs : put_config(h, in)
             /\ UNCHANGED <<blindReads, lldpVars>>
          \/ current(h) \/ Withdraw(h) \/ toggle(h) \/ invalidate(h) \/ timers(h) \/ Issued(h)
    \/ Expire \/ Outside \/ LldpCrash
----------------------------------------------------------------------------
\* What GET shows: the switch itself, except that "enabled" is the probe's word.
get_lldp(d, p) ==
    [enabled |-> feature_enabled(p),
     hello_time |-> d[LldpGlobal]["hello_time"],
     multiplier |-> d[LldpGlobal]["multiplier"],
     system_name |-> d[LldpGlobal]["system_name"]]

(***************************************************************************)
(* An acknowledged PUT is what the switch does and what the next GET       *)
(* shows, although both go by a cached probe: whoever else gathers one     *)
(* while the feature is toggled cannot leave the old answer in the cache.  *)
(* This needs nobody else to have toggled the feature, no failed toggle    *)
(* and no misread source within the life of the entry (unseen): on an old  *)
(* probe a PUT skips the toggle and answers 200.  Community images have    *)
(* no timers to show.                                                      *)
(***************************************************************************)
LldpReadBack ==
    \A h \in Handlers : Answered(h) /\ req[h].op = "lldp" /\ ~unseen =>
        /\ req[h].in.enabled = (db[Feature]["state"] = "enabled")
        /\ LET next == IF cache = NoProbe THEN gather({}) ELSE cache
               doc == get_lldp(db, next)
           IN  IF next.enterprise THEN doc = req[h].in ELSE doc.enabled = req[h].in.enabled
=============================================================================
