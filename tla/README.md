# quartz-sonic in TLA+

quartz-sonic is the agent that a SONiC switch runs to be managed from Quartz
Command. It keeps a device identity, enrolls with a one-time token, holds a
mutually authenticated stream to the controller, and serves the controller's
REST-like requests by rewriting the switch's configuration database or FRR's
running configuration. This directory holds its models, the TLC runs that check
them on small instances, and the TLAPS proofs of what holds for every instance.

`tlc -config X.cfg M` runs configuration X of module M; `tlapm M.tla` checks the
proofs of one of the modules with theorems (`StoreProofs`, `BatchProofs`,
`L3Proofs`, `SecurityProofs`, `FrrProofs`, `AtomicFile`, `AgentProofs`).
`PROJECT.json` lists every run with its expected outcome, which lines of the
source each definition stands for, and for every property a mutation of the
model that breaks it.

## The system

| Part | State it keeps | Operations | Talks to |
|---|---|---|---|
| CLI (`main.rs`, `cli/`) | none | `enroll`, `unenroll`, `status` | files, controller, systemd |
| Identity store (`identity/`, `state.rs`) | `device.key`, `client.crt`, `ca-chain.crt`, `pinned-ca.crt`, `state.json` | load or generate, save certificates, save state | file system |
| Daemon (`control/daemon.rs`) | the state read at start | park, run the control channel, stop on SIGTERM | systemd, control channel |
| Control channel (`control/mod.rs`, `tls.rs`) | backoff, stream, in-flight requests, `status.json` | connect, serve, renew, back off | controller, management API |
| Enrollment client (`enrollment/`) | none | Begin/CompleteEnrollment | controller |
| Management API (`sonic/mgmtapi.rs`) | none | route a request, run the handler on a blocking thread, `config save -y` | pages |
| Write path (`sonic/store.rs`) | a mutex per feature, the snapshots of a batch | `feature_lock`, `Batch`, `apply`, rollback | redis |
| Pages (`sonic/*.rs`) | rows of CONFIG_DB, host accounts or FRR configuration, shared by all | GET/PUT/POST/DELETE of each page | write path, FRR, host tools |
| Probe, statistics, telemetry | a cached probe, the last counters | collect | redis, `/proc` |

Every `ProxyRequest` becomes a task of its own, so the handlers run
concurrently; a feature's mutex, where the feature takes one, is all that
orders them. Redis, the files, FRR and systemd survive the agent, its memory
does not. What makes the code hard to test follows from that: requests that
interleave between reading and writing; a write that fails, or succeeds
without an answer, in the middle of several; a read that fails and passes for
an empty table; the agent killed or the switch rebooted between two rows or two
files; the daemon and a CLI command at work on the same files; rows that other
pages refer to, removed under another mutex. `PROJECT.json` lists these hazards
with the line where each bites and the property that watches it.

What makes each part correct:

* write path: a batch happens as a whole or not at all, and never wedges its
  feature;
* pages: references between rows hold, at every instant or whenever the mutex
  is free; limits of the platform are kept; what a request was answered 200 for
  is what the next GET shows, on whatever rows were there before;
* probe: a cached answer does not outlive the toggle that made it wrong;
* files: a reader sees one whole document;
* enrollment: key, certificate and state on disk belong together; the last
  command of the operator is the one that counts; an enrolled switch connects.

## Modules

| Module | Models | Uses |
|---|---|---|
| `Store` | rows, mutexes, batches, rollback, save, kill, reboot (`store.rs`, end of `mgmtapi.rs`) | |
| `AtomicConfig` | what `store::apply` promises, abstractly | |
| `Batch` | the write path under arbitrary plans; refines `AtomicConfig` | `Store` |
| `Service` | what the requests of all pages have in common | `Store` |
| `L3`, `Switching` | `l3.rs`; the write half of `switching.rs` | `Service` |
| `Vxlan`, `VlanServices`, `Mclag` | `vxlan.rs`; `dhcprelay.rs`, `fdb.rs`, `igmp.rs`; `mclag.rs` | `Switching`, `Service` |
| `Lldp` | `lldp.rs` and the cache of `probe.rs` | `Service` |
| `Overlay` | composes the four above with the VLAN handlers | |
| `Acl`, `Mirror`, `Aaa`, `System` | `acl.rs`, `mirror.rs`, `aaa.rs`, `system.rs` | `Service` |
| `Security` | composes them | |
| `PortPolicies`, `Stp` | `qos.rs`, `stormcontrol.rs`, `sflow.rs`; `stp.rs` | `Switching` |
| `PortPages` | composes them | |
| `Bgp`, `Ospf`, `StaticRoutes`, `Vrrp` | the files of the same names | `L3` |
| `Routing` | composes them with the VRF and interface handlers | |
| `Frr` | `vtysh_config`, shared by the three below | `Service` |
| `Policy`, `Isis`, `Bfd` | `policy.rs`, `isis.rs`, `bfd.rs` | `Frr` |
| `FrrPages` | composes them | |
| `AtomicFile` | `atomic_write` and `write_private` on inodes, with its theorems | |
| `Agent` | enrollment files, daemon, renewal, `enroll`, `unenroll` | |
| `StoreProofs` | lemmas about rows, plans and the actions of the write path | `Store` |
| `BatchProofs` | theorems, the refinement among them | `Batch`, `StoreProofs` |
| `L3Proofs`, `SecurityProofs`, `FrrProofs` | theorems | `L3`, `Security`, `FrrPages`; `StoreProofs` |
| `AgentProofs` | theorems | `Agent` |
| `MC*` | model values and initial configurations for TLC, where a `.cfg` alone cannot say them | the module of the name |

**Store, Batch.** A row maps every field to a value or `Absent`; the row with
no field does not exist, as in redis. A write command is a partial update of
one row, so HSET, HDEL and DEL are three shapes of one thing. A handler goes
through `queued` (waiting for the mutex), `batch` or `plain` (issuing
commands), `undoDel`/`undoSet` (the two commands of each undo), `save`, `done`.
Reading, validating and computing the plan happen in the step that takes the
mutex: the rows a feature guards cannot change before its first write.
`ExecuteFault` covers a refused command, a failed snapshot read, and a command
that was applied with its reply lost. `pre` and `torn` are ghosts: the database
at admission, and whether a rollback command failed.

**Service.** A request is received, then refused or turned into a plan
(`Accept`, `Decline`), runs on `Store`, and is forgotten when its thread or the
process ends. `req` is the body being served, against which the read-back
properties compare what GET would show when the last write has been answered
and the mutex is still held. `rest` lists readings a handler still has to make.
`Blinded(T)` is the database as `store::keys` and `store::row` show it when the
scans of tables T fail: empty. `Malformed` stands for every refusal that
depends on the body or the image only.

**The page modules** define, for each handler of the source, an operator of the
same name that is its guard, its early returns and its plan; for each GET the
document it computes from the rows, with the conversions that matter (two
spellings of a key, seconds and milliseconds, parallel comma lists, default
values); and a `...Request` operator for the routes. Groups of optional fields
that the code treats alike are modelled by one or two of them.

* `L3`: ports always exist; port channels and VLANs behave as ports do here.
* `Switching`: these handlers take no mutex. Each later reading computes the
  next commands from the database as it then is. A scan and the HGETALLs that
  follow it are one reading. A membership row that cannot be read looks
  untagged.
* `Lldp`: a probe is gathered in two steps, under the cache's mutex; other
  pages ask for it at any time; the entry expires at any time; somebody on the
  switch may toggle the feature. `put_snmp` drops the cache by the same call.
* `Stp`: `max_stp_inst` is a reading that degrades, to 255; so are the scans that
  find the interfaces to seed and the rows that count as instances.
* `Vrrp`: the scan for an address of the interface and the one for the switch's
  own addresses fail each by itself.
* `System`: `/etc/passwd` and `/etc/group` are rows that no config save stores;
  account tools are commands; `save` and `restore` act on the file.
* `Bgp`: both back ends, `frrcfgd` and the flat legacy rows.
* `Frr`: FRR's running configuration takes the place of CONFIG_DB. A key is a
  configuration block, a field a statement in it, a command one line of the
  vtysh batch; the first line FRR refuses ends the batch, and what was applied
  stays. `write memory` stores the whole of it.
* `FrrPages!Attach` lets somebody else apply and detach a route map.

The composing modules have a variable `page`: each behaviour exercises one page,
or one group of pages that share rows, so that the state spaces add up instead
of multiplying. Pages with a mutex get overlapping requests. Where rows are
shared with handlers that hold another mutex or none ("vlans", "vrfs",
"rebind"), requests follow one another; what overlapping ones do to shared rows
is what `MCSwitchingRace` shows.

**AtomicFile.** Names point to inodes: a create truncates the inode the
temporary name already has, a writer keeps writing to the inode it opened.
`durable` is what the directory would say after a power loss, which also takes
the unsynced blocks.

**Agent.** The five files, the daemon's phases from start through dialling,
connected and renewing, and the steps of each command. A file is replaced in
one step, which is what `AtomicFile` shows for a single writer. The controller
and systemd are external: the controller adopts, renews and revokes; systemd
restarts a crashed daemon, and `try-restart` acts only on a running one and
waits while the daemon is among the files of a renewal, because that stretch of
code has no await for the signal to be seen at. Two ghosts record what the code
does not protect against: `crossed`, a renewal that saves while a command
changes the files, and `raced`, two processes that generate the device key at
the same time.

## Runs

| Run | Shows |
|---|---|
| `MCBatch` | rollback restores every guarded row; `Batch` implements `AtomicConfig`; a mutex taken is given back; the inductive invariant of the proof |
| `MCFile` | readers see a whole file, through deaths of the writer and power losses |
| `MCAgent` | enrolled means certificates are there and belong to the key; `unenroll` and `enroll` stick; an enrolled switch is connected again and again |
| `MCL3` | bindings valid, addresses parented, PUT converges, rebinds only bare |
| `MCSwitching` | no orphan rows at any instant, acknowledged requests have converged |
| `MCOverlay` | one VTEP, maps ride on it, one MCLAG domain, rows that name a VLAN are made while it is there, a VLAN row is never half one, LLDP as the probe says, read-back of all pages |
| `MCSecurity` | rules have a table of their kind and the session they name, the image's tables untouched, the last admin stays, read-back of all pages |
| `MCPortPages` | bound maps exist, two collectors at most, timer relation, instance limit, read-back of all pages (of spanning tree: mode, timers and region of the global document, VLAN and port overrides, guards, recovery, disable) |
| `MCRouting` | nothing under an instance that is gone, rows of a VRF made while it is there, one row per route, read-back of all pages |
| `MCFrr` | a list in one family, no list removed under a map, one NET, one peer per identity, read-back of all pages |

Two runs end in a counterexample, each a place where the code does not do what
the repository says of it:

| Run | What happens |
|---|---|
| `MCSwitchingRace` | a concurrent update leaves rows hanging off a deleted VLAN |
| `MCRestore` | the `config save` that ends another request falls between the two steps of a restore: the restored file is lost and the restore answered 200 |

Conditions that properties carry, because the code does not do more:

* Properties that depend on rows read with `store::keys` or `store::row` are
  said of behaviours in which none of those reads failed (`blindReads = 0`):
  these helpers hide the failure. With one, `delete_vrf` deletes a VRF an
  interface is bound to, `delete_session` a session a rule names, and an
  unreadable `/etc/group` suspends the last-admin rule. The limit of
  spanning-tree instances is then taken to be 255 and enabling seeds fewer
  interfaces; `put_general` and `put_snmp` leave servers or communities that were
  to go. `StpReadBack` and `SystemReadBack` carry the condition only for those
  parts: what was asked for is there in any case.
* `L3!AddressesHaveParent`, `RulesHaveTheirTable` and a few others are said of the
  writes before a first failure, and `RebindOnlyWhenBare` of all steps but those
  of a rollback: an undo deletes the parent row and writes it back while
  children are there.
* Requests that delete a row and write it again outside a batch (`put_vtep`,
  `put_session`, `put_dscp_map`) leave it gone if the second command fails:
  `MapsRideVtep`, `SessionsBackRules` and `BoundMapsExist` except that.
* `AaaReadBack` excepts a server whose row became empty when its key was
  cleared (redis then drops the row); `OspfReadBack` a passive marker set before
  the interface changed its VRF; `UserReadBack` a failed `gpasswd -d`, which is
  ignored; `InstancesWithinLimit` the time after a disable that stopped half
  way; `IsisReadBack` an interface that also runs IS-IS for IPv6;
  `LldpReadBack` the time until the cache expires after a change it was not told
  of.
* The properties of `Agent` except `crossed` and `raced` behaviours: there, a
  renewal in flight does undo an `unenroll` or put an older state over a forced
  enrollment, and a certificate can belong to a key that was overwritten.
* `EnrolledConnects` is said of behaviours in which no `enroll` was interrupted:
  one that dies before its `try-restart` leaves the daemon parked. A daemon
  whose certificate files are gone retries for ever, where the comment on
  `ControlChannel::run` has it return and park.
* `MCFile` has one writer at a time. Two writers of one file share the
  temporary name, and one may then rename what the other is still writing.

Properties of several pages that say the same thing are stated per page, next to
the handlers, and checked as one conjunction where the pages are composed
(`OverlayReadBack`, `SecurityReadBack`, `PortPagesReadBack`, `RoutingReadBack`,
`FrrReadBack`, `RowsUnderInstance`, `PlatformLimits`, `OneOverlay`, `OneOfEach`).
The types of the shared state are checked, and proved, in `Batch`, whose plans
are arbitrary.

The models also contain, without a property against it: a `config save` or
`write memory` that captures half of another page's work, a loopback created
with neither VRF nor address, which has no row, the VLAN memberships a deleted
port channel leaves behind, the rows of other pages a deleted VLAN or VRF leaves
behind, and an account left without role or password when a later tool of
`create_user` fails. Outside the models, and known: `update_vlan` without
addresses deletes the `VLAN_INTERFACE` row that holds a VRF binding `l3` wrote;
a GET names an ACL rule by its PRIORITY field and DELETE by its key, which differ
for rules of other tools; two statistics collections may store their samples in
the opposite order; the scan for `Loopback1` is also satisfied by `Loopback10`;
an MST region given in PVST mode is accepted and not written;
putting a prefix list removes the old one in one family only (policy.rs:414), and
changing a NET withdraws one (isis.rs:372): no initial configuration has a name
in both families or two NETs, which only another tool could have made;
the backoff starts again after every successful connect; `cert_renewal_alarm` is
only refreshed while connected.

### Bounds

Every counter that could grow has a bound named `Max...`.

* `MCBatch`: two handlers, two features, three rows of two fields, two faults,
  one kill or reboot. One plan touches a row, another, and the first again, so
  a snapshot must not be taken twice and undo order matters; another changes
  single fields of a row; two faults let a rollback fail after a write did.
* `MCL3`: a port, a loopback, two addresses, two VRFs, two handlers with one
  request each, two faults, one degraded read, a kill or reboot: enough for a
  rebind that keeps one address and drops another, for its rollback, and for a
  rollback that fails.
* `MCSwitching`: one handler, two requests, a fault, a degraded read, a kill or
  reboot: what a failed or killed request leaves is met by the next.
* `MCOverlay`, `MCSecurity`, `MCPortPages`, `MCRouting`, `MCFrr`: two handlers
  and two requests, a fault, a kill or reboot, a degraded read (`MCFrr`: none,
  its pages ask FRR, whose failure is an error). Two requests are what a
  property about two needs: two at once, or one on what the other left behind.
  To make a third case reachable the switch starts in one of two or more
  configurations, one bare and one with rows an earlier or another tool's
  configuration left: other spellings, other types, defaults, an instance of
  another tag. Inputs are chosen at the edges (the interval below and above the
  change of unit, timers that satisfy the relation only with one of the
  defaults, a collector too many, a range the wrong way round). One fault fails
  a write or a step of a rollback, never both, so these runs say nothing of a
  rollback that fails as well. `GlobalTimersSane` needs that and says so: after a
  failed write, a failed DEL of the rollback is ignored and the HSET that follows
  puts the timers the row had beside the new ones, which need not go together
  (with `max_age` 6 configured, `hello_time` 9 and `max_age` 20 requested, the
  row ends with 9 and 6).
* `MCFile`: documents of two blocks; four inodes are the live file, the one the
  directory on disk still names, and room for the temporary file.
* `MCAgent`: one shell, three commands of all four kinds, two enrollments, one
  renewal, one kill of the daemon and one of a command, with and without a key
  at first boot.

CHECK_DEADLOCK is off where the operator or the controller may simply have no
more requests. Handlers are symmetric where no temporal property is checked
that names one. Every property is broken by a mutation of the model, defined in
its module next to what it mutates (`Mutant of ...`).

### Fairness

`Batch!LiveSpec`: weak fairness of each handler's own steps, since a blocking
thread is scheduled and redis answers or fails. Kills and reboots are allowed
and not fair. `Agent!LiveSpec`: weak fairness of the daemon's and a started
command's steps, as the scheduler and `Restart=always` give it; a connect
attempt ends (15 s timeout); and strong fairness of `connectOk`, that is, a
gateway that could accept does so in the end if it is dialled for ever.

## Proofs

Every theorem is for any value of the constants of its module: any number of
handlers, rows, interfaces, VRFs, keys, documents, requests, faults and stops.
The assumptions on constants are the named `ASSUME`s of the modules, which TLC
evaluates on every run; what a theorem assumes beyond them is in its statement.

| Theorem | States |
|---|---|
| `BatchProofs!TypeCorrect`, `Invariance`, `RollbackSafe` | `[]TypeOK`, `[]BatchInv`, `[]RollbackRestores` |
| `BatchProofs!BatchAtomic` | `AllOrNothing`: `Batch` implements `AtomicConfig` |
| `L3Proofs!BindingsSafe` | `[]BoundVrfExists`, if the agent starts on valid bindings |
| `L3Proofs!ParentsSafe` | `[]AddressesHaveParent`, if the agent starts with parented addresses |
| `L3Proofs!PutConverges`, `RebindsBare` | `[]Converged`, `RebindOnlyWhenBare`, whatever the agent starts on |
| `SecurityProofs!AnAdminRemains` | `[]AdminRemains`, if the switch starts with an admin |
| `SecurityProofs!ImageTablesSafe` | `UnmanagedUntouched`, whatever the switch starts on |
| `SecurityProofs!RulesKeepTheirTable` | `[]RulesHaveTheirTable`, if it holds of the initial configurations and the backups |
| `SecurityProofs!RulesKeepTheirSession` | `[]SessionsBackRules`, if it holds of the initial configurations and the backups |
| `FrrProofs!FrrInvariance` | `[]FrrInv`, if FRR starts on a sound configuration |
| `FrrProofs!ListsInOneFamily`, `DeletedListsUnused`, `OneOfEachHolds` | `[]OneFamily`, `[]DeletesUnusedLists`, `[]OneOfEach`, likewise |
| `AtomicFile!FileInvariance`, `AtomicWrite` | `[]FileInv`, `[]ReadersSeeWhole`, with one writer at a time |
| `AgentProofs!AgentTypes` | `[]TypeOK` |
| `AgentProofs!IdentitySafe`, `UnenrollFinal`, `EnrollmentFinal` | `[]IdentityCoherent`, `[]UnenrollSticks`, `[]EnrollmentSticks`, with one shell at a time |

**The write path.** `RollbackRestores` is not inductive: that the last undo
leaves everything as it was depends on every undo before it. `BatchInv` says why
it works at every step: a handler only has commands for rows whose mutex it
holds (`CommandsGuarded`); its snapshots are of such rows, hold what the row was
at admission and name no row twice (`SnapshotsTrue`, `SnapshotsDistinct`); a held
row without a snapshot is what it was (`UntouchedSame`); between the two commands
of an undo the row is gone (`HalfUndone`). There is one lemma per action; the
interference of another handler is excluded because two handlers cannot hold
one mutex.

**What a plan does.** A plan is a sequence of partial updates, and what it makes
of a database would be defined by recursion, about which the prover can show
nothing for plans of every length. `StoreProofs!After(d, s, n)`, and
`AtomicConfig`, define it in closed form instead: a field is what the last of
the first n commands that decides it says, and as it was if none does. That a
last one exists is the well-ordering of the naturals (`LastPosition`).
`AfterNext` and `AfterShift` then show that the closed form is what issuing the
commands one by one does, from either end of the plan.

**The refinement.** `AtomicConfig` sees the configuration as the rows of running
batches were before them (`Committed`). `BatchInv` does not say what a batch has
written so far; `CourseInv` adds it: a handler that is writing holds the mutex
of one feature, is n commands into one of its plans, and in a batch the rows
that mutex guards are `After` the first n commands. Then a write inside a batch
is invisible (`WriteSeen`), the commit shows the whole plan at once
(`CommitSeen`), an abort shows nothing unless a command of the rollback failed
(`AbortSeen`), and a write outside a batch is one step (`Single`).

**Interfaces and VRFs.** None of the four properties is inductive: a step in the
middle of a plan says nothing of the steps to come, and a rollback puts rows
back that refer to VRFs. `L3Inv` says of the plan a handler still has to execute
that every database on its way is good, that each command rebinds only bare
interfaces, and, for a PUT, that it ends at the VRF and addresses asked for
(`Course`, `Ends`); of a rollback, that the rows it will put back name VRFs that
are there (`PriorsBound`); and that whoever writes holds the mutex, which keeps
`delete_vrf` out until the undo is done. That a new plan has a good course is
the heart of the proof (`CourseBound`, `CourseParented`, `CourseRebinds`,
`CourseEnds`): all plans for interfaces delete addresses, then rewrite the
attribute row, then add addresses (`PlanShape`), and `stale` and `missing` are
just what the order needs. The conditions the properties carry (no degraded
reading, no failed write) are part of the invariant (`Sighted`, `Faultless`).
`StartsBound` and `StartsParented`, the hypotheses of two of the theorems, hold
of the configurations `MCL3` starts on. `Addresses` has to be finite, because a
plan has one command for each of a set of addresses. TLC checked `L3Inv` on the
instance of `MCL3`.

**Security and system pages.** `Security` composes five pages with some thirty
handlers, and four properties of it are proved. So that the four inductive
invariants need not each go through all of them, the proof first sorts the steps:
`StepKinds` shows that every step of `SecurityNext` is one of a few kinds, a
command that takes effect (`Issues`), one of a rollback (`Undoes`), a reload, a
request admitted with a plan of its page (`Admits`, `Plans`), a step that leaves
the database alone (`Quiet`, `ReadsOn`), or a crash, and that it keeps `Base`:
whoever writes holds one mutex, and its commands and snapshots stay within that
mutex's tables. What a handler computes enters only through `Plans`, one lemma
per request. From there each property needs an invariant that relates the
database to the commands still to come:

* `AdminInv`: some admin is harmed by no pending command of anybody. Requests for
  users exclude one another, and `delete_user` and a demotion were admitted
  because another admin was there; a reload and a reboot keep the accounts.
* `TameInv`: whoever holds the ACL mutex works on one table, which is managed or
  missing, and every command and every snapshot to be put back leaves it so.
* `LawInv`: what is left of an ACL plan writes rules of a table that is there on
  its family's field, or writes a table without rules or of the same type, or
  deletes the rules before the table. `RuleStep` shows that each command leaves
  such a plan and a lawful database.
* `BackedInv`: every session a rule names is there or about to be written back by
  whoever holds the mirror mutex; a session about to go is named by no rule; and
  no ACL plan comes to name one. The last part is what makes the missing common
  mutex harmless.

TLC checked the four on the instance of `MCSecurity`, and that the hypotheses
(`StartsAdministered`, `StartsLawful`, `StartsBacked`) hold there. A restore
installs any file it is given, hence the backups in two of them, and its
exception in `UnmanagedUntouched`.

**FRR pages.** Here a request is a list of lines of which any prefix may be all
that is applied, so a property of the running configuration has to hold after
every line. `FrrInv` says of the lines still to come that they remove the one
rival that may be there before they add to a block (`Supplants`: the list of the
other family, the peer of the same identity) and withdraw the old NET before they
state the new one (`Restates`); of the list a handler is about to delete that no
map matches on it (`Deleting`); and of the saved configuration, to which a reboot
returns, that it is sound as well. The list in `delete_prefix_list` stays unused because route maps
are written under the same mutex. `FlattenSeq`, with which these plans are joined,
is a recursive function: that it yields a sequence of the elements of its parts
is shown by the absence of a least counterexample (`StoreProofs!FlattenShape`).

**Files.** `FileInv`: the inode being written is neither the live one nor the one
a power loss would bring back, holds the blocks written so far, and the one about
to be renamed is whole and synced. One writer (`OneWriter`) is needed: the
temporary name is the same for every writer.

**Enrollment.** `MemoryInv` says what the daemon and a command remember by the
phase they are in; it implies the types for any number of shells. `FilesInv`
adds, in behaviours that no renewal crosses and no race for the key disturbs,
how far a command has come with the files: which were written or removed and
that a renewal works on the enrollment that is on disk. With two commands at a
time (`OneShell` false) they interleave over the same five files and nothing of
this holds.

Only model-checked: all liveness (`ENABLED` and fairness are out of the prover's
reach); the read-back properties of the pages other than `L3`, which say what a
whole plan makes of a document, and would need the closed form of every page's
plans that `L3Proofs` has for one; and the safety
properties of `Overlay`, `Switching`, `PortPages` and `Routing`, on which no
proof has been attempted.

## Not modelled

* The operational half of the GET documents (neighbours, sessions, counters,
  learned entries) and the collectors behind them: they read and change nothing.
* TLS verification, token parsing and the device ID encoding: pure functions
  and libraries.
* Statistics and telemetry: arithmetic on samples of `/proc` and counters.
* `status.json`, the renewal alarm, backoff times and pushes of the control
  channel; image installation, reboot and `put_mgmt_vrf`, which start a detached
  command.
* Values are abstract: no address, name or number is parsed unless a property
  is about its spelling; malformed input is one action that refuses.

## What could follow

Proofs for the other pages, by the kinds of steps of `SecurityProofs`: `Switching`
(`ChildrenHaveParent` and `NothingHangsOffNoVlan`, whose handlers re-read the
database without a mutex), `MapsRideVtep`, `BoundMapsExist` and
`RowsUnderInstance`. `L3` and `Switching` over one database, for the
`VLAN_INTERFACE` rows both write; the control channel's timers and status
document.
