------------------------------- MODULE Agent -------------------------------
(***************************************************************************)
(* The life of an enrollment: the files under /var/lib/quartz-sonic, the   *)
(* daemon that lives by them and renews the certificate                    *)
(* (src/src/control/daemon.rs, src/src/control/mod.rs), and the enroll and *)
(* unenroll commands that rewrite them next to the running daemon and then *)
(* restart it (src/src/cli/mod.rs, src/src/identity/mod.rs).  Each file is *)
(* replaced or removed in one step, which is what AtomicFile shows of a    *)
(* single writer.  The controller is external: it enrolls a device that is *)
(* not adopted, renews for one that is, and may revoke it at any time.     *)
(***************************************************************************)
EXTENDS Naturals

CONSTANTS
    DeviceKeys,      \* the key pairs a generator may come up with
    FirstKeys,       \* device.key when the model starts (None: first boot)
    None,            \* no such file; nothing in memory
    Daemon,          \* the process of quartz-sonic.service
    Shells,          \* the operator's shells, one command at a time each
    Commands,        \* the commands the operator uses
    MaxCommands,     \* bound on commands
    MaxEnrollments,  \* bound on completed enrollments
    MaxRenewals,     \* bound on renewals
    MaxDaemonKills,  \* bound on crashes of the daemon
    MaxShellKills    \* bound on interrupted commands

Processes == Shells \cup {Daemon}
Orgs == 1..MaxEnrollments     \* one number for each enrollment

\* What a certificate, and a state.json, say: which device, which enrollment.
Enrollment == [key : DeviceKeys, org : Orgs]

ASSUME AgentConstants ==
    /\ FirstKeys \subseteq DeviceKeys \cup {None}
    /\ None \notin DeviceKeys \cup Orgs \cup Enrollment
    /\ Daemon \notin Shells
    /\ Commands \subseteq {"enroll", "force", "unenroll", "wipe"}
    /\ {MaxCommands, MaxEnrollments, MaxRenewals, MaxDaemonKills, MaxShellKills} \subseteq Nat

VARIABLES
    key, cert, chain, pinned, state,  \* the files
    pc,        \* where each process is
    own,       \* the key pair each process holds in memory
    mem,       \* the daemon's copy of the state
    issued,    \* the certificate each process is about to save
    session,   \* the certificate the control channel was opened with
    cmd,       \* what each shell runs
    made,      \* key pairs generated so far
    adopted,   \* the controller: the enrollment each device is adopted under
    cleared,   \* ghost: an unenroll succeeded and no command came after it
    kept,      \* ghost: the enrollment a command completed, none came after it
    crossed,   \* ghost: a renewal began from files a command changed, or before it was done
    raced,     \* ghost: a generated key replaced one made since it was looked for
    commands, enrollments, renewals, daemonKills, shellKills   \* so far

files == <<key, cert, chain, pinned, state>>
memory == <<own, mem, issued, session, made>>
counts == <<commands, enrollments, renewals, daemonKills, shellKills>>
ghosts == <<cleared, kept, crossed, raced>>
vars == <<files, pc, memory, cmd, adopted, ghosts, counts>>

DaemonPhases == {"down", "exists", "generate", "load", "parked", "dial", "backoff",
                 "connected", "renewing", "saveCert", "saveChain", "saveState"}
ShellPhases == {"prompt", "exists", "generate", "load", "rpc", "saveCert", "saveChain",
                "savePinned", "saveState", "rmState", "rmCert", "rmChain", "rmPinned",
                "rmKey", "restart"}

Init ==
    /\ key \in FirstKeys
    /\ cert = None /\ chain = None /\ pinned = None /\ state = None
    /\ pc = [p \in Processes |-> IF p = Daemon THEN "down" ELSE "prompt"]
    /\ own = [p \in Processes |-> None]
    /\ mem = None
    /\ issued = [p \in Processes |-> None]
    /\ session = None
    /\ cmd = [c \in Shells |-> "none"]
    /\ made = {key} \ {None}
    /\ adopted = [k \in DeviceKeys |-> None]
    /\ cleared = FALSE /\ kept = None /\ crossed = FALSE /\ raced = FALSE
    /\ commands = 0 /\ enrollments = 0 /\ renewals = 0
    /\ daemonKills = 0 /\ shellKills = 0

Goto(p, phase) == pc' = [pc EXCEPT ![p] = phase]

Saving(p) == pc[p] \in {"saveCert", "saveChain", "savePinned", "saveState"}
Renewing == pc[Daemon] = "renewing" \/ Saving(Daemon)
Changing(c) == pc[c] \notin {"prompt", "exists", "generate", "load"}
----------------------------------------------------------------------------
(***************************************************************************)
(* IdentityStore::load_or_generate, called by the daemon and by enroll:    *)
(* the key is looked for, and made and written a moment later.             *)
(***************************************************************************)
\* Mutant of exists: a new key is made on every start.
AlwaysGenerate(p) ==
    /\ pc[p] = "exists"
    /\ own' = [own EXCEPT ![p] = key]
    /\ Goto(p, "generate")
    /\ UNCHANGED <<files, mem, issued, session, made, cmd, adopted, ghosts, counts>>

exists(p) ==
    /\ pc[p] = "exists"
    /\ own' = [own EXCEPT ![p] = key]
    /\ Goto(p, IF key = None THEN "generate" ELSE "load")
    /\ UNCHANGED <<files, mem, issued, session, made, cmd, adopted, ghosts, counts>>

generate(p) ==
    /\ pc[p] = "generate"
    /\ \E k \in DeviceKeys \ made :
          /\ key' = k
          /\ own' = [own EXCEPT ![p] = k]
          /\ made' = made \cup {k}
    /\ raced' = (raced \/ key # own[p])
    /\ Goto(p, "load")
    /\ UNCHANGED <<cert, chain, pinned, state, mem, issued, session, cmd, adopted,
                   cleared, kept, crossed, counts>>

(***************************************************************************)
(* IdentityStore::save_certificates and EnrollmentState::save, one file    *)
(* after the other.  A renewal keeps the pinned CA and the rest of the     *)
(* state the daemon loaded when it started.                                *)
(***************************************************************************)
saveCert(p) ==
    /\ pc[p] = "saveCert"
    /\ cert' = issued[p]
    /\ Goto(p, "saveChain")
    /\ UNCHANGED <<key, chain, pinned, state, memory, cmd, adopted, ghosts, counts>>

saveChain(p) ==
    /\ pc[p] = "saveChain"
    /\ chain' = issued[p].org
    /\ Goto(p, IF p = Daemon THEN "saveState" ELSE "savePinned")
    /\ UNCHANGED <<key, cert, pinned, state, memory, cmd, adopted, ghosts, counts>>

\* Mutant of savePinned: the device's key is saved as the pinned CA.
SavePinnedSwapped(c) ==
    /\ pc[c] = "savePinned"
    /\ pinned' = issued[c].key
    /\ Goto(c, "saveState")
    /\ UNCHANGED <<key, cert, chain, state, memory, cmd, adopted, ghosts, counts>>

savePinned(c) ==
    /\ pc[c] = "savePinned"
    /\ pinned' = issued[c].org
    /\ Goto(c, "saveState")
    /\ UNCHANGED <<key, cert, chain, state, memory, cmd, adopted, ghosts, counts>>

\* Mutant of saveState: a state that is there already is not replaced.
SaveStateOnce(p) ==
    /\ pc[p] = "saveState"
    /\ state' = IF state # None THEN state ELSE issued[p]
    /\ Goto(p, IF p = Daemon THEN "dial" ELSE "restart")
    /\ session' = IF p = Daemon THEN None ELSE session
    /\ UNCHANGED <<key, cert, chain, pinned, own, mem, issued, made, cmd, adopted,
                   ghosts, counts>>

saveState(p) ==
    /\ pc[p] = "saveState"
    /\ state' = IF p = Daemon THEN mem ELSE issued[p]
    /\ Goto(p, IF p = Daemon THEN "dial" ELSE "restart")
    /\ session' = IF p = Daemon THEN None ELSE session
    /\ UNCHANGED <<key, cert, chain, pinned, own, mem, issued, made, cmd, adopted,
                   ghosts, counts>>

----------------------------------------------------------------------------
\* systemd starts the unit: enabled at boot, Restart=always after a crash.
Start ==
    /\ pc[Daemon] = "down"
    /\ Goto(Daemon, "exists")
    /\ UNCHANGED <<files, memory, cmd, adopted, ghosts, counts>>

\* run_async reads state.json once: it parks, or dials with what it read.
load ==
    /\ pc[Daemon] = "load"
    /\ mem' = state
    /\ Goto(Daemon, IF state = None THEN "parked" ELSE "dial")
    /\ UNCHANGED <<files, own, issued, session, made, cmd, adopted, ghosts, counts>>

(***************************************************************************)
(* connect reads certificate, key and CA chain from disk.  The gateway     *)
(* takes a certificate of the key it is shown with, unless it is revoked.  *)
(***************************************************************************)
Accepted == cert # None /\ cert.key = key /\ adopted[cert.key] = cert.org
connectOk ==
    /\ pc[Daemon] = "dial"
    /\ Accepted /\ (chain # None \/ pinned # None)
    /\ session' = cert
    /\ Goto(Daemon, "connected")
    /\ UNCHANGED <<files, own, mem, issued, made, cmd, adopted, ghosts, counts>>

\* No certificate, no answer, or a refusal: connect returns within 15 s.
connectErr ==
    /\ pc[Daemon] = "dial"
    /\ Goto(Daemon, "backoff")
    /\ UNCHANGED <<files, memory, cmd, adopted, ghosts, counts>>

\* The stream is lost, the renewal is refused, or saving it fails.
lost ==
    /\ pc[Daemon] \in {"connected", "renewing", "saveCert", "saveChain", "saveState"}
    /\ session' = None
    /\ Goto(Daemon, "backoff")
    /\ UNCHANGED <<files, own, mem, issued, made, cmd, adopted, ghosts, counts>>

backoff ==
    /\ pc[Daemon] = "backoff"
    /\ Goto(Daemon, "dial")
    /\ UNCHANGED <<files, memory, cmd, adopted, ghosts, counts>>

\* The renewal point is reached: a CSR with the key held in memory.
renewDue ==
    /\ pc[Daemon] = "connected"
    /\ renewals < MaxRenewals
    /\ renewals' = renewals + 1
    /\ Goto(Daemon, "renewing")
    /\ crossed' = (crossed \/ <<mem, session>> # <<state, cert>> \/ \E c \in Shells : Changing(c))
    /\ UNCHANGED <<files, memory, cmd, adopted, cleared, kept, raced, commands,
                   enrollments, daemonKills, shellKills>>

\* The RPC is answered; from here to the last file nothing interrupts it.
renewed ==
    /\ pc[Daemon] = "renewing"
    /\ adopted[session.key] = session.org
    /\ own[Daemon] = session.key
    /\ issued' = [issued EXCEPT ![Daemon] = session]
    /\ Goto(Daemon, "saveCert")
    /\ UNCHANGED <<files, own, mem, session, made, cmd, adopted, ghosts, counts>>

----------------------------------------------------------------------------
\* The operator enters a command.
Type(c) ==
    /\ pc[c] = "prompt"
    /\ commands < MaxCommands
    /\ commands' = commands + 1
    /\ \E x \in Commands :
          /\ cmd' = [cmd EXCEPT ![c] = x]
          /\ Goto(c, IF x \in {"enroll", "force"} THEN "exists" ELSE "load")
    /\ cleared' = FALSE /\ kept' = None /\ UNCHANGED <<crossed, raced>>
    /\ UNCHANGED <<files, memory, adopted, enrollments, renewals, daemonKills, shellKills>>

Exit(c) == Goto(c, "prompt") /\ cmd' = [cmd EXCEPT ![c] = "none"]

\* enroll_inner refuses an enrolled switch, unenroll_inner an unenrolled one.
checkState(c) ==
    /\ pc[c] = "load"
    /\ IF cmd[c] \in {"force", "wipe"} \/ ((cmd[c] = "unenroll") = (state # None))
       THEN /\ Goto(c, IF cmd[c] \in {"enroll", "force"} THEN "rpc" ELSE "rmState")
            /\ crossed' = (crossed \/ Renewing)
            /\ UNCHANGED cmd
       ELSE Exit(c) /\ UNCHANGED crossed
    /\ UNCHANGED <<files, memory, adopted, cleared, kept, raced, counts>>

\* BeginEnrollment and CompleteEnrollment: adopted, whether or not we hear of it.
enroll(c) ==
    /\ pc[c] = "rpc"
    /\ adopted[own[c]] = None
    /\ enrollments < MaxEnrollments
    /\ enrollments' = enrollments + 1
    /\ adopted' = [adopted EXCEPT ![own[c]] = enrollments + 1]
    /\ \/ /\ issued' = [issued EXCEPT ![c] = [key |-> own[c], org |-> enrollments + 1]]
          /\ Goto(c, "saveCert")
          /\ UNCHANGED cmd
       \/ Exit(c) /\ UNCHANGED issued
    /\ UNCHANGED <<files, own, mem, session, made, ghosts, commands, renewals,
                   daemonKills, shellKills>>

\* Refused, unreachable, or the chain does not match the token.
enrollFails(c) ==
    /\ pc[c] = "rpc"
    /\ Exit(c)
    /\ UNCHANGED <<files, memory, adopted, ghosts, counts>>

\* remove_enrollment_files, in its order.
rmState(c) ==
    /\ pc[c] = "rmState"
    /\ state' = None
    /\ Goto(c, "rmCert")
    /\ UNCHANGED <<key, cert, chain, pinned, memory, cmd, adopted, ghosts, counts>>

rmCert(c) ==
    /\ pc[c] = "rmCert"
    /\ cert' = None
    /\ Goto(c, "rmChain")
    /\ UNCHANGED <<key, chain, pinned, state, memory, cmd, adopted, ghosts, counts>>

rmChain(c) ==
    /\ pc[c] = "rmChain"
    /\ chain' = None
    /\ Goto(c, "rmPinned")
    /\ UNCHANGED <<key, cert, pinned, state, memory, cmd, adopted, ghosts, counts>>

rmPinned(c) ==
    /\ pc[c] = "rmPinned"
    /\ pinned' = None
    /\ Goto(c, IF cmd[c] = "wipe" THEN "rmKey" ELSE "restart")
    /\ UNCHANGED <<key, cert, chain, state, memory, cmd, adopted, ghosts, counts>>

rmKey(c) ==
    /\ pc[c] = "rmKey"
    /\ key' = None
    /\ Goto(c, "restart")
    /\ UNCHANGED <<cert, chain, pinned, state, memory, cmd, adopted, ghosts, counts>>

(***************************************************************************)
(* systemctl try-restart: a unit that is not running stays down; SIGTERM   *)
(* ends a running daemon at its next await, so not among the files of a    *)
(* renewal.  The new process is only started when systemctl returns.       *)
(***************************************************************************)
Forgotten ==
    /\ own' = [own EXCEPT ![Daemon] = None]
    /\ issued' = [issued EXCEPT ![Daemon] = None]
    /\ mem' = None /\ session' = None /\ UNCHANGED made

\* Mutant of tryRestart: the daemon is not told.
NoRestart(c) ==
    /\ pc[c] = "restart"
    /\ pc' = [pc EXCEPT ![c] = "prompt"]
    /\ cmd' = [cmd EXCEPT ![c] = "none"]
    /\ cleared' = (cmd[c] \in {"unenroll", "wipe"})
    /\ kept' = IF cmd[c] \in {"enroll", "force"} THEN issued[c].org ELSE None
    /\ UNCHANGED <<crossed, raced>>
    /\ UNCHANGED <<files, memory, adopted, counts>>

tryRestart(c) ==
    /\ pc[c] = "restart"
    /\ ~Saving(Daemon)
    /\ pc' = [pc EXCEPT ![c] = "prompt", ![Daemon] = IF @ = "down" THEN @ ELSE "exists"]
    /\ Forgotten
    /\ cmd' = [cmd EXCEPT ![c] = "none"]
    /\ cleared' = (cmd[c] \in {"unenroll", "wipe"})
    /\ kept' = IF cmd[c] \in {"enroll", "force"} THEN issued[c].org ELSE None
    /\ UNCHANGED <<crossed, raced>>
    /\ UNCHANGED <<files, adopted, counts>>

----------------------------------------------------------------------------
\* The daemon dies; so does everything it only had in memory.
KillDaemon ==
    /\ pc[Daemon] # "down"
    /\ daemonKills < MaxDaemonKills
    /\ daemonKills' = daemonKills + 1
    /\ Goto(Daemon, "down")
    /\ Forgotten
    /\ UNCHANGED <<files, cmd, adopted, ghosts, commands, enrollments, renewals, shellKills>>

\* A command is interrupted, or a file operation of it fails.
KillShell(c) ==
    /\ pc[c] # "prompt"
    /\ shellKills < MaxShellKills
    /\ shellKills' = shellKills + 1
    /\ Exit(c)
    /\ UNCHANGED <<files, memory, adopted, ghosts, commands, enrollments, renewals, daemonKills>>

\* The console revokes a device.
Revoke(k) ==
    /\ adopted[k] # None
    /\ adopted' = [adopted EXCEPT ![k] = None]
    /\ UNCHANGED <<files, pc, memory, cmd, ghosts, counts>>

Save(p) == saveCert(p) \/ saveChain(p) \/ saveState(p)
DaemonStep ==
    Start \/ exists(Daemon) \/ generate(Daemon) \/ load \/ backoff \/ renewed \/ Save(Daemon)
ShellStep(c) ==
    \/ exists(c) \/ generate(c) \/ checkState(c) \/ enroll(c) \/ enrollFails(c)
    \/ Save(c) \/ savePinned(c)
    \/ rmState(c) \/ rmCert(c) \/ rmChain(c) \/ rmPinned(c) \/ rmKey(c) \/ tryRestart(c)

Next ==
    \/ DaemonStep \/ connectOk \/ connectErr \/ lost \/ renewDue \/ KillDaemon
    \/ \E c \in Shells : Type(c) \/ ShellStep(c) \/ KillShell(c)
    \/ \E k \in DeviceKeys : Revoke(k)

Spec == Init /\ [][Next]_vars

(***************************************************************************)
(* The scheduler runs what can run, a command once started goes on to its  *)
(* end, and the gateway answers some of the calls that are made for ever.  *)
(***************************************************************************)
LiveSpec ==
    /\ Spec
    /\ WF_vars(DaemonStep)
    /\ WF_vars(connectOk \/ connectErr) /\ SF_vars(connectOk)
    /\ \A c \in Shells : WF_vars(ShellStep(c))
----------------------------------------------------------------------------
\* The module's type invariant.
TypeOK ==
    /\ key \in DeviceKeys \cup {None}
    /\ cert \in Enrollment \cup {None}
    /\ state \in Enrollment \cup {None}
    /\ chain \in Orgs \cup {None} /\ pinned \in Orgs \cup {None}
    /\ pc \in [Processes -> DaemonPhases \cup ShellPhases]
    /\ pc[Daemon] \in DaemonPhases
    /\ \A c \in Shells : pc[c] \in ShellPhases
    /\ own \in [Processes -> DeviceKeys \cup {None}]
    /\ mem \in Enrollment \cup {None}
    /\ issued \in [Processes -> Enrollment \cup {None}]
    /\ session \in Enrollment \cup {None}
    /\ cmd \in [Shells -> Commands \cup {"none"}]
    /\ made \subseteq DeviceKeys
    /\ adopted \in [DeviceKeys -> Orgs \cup {None}]
    /\ {cleared, crossed, raced} \subseteq BOOLEAN /\ kept \in Orgs \cup {None}

(***************************************************************************)
(* Nothing locks the files between the daemon and a command.  Two overlaps *)
(* break what follows, and both are reachable: a renewal that crosses a    *)
(* command, or comes after one that was cut short before its restart,      *)
(* writes the old enrollment back; and two processes that both find no key *)
(* make one each.  The properties below hold of every behaviour that has   *)
(* had neither.                                                            *)
(***************************************************************************)
Undisturbed == ~crossed /\ ~raced

(***************************************************************************)
(* The enrolled identity is whole and one: a state that says "enrolled"    *)
(* has its certificates, and certificate, device ID and key on disk belong *)
(* together, so that connect can use them.  enroll_inner saves the         *)
(* certificates before the state, unenroll_inner removes the state before  *)
(* them: this holds wherever a command is interrupted, through forced      *)
(* enrollments and wiped keys.                                             *)
(***************************************************************************)
IdentityCoherent ==
    Undisturbed /\ state # None =>
        /\ cert # None /\ chain # None /\ pinned # None
        /\ cert.key = key /\ state.key = key

(***************************************************************************)
(* unenroll "deletes the certificates and enrollment state and restarts    *)
(* the daemon, which then idles unenrolled" (README.md): once it has       *)
(* succeeded, and until another command, no state comes back and no        *)
(* control channel is open.                                                *)
(***************************************************************************)
UnenrollSticks == Undisturbed /\ cleared => state = None /\ session = None

(***************************************************************************)
(* enroll restarts the daemon to "pick the new state up": once it has      *)
(* succeeded, and until another command, state and certificate on disk are *)
(* of that enrollment, through renewals and crashes, whatever enrollment   *)
(* it replaced.                                                            *)
(***************************************************************************)
EnrollmentSticks ==
    Undisturbed /\ kept # None =>
        state # None /\ state.org = kept /\ cert # None /\ cert.org = kept

\* Adopted by the controller under the enrollment the switch knows of.
Enrolled == state # None /\ adopted[state.key] = state.org

(***************************************************************************)
(* The reconnect loop of run, and the restart by enroll: a switch that is  *)
(* enrolled, adopted and left alone is connected again and again, also if  *)
(* its daemon crashes, parked before the state was there, or loses the     *)
(* stream.  (An enroll interrupted before its restart leaves the daemon    *)
(* parked.)                                                                *)
(***************************************************************************)
EnrolledConnects ==
    <>[](Enrolled /\ Undisturbed /\ shellKills = 0) => []<>(session # None)
=============================================================================
