---------------------------- MODULE AgentProofs ----------------------------
(***************************************************************************)
(* The enrolled identity stays whole, an unenroll and an enroll stick: for *)
(* any keys, any number of commands, enrollments, renewals, crashes and    *)
(* interrupted commands, one shell at a time, in behaviours in which no    *)
(* renewal crosses a command and no two processes generate a key at once.  *)
(***************************************************************************)
EXTENDS Agent, TLAPS

\* The operator runs one command at a time.
OneShell == \A c, d \in Shells : c = d

----------------------------------------------------------------------------
(* The inductive invariant.                                                *)

Online == {"connected", "renewing", "saveCert", "saveChain", "saveState"}
SavePhases == {"saveCert", "saveChain", "savePinned", "saveState"}
RemovePhases == {"rmState", "rmCert", "rmChain", "rmPinned", "rmKey"}
EnrollPhases == {"exists", "generate", "rpc"} \cup SavePhases

IsEnroll(c) == cmd[c] \in {"enroll", "force"}

\* The shell has the device's key in memory and goes on to use it.
HasKey(c) == pc[c] \in {"load", "rpc"} \cup SavePhases \cup {"restart"} /\ IsEnroll(c)

\* The shell has been issued a certificate.
HasCert(c) == pc[c] \in SavePhases \/ (pc[c] = "restart" /\ IsEnroll(c))

\* What the daemon remembers, by the phase it is in.
DaemonMemory ==
    /\ pc[Daemon] = "generate" => own[Daemon] = None
    /\ session # None <=> pc[Daemon] \in Online
    /\ pc[Daemon] \in Online \cup {"dial", "backoff"} => mem # None
    /\ Saving(Daemon) => issued[Daemon] = session

\* What a command remembers, by the phase it is in.
ShellMemory(c) ==
    /\ pc[c] = "generate" => own[c] = None
    /\ pc[c] # "prompt" => cmd[c] \in Commands
    /\ pc[c] \in EnrollPhases => IsEnroll(c)
    /\ pc[c] \in RemovePhases => cmd[c] \in {"unenroll", "wipe"}
    /\ HasKey(c) => own[c] # None
    /\ HasCert(c) => issued[c] # None /\ issued[c].key = own[c]

MemoryInv ==
    /\ TypeOK
    /\ enrollments \in 0..MaxEnrollments
    /\ DaemonMemory
    /\ \A c \in Shells : ShellMemory(c)

\* A renewal and a command that changes files exclude each other.
Apart == \A c \in Shells : Changing(c) => ~Renewing

\* A renewal works on the enrollment that is on disk.
RenewsWhatIsThere == Renewing => state = mem /\ cert = session

\* How far a command has come with the files.
FilesSoFar(c) ==
    /\ HasKey(c) => own[c] = key
    /\ pc[c] \in {"saveChain", "savePinned", "saveState"} => cert = issued[c]
    /\ pc[c] \in {"savePinned", "saveState"} => chain # None
    /\ pc[c] = "saveState" => pinned # None
    /\ pc[c] = "restart" /\ IsEnroll(c) => state = issued[c] /\ cert = issued[c]
    /\ pc[c] \in RemovePhases \ {"rmState"} => state = None
    /\ pc[c] = "restart" /\ ~IsEnroll(c) => state = None

\* After an unenroll nobody is at work, and the daemon does not get to dial.
Idle ==
    cleared => /\ \A c \in Shells : pc[c] = "prompt"
               /\ pc[Daemon] \in {"down", "exists", "generate", "load", "parked"}

\* After an enroll nobody else is at work.
Settled == kept # None => \A c \in Shells : pc[c] = "prompt"

AgentInv ==
    /\ MemoryInv
    /\ Undisturbed =>
          /\ Apart /\ RenewsWhatIsThere
          /\ \A c \in Shells : FilesSoFar(c)
          /\ Idle /\ Settled
    /\ IdentityCoherent /\ UnenrollSticks /\ EnrollmentSticks
----------------------------------------------------------------------------
(* Types, and what each process remembers.                                 *)

\* The initial states satisfy the invariant.
LEMMA InitInv == Init => AgentInv
  <1> SUFFICES ASSUME Init PROVE AgentInv
    OBVIOUS
  <1> USE AgentConstants DEF Init
  <1>2. pc[Daemon] = "down" /\ \A c \in Shells : pc[c] = "prompt"
    BY DEF Processes
  <1>1. TypeOK /\ enrollments \in 0..MaxEnrollments
    <2>1. pc \in [Processes -> DaemonPhases \cup ShellPhases]
      BY DEF DaemonPhases, ShellPhases
    <2>2. made \subseteq DeviceKeys /\ key \in DeviceKeys \cup {None}
      OBVIOUS
    <2>3. enrollments \in 0..MaxEnrollments
      OBVIOUS
    <2>4. own \in [Processes -> DeviceKeys \cup {None}]
          /\ issued \in [Processes -> Enrollment \cup {None}]
          /\ cmd \in [Shells -> Commands \cup {"none"}]
          /\ adopted \in [DeviceKeys -> Orgs \cup {None}]
      OBVIOUS
    <2>5. {cleared, crossed, raced} \subseteq BOOLEAN
      BY Zenon
    <2> QED
      BY <1>2, <2>1, <2>2, <2>3, <2>4, <2>5 DEF TypeOK, DaemonPhases, ShellPhases
  <1>3. DaemonMemory /\ \A c \in Shells : ShellMemory(c)
    BY <1>2 DEF DaemonMemory, Online, Saving, ShellMemory, HasKey, HasCert, EnrollPhases,
                SavePhases, RemovePhases
  <1>4. Apart /\ RenewsWhatIsThere /\ Idle /\ Settled /\ \A c \in Shells : FilesSoFar(c)
    BY <1>2 DEF Apart, Changing, RenewsWhatIsThere, Renewing, Saving, Idle, Settled,
                FilesSoFar, HasKey, SavePhases, RemovePhases
  <1> QED
    BY <1>1, <1>3, <1>4
    DEF AgentInv, MemoryInv, IdentityCoherent, UnenrollSticks, EnrollmentSticks

\* Every action keeps every variable in its type and the memories coherent.
LEMMA MemoryStep ==
  ASSUME MemoryInv, [Next]_vars
  PROVE  MemoryInv'
  <1> USE AgentConstants
      DEF MemoryInv, TypeOK, DaemonMemory, ShellMemory, HasKey, HasCert, IsEnroll,
          Processes, Enrollment, DaemonPhases, ShellPhases, Online, SavePhases,
          RemovePhases, EnrollPhases, Saving, Goto, files, memory, ghosts, counts
  <1>1. CASE Start
    BY <1>1 DEF Start
  <1>2. CASE exists(Daemon)
    BY <1>2 DEF exists
  <1>3. CASE generate(Daemon)
    BY <1>3 DEF generate
  <1>4. CASE load
    BY <1>4 DEF load
  <1>5. CASE backoff
    BY <1>5 DEF backoff
  <1>6. CASE renewed
    BY <1>6 DEF renewed
  <1>7. CASE saveCert(Daemon)
    BY <1>7 DEF saveCert
  <1>8. CASE saveChain(Daemon)
    BY <1>8 DEF saveChain
  <1>9. CASE saveState(Daemon)
    BY <1>9 DEF saveState
  <1>10. CASE connectOk
    BY <1>10 DEF connectOk, Accepted
  <1>11. CASE connectErr
    BY <1>11 DEF connectErr
  <1>12. CASE lost
    BY <1>12 DEF lost
  <1>13. CASE renewDue
    BY <1>13 DEF renewDue
  <1>14. CASE KillDaemon
    BY <1>14 DEF KillDaemon, Forgotten
  <1>15. ASSUME NEW c \in Shells, Type(c) PROVE MemoryInv'
    <2>1. PICK x \in Commands :
             /\ cmd' = [cmd EXCEPT ![c] = x]
             /\ pc' = [pc EXCEPT ![c] = IF x \in {"enroll", "force"} THEN "exists" ELSE "load"]
      BY <1>15 DEF Type
    <2>2. TypeOK'
      BY <1>15, <2>1 DEF Type
    <2> QED
      BY <1>15, <2>1, <2>2 DEF Type
  <1>16. ASSUME NEW c \in Shells, exists(c) PROVE MemoryInv'
    BY <1>16 DEF exists
  <1>17. ASSUME NEW c \in Shells, generate(c) PROVE MemoryInv'
    BY <1>17 DEF generate
  <1>18. ASSUME NEW c \in Shells, checkState(c) PROVE MemoryInv'
    <2>0. crossed' \in BOOLEAN
      BY <1>18 DEF checkState
    <2>1. CASE pc' = [pc EXCEPT ![c] = "rpc"] /\ UNCHANGED cmd /\ IsEnroll(c)
      BY <1>18, <2>0, <2>1 DEF checkState
    <2>2. CASE pc' = [pc EXCEPT ![c] = "rmState"] /\ UNCHANGED cmd /\ ~IsEnroll(c)
      <3>1. cmd[c] \in {"unenroll", "wipe"}
        BY <1>18, <2>2 DEF checkState
      <3> QED
        BY <1>18, <2>0, <2>2, <3>1 DEF checkState
    <2>3. CASE Exit(c)
      BY <1>18, <2>0, <2>3 DEF checkState, Exit
    <2> QED
      BY <1>18, <2>1, <2>2, <2>3 DEF checkState
  <1>19. ASSUME NEW c \in Shells, enroll(c) PROVE MemoryInv'
    <2> DEFINE new == [key |-> own[c], org |-> enrollments + 1]
    <2>1. own[c] \in DeviceKeys /\ IsEnroll(c) /\ enrollments + 1 \in Orgs
      BY <1>19 DEF enroll, Orgs
    <2>2. new \in Enrollment /\ new.key = own[c] /\ new # None
      BY <2>1
    <2>3. enrollments' \in 0..MaxEnrollments /\ adopted' \in [DeviceKeys -> Orgs \cup {None}]
      BY <1>19, <2>1 DEF enroll
    <2>4. CASE issued' = [issued EXCEPT ![c] = new] /\ pc' = [pc EXCEPT ![c] = "saveCert"]
               /\ UNCHANGED cmd
      <3> HIDE DEF new
      <3> QED
        BY <1>19, <2>1, <2>2, <2>3, <2>4 DEF enroll
    <2>5. CASE Exit(c) /\ UNCHANGED issued
      BY <1>19, <2>3, <2>5 DEF enroll, Exit
    <2> QED
      BY <1>19, <2>4, <2>5 DEF enroll
  <1>20. ASSUME NEW c \in Shells, enrollFails(c) PROVE MemoryInv'
    BY <1>20 DEF enrollFails, Exit
  <1>21. ASSUME NEW c \in Shells, saveCert(c) PROVE MemoryInv'
    BY <1>21 DEF saveCert
  <1>22. ASSUME NEW c \in Shells, saveChain(c) PROVE MemoryInv'
    BY <1>22 DEF saveChain
  <1>23. ASSUME NEW c \in Shells, savePinned(c) PROVE MemoryInv'
    BY <1>23 DEF savePinned
  <1>24. ASSUME NEW c \in Shells, saveState(c) PROVE MemoryInv'
    BY <1>24 DEF saveState
  <1>25. ASSUME NEW c \in Shells, rmState(c) PROVE MemoryInv'
    BY <1>25 DEF rmState
  <1>26. ASSUME NEW c \in Shells, rmCert(c) PROVE MemoryInv'
    BY <1>26 DEF rmCert
  <1>27. ASSUME NEW c \in Shells, rmChain(c) PROVE MemoryInv'
    BY <1>27 DEF rmChain
  <1>28. ASSUME NEW c \in Shells, rmPinned(c) PROVE MemoryInv'
    BY <1>28 DEF rmPinned
  <1>29. ASSUME NEW c \in Shells, rmKey(c) PROVE MemoryInv'
    BY <1>29 DEF rmKey
  <1>30. ASSUME NEW c \in Shells, tryRestart(c) PROVE MemoryInv'
    BY <1>30 DEF tryRestart, Forgotten
  <1>31. ASSUME NEW c \in Shells, KillShell(c) PROVE MemoryInv'
    BY <1>31 DEF KillShell, Exit
  <1>32. ASSUME NEW k \in DeviceKeys, Revoke(k) PROVE MemoryInv'
    BY <1>32 DEF Revoke
  <1>33. CASE UNCHANGED vars
    BY <1>33 DEF vars
  <1>34. CASE DaemonStep
    BY <1>1, <1>2, <1>3, <1>4, <1>5, <1>6, <1>7, <1>8, <1>9, <1>34 DEF DaemonStep, Save
  <1>35. ASSUME NEW c \in Shells, Save(c) \/ savePinned(c) PROVE MemoryInv'
    BY <1>21, <1>22, <1>23, <1>24, <1>35 DEF Save
  <1>36. ASSUME NEW c \in Shells, rmState(c) \/ rmCert(c) \/ rmChain(c) \/ rmPinned(c) \/ rmKey(c)
         PROVE  MemoryInv'
    BY <1>25, <1>26, <1>27, <1>28, <1>29, <1>36
  <1>37. ASSUME NEW c \in Shells, ShellStep(c) PROVE MemoryInv'
    BY <1>16, <1>17, <1>18, <1>19, <1>20, <1>30, <1>35, <1>36, <1>37 DEF ShellStep
  <1> QED
    BY <1>10, <1>11, <1>12, <1>13, <1>14, <1>15, <1>31, <1>32, <1>33, <1>34, <1>37 DEF Next

----------------------------------------------------------------------------
(* The files.                                                              *)

(***************************************************************************)
(* The part of the invariant that is about undisturbed behaviours.  Both   *)
(* disturbances are for good, so a step may assume there was none before.  *)
(***************************************************************************)
FilesInv ==
    /\ Apart /\ RenewsWhatIsThere
    /\ \A c \in Shells : FilesSoFar(c)
    /\ Idle /\ Settled
    /\ IdentityCoherent /\ UnenrollSticks /\ EnrollmentSticks

\* No action takes the enrollment apart.
LEMMA FilesStep ==
  ASSUME OneShell, MemoryInv, MemoryInv', Undisturbed, Undisturbed', FilesInv, [Next]_vars
  PROVE  FilesInv'
  <1> USE AgentConstants
      DEF FilesInv, Apart, RenewsWhatIsThere, FilesSoFar, Idle, Settled, IdentityCoherent,
          UnenrollSticks, EnrollmentSticks, Undisturbed, Changing, Renewing, OneShell,
          MemoryInv, TypeOK, DaemonMemory, ShellMemory, HasKey, HasCert, IsEnroll,
          Processes, Enrollment, DaemonPhases, ShellPhases, Online, SavePhases,
          RemovePhases, EnrollPhases, Saving, Goto, files, memory, ghosts, counts
  <1>1. CASE Start
    BY <1>1 DEF Start
  <1>2. CASE exists(Daemon)
    BY <1>2 DEF exists
  <1>3. CASE generate(Daemon)
    <2>1. key = None
      BY <1>3 DEF generate
    <2> QED
      BY <1>3, <2>1 DEF generate
  <1>4. CASE load
    BY <1>4 DEF load
  <1>5. CASE backoff
    BY <1>5 DEF backoff
  <1>6. CASE renewed
    BY <1>6 DEF renewed
  <1>7. CASE saveCert(Daemon)
    BY <1>7 DEF saveCert
  <1>8. CASE saveChain(Daemon)
    BY <1>8 DEF saveChain
  <1>9. CASE saveState(Daemon)
    BY <1>9 DEF saveState
  <1>10. CASE connectOk
    BY <1>10 DEF connectOk, Accepted
  <1>11. CASE connectErr
    BY <1>11 DEF connectErr
  <1>12. CASE lost
    BY <1>12 DEF lost
  <1>13. CASE renewDue
    <2>1. mem = state /\ session = cert /\ \A c \in Shells : ~Changing(c)
      BY <1>13 DEF renewDue
    <2> QED
      BY <1>13, <2>1 DEF renewDue
  <1>14. CASE KillDaemon
    BY <1>14 DEF KillDaemon, Forgotten
  <1>15. ASSUME NEW c \in Shells, Type(c) PROVE FilesInv'
    BY <1>15 DEF Type
  <1>16. ASSUME NEW c \in Shells, exists(c) PROVE FilesInv'
    BY <1>16 DEF exists
  <1>17. ASSUME NEW c \in Shells, generate(c) PROVE FilesInv'
    <2>1. key = None
      BY <1>17 DEF generate
    <2> QED
      BY <1>17, <2>1 DEF generate
  <1>18. ASSUME NEW c \in Shells, checkState(c) PROVE FilesInv'
    BY <1>18 DEF checkState, Exit
  <1>19. ASSUME NEW c \in Shells, enroll(c) PROVE FilesInv'
    BY <1>19 DEF enroll, Exit
  <1>20. ASSUME NEW c \in Shells, enrollFails(c) PROVE FilesInv'
    BY <1>20 DEF enrollFails, Exit
  <1>21. ASSUME NEW c \in Shells, saveCert(c) PROVE FilesInv'
    BY <1>21 DEF saveCert
  <1>22. ASSUME NEW c \in Shells, saveChain(c) PROVE FilesInv'
    BY <1>22 DEF saveChain
  <1>23. ASSUME NEW c \in Shells, savePinned(c) PROVE FilesInv'
    BY <1>23 DEF savePinned
  <1>24. ASSUME NEW c \in Shells, saveState(c) PROVE FilesInv'
    BY <1>24 DEF saveState
  <1>25. ASSUME NEW c \in Shells, rmState(c) PROVE FilesInv'
    BY <1>25 DEF rmState
  <1>26. ASSUME NEW c \in Shells, rmCert(c) PROVE FilesInv'
    BY <1>26 DEF rmCert
  <1>27. ASSUME NEW c \in Shells, rmChain(c) PROVE FilesInv'
    BY <1>27 DEF rmChain
  <1>28. ASSUME NEW c \in Shells, rmPinned(c) PROVE FilesInv'
    BY <1>28 DEF rmPinned
  <1>29. ASSUME NEW c \in Shells, rmKey(c) PROVE FilesInv'
    BY <1>29 DEF rmKey
  <1>30. ASSUME NEW c \in Shells, tryRestart(c) PROVE FilesInv'
    BY <1>30 DEF tryRestart, Forgotten
  <1>31. ASSUME NEW c \in Shells, KillShell(c) PROVE FilesInv'
    BY <1>31 DEF KillShell, Exit
  <1>32. ASSUME NEW k \in DeviceKeys, Revoke(k) PROVE FilesInv'
    BY <1>32 DEF Revoke
  <1>33. CASE UNCHANGED vars
    BY <1>33 DEF vars
  <1>34. CASE DaemonStep
    BY <1>1, <1>2, <1>3, <1>4, <1>5, <1>6, <1>7, <1>8, <1>9, <1>34 DEF DaemonStep, Save
  <1>35. ASSUME NEW c \in Shells, Save(c) \/ savePinned(c) PROVE FilesInv'
    BY <1>21, <1>22, <1>23, <1>24, <1>35 DEF Save
  <1>36. ASSUME NEW c \in Shells, rmState(c) \/ rmCert(c) \/ rmChain(c) \/ rmPinned(c) \/ rmKey(c)
         PROVE  FilesInv'
    BY <1>25, <1>26, <1>27, <1>28, <1>29, <1>36
  <1>37. ASSUME NEW c \in Shells, ShellStep(c) PROVE FilesInv'
    BY <1>16, <1>17, <1>18, <1>19, <1>20, <1>30, <1>35, <1>36, <1>37 DEF ShellStep
  <1> QED
    BY <1>10, <1>11, <1>12, <1>13, <1>14, <1>15, <1>31, <1>32, <1>33, <1>34, <1>37 DEF Next

\* Both ghosts stay: a behaviour that is undisturbed now always was.
LEMMA DisturbedForGood ==
  ASSUME MemoryInv, [Next]_vars, Undisturbed'
  PROVE  Undisturbed
  <1> USE DEF ghosts
  <1>1. ASSUME NEW p, generate(p) PROVE Undisturbed
    BY <1>1 DEF generate, Undisturbed
  <1>2. CASE renewDue
    BY <1>2 DEF renewDue, Undisturbed
  <1>3. ASSUME NEW c, checkState(c) PROVE Undisturbed
    BY <1>3 DEF checkState, Undisturbed
  <1>4. CASE UNCHANGED <<crossed, raced>>
    BY <1>4 DEF Undisturbed
  <1>5. ASSUME NEW p, exists(p) \/ generate(p) \/ Save(p) PROVE Undisturbed
    BY <1>1, <1>4, <1>5 DEF exists, Save, saveCert, saveChain, saveState
  <1>6. CASE DaemonStep
    BY <1>4, <1>5, <1>6 DEF DaemonStep, Start, load, backoff, renewed
  <1>7. ASSUME NEW c, ShellStep(c) PROVE Undisturbed
    BY <1>3, <1>4, <1>5, <1>7
    DEF ShellStep, enroll, enrollFails, savePinned, rmState, rmCert, rmChain, rmPinned,
        rmKey, tryRestart
  <1> QED
    BY <1>2, <1>4, <1>6, <1>7
    DEF Next, connectOk, connectErr, lost, KillDaemon, Type, KillShell, Revoke, vars

\* The invariant is inductive.
LEMMA AgentStep ==
  ASSUME OneShell, AgentInv, [Next]_vars
  PROVE  AgentInv'
  <1>1. MemoryInv'
    BY MemoryStep DEF AgentInv
  <1>2. CASE Undisturbed'
    <2>1. Undisturbed
      BY <1>2, DisturbedForGood DEF AgentInv
    <2>2. FilesInv'
      BY <1>1, <1>2, <2>1, FilesStep DEF AgentInv, FilesInv
    <2> QED
      BY <1>1, <2>2 DEF AgentInv, FilesInv
  <1>3. CASE ~Undisturbed'
    BY <1>1, <1>3 DEF AgentInv, IdentityCoherent, UnenrollSticks, EnrollmentSticks
  <1> QED
    BY <1>2, <1>3

(***************************************************************************)
(* Type correctness of the enrollment life cycle, for any number of shells *)
(* and any bounds: a phase that uses a key, a certificate or a session has *)
(* one.                                                                    *)
(***************************************************************************)
THEOREM AgentTypes == Spec => []TypeOK
  <1>1. Init => MemoryInv
    BY InitInv DEF AgentInv
  <1>2. MemoryInv /\ [Next]_vars => MemoryInv'
    BY MemoryStep
  <1>3. MemoryInv => TypeOK
    BY DEF MemoryInv
  <1> QED
    BY <1>1, <1>2, <1>3, PTL DEF Spec

(***************************************************************************)
(* With one command at a time: a state.json that says "enrolled" has its   *)
(* certificates, and they are of the device key on disk, whatever was      *)
(* interrupted, crashed or renewed (enroll_inner, remove_enrollment_files, *)
(* save_certificates).                                                     *)
(***************************************************************************)
THEOREM IdentitySafe ==
  ASSUME OneShell
  PROVE  Spec => []IdentityCoherent
  <1>1. AgentInv /\ [Next]_vars => AgentInv'
    BY AgentStep
  <1>2. AgentInv => IdentityCoherent
    BY DEF AgentInv
  <1> QED
    BY <1>1, <1>2, InitInv, PTL DEF Spec

(***************************************************************************)
(* With one command at a time: after an unenroll that succeeded no state   *)
(* and no session come back until the next command (unenroll_inner,        *)
(* daemon::run_async).                                                     *)
(***************************************************************************)
THEOREM UnenrollFinal ==
  ASSUME OneShell
  PROVE  Spec => []UnenrollSticks
  <1>1. AgentInv /\ [Next]_vars => AgentInv'
    BY AgentStep
  <1>2. AgentInv => UnenrollSticks
    BY DEF AgentInv
  <1> QED
    BY <1>1, <1>2, InitInv, PTL DEF Spec

(***************************************************************************)
(* With one command at a time: what an enroll that succeeded wrote is what *)
(* stays on disk until the next command, through renewals and crashes      *)
(* (enroll_inner, ControlChannel::renew).                                  *)
(***************************************************************************)
THEOREM EnrollmentFinal ==
  ASSUME OneShell
  PROVE  Spec => []EnrollmentSticks
  <1>1. AgentInv /\ [Next]_vars => AgentInv'
    BY AgentStep
  <1>2. AgentInv => EnrollmentSticks
    BY DEF AgentInv
  <1> QED
    BY <1>1, <1>2, InitInv, PTL DEF Spec
=============================================================================
