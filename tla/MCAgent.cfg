SPECIFICATION LiveSpec
CONSTANTS
    None = None
    Daemon = Daemon
    Shells = {sh}
    DeviceKeys = {k1, k2, k3}
    FirstKeys = {k1, None}
    Commands = {"enroll", "force", "unenroll", "wipe"}
    MaxCommands = 3
    MaxEnrollments = 2
    MaxRenewals = 1
    MaxDaemonKills = 1
    MaxShellKills = 1
INVARIANTS TypeOK IdentityCoherent UnenrollSticks EnrollmentSticks
PROPERTIES EnrolledConnects
CHECK_DEADLOCK FALSE
