\* Four processes started, windows of three samples, checks every three, one
\* look at /proc that fails.
SPECIFICATION DaemonFairSpec
CONSTANTS
    MaxPid = 4
    MaxSame = 2
    Time = 3
    MaxLoad = 2
    Loads = {0, 3}
    Gap = 3
    MaxMiss = 1
INVARIANTS
    OneCopy
    NeverKillsZero
    KillsGuilty
PROPERTIES
    Guarded
CHECK_DEADLOCK FALSE
