SPECIFICATION FairSpec
CONSTANTS
    web = web
    job = job
    Name <- MCName
    NoName = NoName
    Policy <- MCPolicy
    Delayed <- MCDelayed
    MaxPid = 3
    MaxRestarts = 2
    CrashLimit = 1
    SaveMayFail = FALSE
    KillMayFail = FALSE
    VerifyMayMiss = FALSE
INVARIANTS
    NoOrphan
PROPERTIES
    Supervised
    DeathIsNoticed
    RestartCompletes
    StoppedDies
