SPECIFICATION Spec
CONSTANTS
    web = web
    job = job
    Name <- MCName
    NoName = NoName
    Policy <- MCPolicy
    Delayed <- MCDelayed
    MaxPid = 3
    MaxRestarts = 1
    CrashLimit = 1
    SaveMayFail = FALSE
    KillMayFail = FALSE
    VerifyMayMiss = FALSE
PROPERTIES
    ErroredSticks
