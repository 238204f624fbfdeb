SPECIFICATION Spec
CONSTANTS
    Entries = 2
    Policy <- MCPolicy
    MaxRestarts = 2
    CrashLimit = 1
    InitProcess = FALSE
INVARIANTS
    SignalLeavesNone
CHECK_DEADLOCK FALSE
