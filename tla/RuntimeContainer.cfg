SPECIFICATION FairSpec
CONSTANTS
    Entries = 2
    Policy <- MCPolicy
    MaxRestarts = 2
    CrashLimit = 1
    InitProcess = TRUE
INVARIANTS
    EachAttended
    StoppedTogether
PROPERTIES
    SignalStops
    RestartHappens
CHECK_DEADLOCK FALSE
