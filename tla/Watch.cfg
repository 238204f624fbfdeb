SPECIFICATION FairSpec
CONSTANTS
    MaxEdits = 3
    Period <- TwoSeconds
    Delays <- Delayed
    Work = 1
INVARIANTS
    RestartsPaidByEdits
PROPERTIES
    DetectedChangeRestarts
