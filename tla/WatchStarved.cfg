SPECIFICATION FairSpec
CONSTANTS
    MaxEdits = 2
    Period <- TwoSeconds
    Delays <- ThreeSeconds
    Work = 1
PROPERTIES
    DetectedChangeRestarts
