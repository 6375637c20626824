SPECIFICATION Spec
CONSTANTS
    JobIds = {j1, j2, j3}
    MaxActive = 2
    MaxResults = 2
    Retention = 1
    Reasons = {operator, killswitch}
    MaxLag = 1
    MaxTime = 2
SYMMETRY Symmetry
INVARIANTS
    LimitsHold
    BrakeReachesEveryJob
    TimedOutOnlyByDeadline
PROPERTIES
    CancelIsHonoured
    EvictionDiscipline
