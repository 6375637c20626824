SPECIFICATION Spec
CONSTANTS
    Requests = {r1, r2}
    NoRequest = NoRequest
    Switches = {k1, k2}
    MaxStarts = 2
SYMMETRY Symmetry
INVARIANTS
    TypeOK
    StruckJobsAreCancelled
    BrakeSurvivesRestart
PROPERTIES
    NoCommandWhileArmed
