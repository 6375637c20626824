SPECIFICATION Spec
CONSTANTS
    Requests = {r1}
    NoRequest = NoRequest
    Switches = {k1}
    MaxStarts = 1
INVARIANTS
    SessionsDieWithBrake
