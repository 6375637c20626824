SPECIFICATION LiveSpec
CONSTANTS
    Requests = {r1}
    NoRequest = NoRequest
    Switches = {k1, k2}
    MaxStarts = 2
PROPERTIES
    KillSwitchIsAnswered
    JobsEndAfterKillSwitch
