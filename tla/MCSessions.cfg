SPECIFICATION AbortSpec
CONSTANTS
    Sessions = {s1}
    Calls = {c1, c2}
    MaxSessions = 1
    IdleTimeout = 0
    MaxGen = 2
    NoCall = NoCall
INVARIANTS
    EveryShellIsOwned
    CallsAreSerialized
    NoCallOnAKilledShell
PROPERTIES
    AbortReleasesCaller
    IdleSessionsAreReaped
