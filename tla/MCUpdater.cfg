SPECIFICATION LiveSpec
CONSTANTS
    Updaters = {u1}
    NoUpdater = NoUpdater
    Latest = 4
    Broken = {2, 4}
    Name <- Names
    Forged = Forged
    Kinds = {"stop", "slow", "start", "backup", "swap", "aside", "restore", "crash", "power"}
    MaxFaults = 3
INVARIANTS
    TypeOK
    AlwaysRestorable
PROPERTIES
    UpdatesMoveForward
    BrakedMachineIsNotUpdated
    ServiceReturns
