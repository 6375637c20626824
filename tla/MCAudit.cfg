SPECIFICATION LiveSpec
CONSTANTS
    MaxBytes = 2
    MaxLine = 2
    MaxEvents = 4
    Kinds = {"stat", "create", "copy", "close", "remove", "truncate", "append", "short", "sync", "crash", "power"}
INVARIANTS TypeOK AcknowledgedEventsStay TrailIsInOrder
PROPERTIES WritesRecover
CHECK_DEADLOCK FALSE
