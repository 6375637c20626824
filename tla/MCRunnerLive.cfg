SPECIFICATION LiveSpec
CONSTANTS
    Calls = {c1}
PROPERTIES
    BrakeReleasesCallers
    DeadlineEndsCall
